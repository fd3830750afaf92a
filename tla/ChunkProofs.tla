----------------------------- MODULE ChunkProofs -----------------------------
(***************************************************************************)
(* Theorems about StateChunk for every client, every step of growth and    *)
(* every number of sections: what was written is found and read back.      *)
(***************************************************************************)
EXTENDS StateChunk, InductionLemmas

-----------------------------------------------------------------------------
(* Sums.                                                                    *)

Sums(f, counts) ==
  f[0] = 0 /\ \A m \in Nat : m < Len(counts) => f[m + 1] = f[m] + counts[m + 1]

LEMMA TotalIs ==
  ASSUME NEW counts \in Seq(Nat)
  PROVE  \E f \in [0 .. Len(counts) -> Nat] : Sums(f, counts) /\ Total(counts) = f[Len(counts)]
<1> DEFINE n == Len(counts)
           step == [i \in 1 .. n |-> [x \in Nat |-> x + counts[i]]]
           Walk(f) == [i \in 0 .. n |-> IF i = 0 THEN 0 ELSE f[i - 1] + counts[i]]
           sum == CHOOSE f : f = Walk(f)
<1>1. n \in Nat /\ \A i \in 1 .. n : counts[i] \in Nat
  BY LenProperties
<1>2. Total(counts) = sum[n]
  BY DEF Total
<1> HIDE DEF n
<1>3. step \in [1 .. n -> [Nat -> Nat]] /\ \A i \in 1 .. n, x \in Nat : step[i][x] = x + counts[i]
  BY <1>1
<1>4. PICK f \in [0 .. n -> Nat] : Recurs(f, 0, n, step)
  <2> HIDE DEF step
  <2> QED
    BY <1>1, <1>3, Recursion
<1>5. f[0] = 0 /\ \A i \in 1 .. n : i - 1 \in 0 .. n /\ f[i] = f[i - 1] + counts[i]
  <2>1. \A i \in 1 .. n : i - 1 \in 0 .. n
    BY <1>1
  <2>2. f[0] = 0 /\ \A i \in 1 .. n : f[i] = step[i][f[i - 1]]
    BY <1>4 DEF Recurs
  <2> HIDE DEF step
  <2> QED
    BY <1>3, <2>1, <2>2
<1>6. f = Walk(f)
  <2>1. \A i \in 0 .. n : f[i] = IF i = 0 THEN 0 ELSE f[i - 1] + counts[i]
    BY <1>5
  <2> QED
    BY <2>1
<1>7. sum = Walk(sum)
  <2> HIDE DEF Walk
  <2> QED
    BY <1>6
<1>8. sum[0] = 0 /\ \A i \in 1 .. n : sum[i] = sum[i - 1] + counts[i]
  <2> HIDE DEF sum
  <2> QED
    BY <1>1, <1>7
<1> HIDE DEF sum, Walk
<1> DEFINE M == {m \in Nat : m <= n => sum[m] = f[m]}
<1>9. 0 \in M
  BY <1>5, <1>8
<1>10. ASSUME NEW m \in M
       PROVE  m + 1 \in M
  <2> SUFFICES ASSUME m + 1 <= n
               PROVE  sum[m + 1] = f[m + 1]
    OBVIOUS
  <2>1. m + 1 \in 1 .. n /\ m + 1 - 1 = m /\ sum[m] = f[m]
    BY <1>1
  <2> QED
    BY <1>5, <1>8, <2>1
<1> HIDE DEF M
<1>11. M = Nat
  <2>1. M \in SUBSET Nat
    BY DEF M
  <2> QED
    BY <1>9, <1>10, <2>1, Induction
<1>12. sum[n] = f[n]
  <2>1. n \in M
    BY <1>1, <1>11
  <2> QED
    BY <2>1 DEF M
<1>13. Sums(f, counts)
  <2>1. ASSUME NEW m \in Nat, m < n
        PROVE  f[m + 1] = f[m] + counts[m + 1]
    <3>1. m + 1 \in 1 .. n /\ m + 1 - 1 = m
      BY <1>1, <2>1
    <3> QED
      BY <1>5, <3>1
  <2> QED
    BY <1>5, <2>1 DEF Sums, n
<1> QED
  BY <1>2, <1>12, <1>13 DEF n

\* Functions with the same summands are the same as far as those go.
LEMMA SumsAgree ==
  ASSUME NEW c \in Seq(Nat), NEW d \in Seq(Nat), NEW f, NEW g, Sums(f, c), Sums(g, d),
         NEW k \in Nat, Len(c) >= k, Len(d) >= k, \A i \in 1 .. k : c[i] = d[i]
  PROVE  f[k] = g[k]
<1> DEFINE M == {m \in Nat : m <= k => f[m] = g[m]}
<1>1. 0 \in M
  BY DEF Sums
<1>2. ASSUME NEW m \in M
      PROVE  m + 1 \in M
  <2> SUFFICES ASSUME m + 1 <= k
               PROVE  f[m + 1] = g[m + 1]
    OBVIOUS
  <2>1. m < Len(c) /\ m < Len(d) /\ m + 1 \in 1 .. k /\ f[m] = g[m]
    BY LenProperties
  <2> QED
    BY <2>1 DEF Sums
<1> HIDE DEF M
<1>3. M = Nat
  <2>1. M \in SUBSET Nat
    BY DEF M
  <2> QED
    BY <1>1, <1>2, <2>1, Induction
<1> QED
  BY <1>3 DEF M

LEMMA TotalEmpty == Total(<<>>) = 0
<1>1. <<>> \in Seq(Nat) /\ Len(<<>>) = 0
  BY EmptySeq
<1>2. PICK f \in [0 .. 0 -> Nat] : Sums(f, <<>>) /\ Total(<<>>) = f[0]
  BY <1>1, TotalIs
<1> QED
  BY <1>2 DEF Sums

\* One summand more.
LEMMA TotalNext ==
  ASSUME NEW c \in Seq(Nat), NEW d \in Seq(Nat), Len(d) = Len(c) + 1, \A i \in 1 .. Len(c) : d[i] = c[i]
  PROVE  Total(d) = Total(c) + d[Len(d)] /\ Total(c) \in Nat /\ Total(d) \in Nat
<1>1. Len(c) \in Nat /\ Len(c) < Len(d)
  BY LenProperties
<1>2. PICK f \in [0 .. Len(c) -> Nat] : Sums(f, c) /\ Total(c) = f[Len(c)]
  BY TotalIs
<1>3. PICK g \in [0 .. Len(d) -> Nat] : Sums(g, d) /\ Total(d) = g[Len(d)]
  BY TotalIs
<1>4. f[Len(c)] = g[Len(c)]
  <2>1. \A i \in 1 .. Len(c) : c[i] = d[i]
    OBVIOUS
  <2> DEFINE k == Len(c)
  <2>2. Sums(f, c) /\ Sums(g, d)
    BY <1>2, <1>3
  <2>3. k \in Nat /\ Len(c) >= k /\ Len(d) >= k /\ \A i \in 1 .. k : c[i] = d[i]
    BY <1>1, <2>1
  <2> HIDE DEF k
  <2>4. f[k] = g[k]
    BY ONLY c \in Seq(Nat), d \in Seq(Nat), <2>2, <2>3, SumsAgree
  <2> QED
    BY <2>4 DEF k
<1>5. g[Len(c) + 1] = g[Len(c)] + d[Len(c) + 1]
  BY <1>1, <1>3 DEF Sums
<1>6. Len(c) \in 0 .. Len(c) /\ Len(d) \in 0 .. Len(d)
  BY <1>1
<1> QED
  BY <1>2, <1>3, <1>4, <1>5, <1>6

-----------------------------------------------------------------------------
(* The growing buffer.                                                      *)

Buffer == {b \in [data : Seq(Int), cur : Nat] : b.cur <= Len(b.data)}

LEMMA BufferParts ==
  ASSUME NEW b \in Buffer
  PROVE  /\ b = [data |-> b.data, cur |-> b.cur]
         /\ b.data \in Seq(Int) /\ b.cur \in Nat /\ Len(b.data) \in Nat /\ b.cur <= Len(b.data)
         /\ \A i \in 1 .. Len(b.data) : b.data[i] \in Int
BY LenProperties DEF Buffer

LEMMA BufferExcept ==
  ASSUME NEW b \in Buffer, NEW x
  PROVE  /\ [b EXCEPT !.data = x] = [data |-> x, cur |-> b.cur]
         /\ [b EXCEPT !.cur = x] = [data |-> b.data, cur |-> x]
BY DEF Buffer

\* A sequence of words by its elements.
LEMMA WordsFrom ==
  ASSUME NEW n \in Nat, NEW w, w = [i \in 1 .. n |-> w[i]], \A i \in 1 .. n : w[i] \in Int
  PROVE  w \in Seq(Int) /\ Len(w) = n /\ DOMAIN w = 1 .. n
<1>1. w \in [1 .. n -> Int]
  OBVIOUS
<1> QED
  BY <1>1

LEMMA Resized ==
  ASSUME NEW b \in Buffer, NEW n \in Nat, b.cur <= n
  PROVE  LET r == ResizeBuffer(b, n)
         IN /\ r \in Buffer /\ r.cur = b.cur /\ Len(r.data) = n
            /\ \A i \in 1 .. n : i <= Len(b.data) => r.data[i] = b.data[i]
<1> DEFINE data == [i \in 1 .. n |-> IF i <= Len(b.data) THEN b.data[i] ELSE GARBAGE]
<1>1. ResizeBuffer(b, n) = [data |-> data, cur |-> b.cur]
  <2>1. ResizeBuffer(b, n) = [b EXCEPT !.data = data]
    BY DEF ResizeBuffer
  <2> HIDE DEF data
  <2> QED
    BY <2>1, BufferExcept
<1>2. \A i \in 1 .. n : data[i] \in Int /\ (i <= Len(b.data) => data[i] = b.data[i])
  BY BufferParts, ChunkAssumption
<1>3. data = [i \in 1 .. n |-> data[i]]
  OBVIOUS
<1> HIDE DEF data
<1>4. data \in Seq(Int) /\ Len(data) = n
  BY <1>2, <1>3, WordsFrom
<1> QED
  BY <1>1, <1>2, <1>4, BufferParts DEF Buffer

LEMMA SpaceEnsured ==
  ASSUME NEW b \in Buffer, NEW n \in Nat
  PROVE  LET e == EnsureWriteSpace(b, n)
         IN /\ e \in Buffer /\ e.cur = b.cur
            /\ b.cur + n <= Len(e.data) /\ Len(b.data) <= Len(e.data)
            /\ \A i \in 1 .. Len(b.data) : e.data[i] = b.data[i]
<1>1. CASE b.cur + n > Len(b.data)
  <2> DEFINE m == b.cur + Larger(n, MinGrowth)
  <2>1. m \in Nat /\ b.cur <= m /\ b.cur + n <= m /\ Len(b.data) <= m
    BY <1>1, BufferParts, ChunkAssumption DEF Larger
  <2>2. EnsureWriteSpace(b, n) = ResizeBuffer(b, m)
    BY <1>1 DEF EnsureWriteSpace
  <2> HIDE DEF m
  <2>3. \A i \in 1 .. Len(b.data) : i \in 1 .. m
    BY <2>1, BufferParts
  <2> QED
    BY <2>1, <2>2, <2>3, Resized
<1>2. CASE ~ (b.cur + n > Len(b.data))
  BY <1>2, BufferParts DEF EnsureWriteSpace
<1> QED
  BY <1>1, <1>2

LEMMA FilledHolds ==
  ASSUME NEW b \in Buffer, NEW ws \in Seq(Int), b.cur + Len(ws) <= Len(b.data)
  PROVE  LET f == Filled(b, ws)
         IN /\ f \in Buffer /\ f.cur = b.cur /\ Len(f.data) = Len(b.data)
            /\ \A i \in 1 .. b.cur : f.data[i] = b.data[i]
            /\ \A i \in 1 .. Len(ws) : f.data[b.cur + i] = ws[i]
<1> DEFINE n == Len(b.data)
           data == [i \in 1 .. n |-> IF i \in (b.cur + 1) .. (b.cur + Len(ws)) THEN ws[i - b.cur]
                                     ELSE b.data[i]]
<1>1. Filled(b, ws) = [data |-> data, cur |-> b.cur]
  <2>1. Filled(b, ws) = [b EXCEPT !.data = data]
    BY DEF Filled
  <2> HIDE DEF data
  <2> QED
    BY <2>1, BufferExcept
<1>2. Len(ws) \in Nat /\ \A i \in 1 .. Len(ws) : ws[i] \in Int
  BY LenProperties
<1>3. \A i \in 1 .. b.cur : data[i] = b.data[i]
  BY <1>2, BufferParts
<1>4. \A i \in 1 .. Len(ws) : data[b.cur + i] = ws[i]
  BY <1>2, BufferParts
<1>5. \A i \in 1 .. n : data[i] \in Int
  <2> SUFFICES ASSUME NEW i \in 1 .. n
               PROVE  data[i] \in Int
    OBVIOUS
  <2>1. CASE i \in (b.cur + 1) .. (b.cur + Len(ws))
    <3>1. i - b.cur \in 1 .. Len(ws) /\ data[i] = ws[i - b.cur]
      BY <1>2, <2>1, BufferParts
    <3> QED
      BY <1>2, <3>1
  <2>2. CASE i \notin (b.cur + 1) .. (b.cur + Len(ws))
    BY <2>2, BufferParts
  <2> QED
    BY <2>1, <2>2
<1>6. data = [i \in 1 .. n |-> data[i]] /\ n \in Nat
  BY BufferParts
<1> HIDE DEF data
<1>7. data \in Seq(Int) /\ Len(data) = n
  BY <1>5, <1>6, WordsFrom
<1> QED
  BY <1>1, <1>3, <1>4, <1>7, BufferParts DEF Buffer

\* What writing words does to a buffer, wherever it has to grow.
Extended(b, r, ws) ==
  /\ r \in Buffer /\ r.cur = b.cur + Len(ws)
  /\ \A i \in 1 .. b.cur : r.data[i] = b.data[i]
  /\ \A i \in 1 .. Len(ws) : r.data[b.cur + i] = ws[i]

LEMMA LockedExtends ==
  ASSUME NEW b \in Buffer, NEW n \in Nat, NEW ws \in Seq(Int),
         b.cur + Len(ws) <= Len(EnsureWriteSpace(b, n).data)
  PROVE  Extended(b, LockedWrite(b, n, ws), ws)
<1> DEFINE e == EnsureWriteSpace(b, n)
           f == Filled(e, ws)
           u == EnsureWriteSpace(f, Len(ws))
<1>1. /\ e \in Buffer /\ e.cur = b.cur /\ e.cur + Len(ws) <= Len(e.data)
      /\ Len(b.data) <= Len(e.data)
      /\ \A i \in 1 .. Len(b.data) : e.data[i] = b.data[i]
  BY SpaceEnsured
<1> HIDE DEF e
<1>2. /\ f \in Buffer /\ f.cur = e.cur /\ Len(f.data) = Len(e.data)
      /\ \A i \in 1 .. e.cur : f.data[i] = e.data[i]
      /\ \A i \in 1 .. Len(ws) : f.data[e.cur + i] = ws[i]
  BY <1>1, FilledHolds
<1> HIDE DEF f
<1>3. Len(ws) \in Nat
  BY LenProperties
<1>4. /\ u \in Buffer /\ u.cur = f.cur /\ Len(f.data) <= Len(u.data)
      /\ \A i \in 1 .. Len(f.data) : u.data[i] = f.data[i]
  BY <1>2, <1>3, SpaceEnsured
<1>5. LockedWrite(b, n, ws) = [u EXCEPT !.cur = u.cur + Len(ws)]
  BY DEF LockedWrite, e, f
<1> HIDE DEF u
<1>6. LockedWrite(b, n, ws) = [data |-> u.data, cur |-> b.cur + Len(ws)]
  BY <1>1, <1>2, <1>4, <1>5, BufferParts
<1>7. e.cur = b.cur /\ b.cur <= Len(b.data) /\ Len(b.data) <= Len(f.data) /\ b.cur + Len(ws) <= Len(f.data)
      /\ b.cur \in Nat /\ Len(b.data) \in Nat /\ Len(f.data) \in Nat
  BY <1>1, <1>2, BufferParts
<1>8. \A i \in 1 .. b.cur : i \in 1 .. e.cur /\ i \in 1 .. Len(b.data) /\ i \in 1 .. Len(f.data)
  BY <1>7
<1>9. \A i \in 1 .. b.cur : u.data[i] = b.data[i]
  BY <1>1, <1>2, <1>4, <1>8
<1>10. \A i \in 1 .. Len(ws) : b.cur + i \in 1 .. Len(f.data)
  BY <1>3, <1>7
<1>11. \A i \in 1 .. Len(ws) : u.data[b.cur + i] = ws[i]
  BY <1>1, <1>2, <1>4, <1>10
<1>12. /\ u.data \in Seq(Int) /\ b.cur + Len(ws) \in Nat /\ b.cur + Len(ws) <= Len(u.data)
  BY <1>1, <1>2, <1>3, <1>4, BufferParts
<1> QED
  BY <1>6, <1>9, <1>11, <1>12 DEF Extended, Buffer

LEMMA ByteDataExtends ==
  ASSUME NEW b \in Buffer, NEW ws \in Seq(Int)
  PROVE  Extended(b, WriteByteData(b, ws), ws)
<1>1. Len(ws) \in Nat
  BY LenProperties
<1>2. b.cur + Len(ws) <= Len(EnsureWriteSpace(b, Len(ws)).data)
  BY <1>1, SpaceEnsured
<1> QED
  BY <1>1, <1>2, LockedExtends DEF WriteByteData

LEMMA ExtendedTwice ==
  ASSUME NEW b \in Buffer, NEW r, NEW q, NEW ws \in Seq(Int), NEW vs \in Seq(Int),
         Extended(b, r, ws), Extended(r, q, vs)
  PROVE  Extended(b, q, ws \o vs)
<1>1. /\ Len(ws) \in Nat /\ Len(vs) \in Nat /\ Len(ws \o vs) = Len(ws) + Len(vs)
      /\ \A i \in 1 .. Len(ws) : (ws \o vs)[i] = ws[i]
      /\ \A i \in 1 .. Len(vs) : (ws \o vs)[Len(ws) + i] = vs[i]
  BY LenProperties, ConcatProperties
<1>2. r \in Buffer /\ b.cur \in Nat /\ r.cur = b.cur + Len(ws)
  BY BufferParts DEF Extended
<1>3. \A i \in 1 .. b.cur : i \in 1 .. r.cur
  BY <1>1, <1>2
<1>4. \A i \in 1 .. b.cur : q.data[i] = b.data[i]
  BY <1>3 DEF Extended
<1>5. ASSUME NEW i \in 1 .. Len(ws \o vs)
      PROVE  q.data[b.cur + i] = (ws \o vs)[i]
  <2>1. CASE i \in 1 .. Len(ws)
    <3>1. b.cur + i \in 1 .. r.cur
      BY <1>1, <1>2, <2>1
    <3> QED
      BY <1>1, <2>1, <3>1 DEF Extended
  <2>2. CASE i \notin 1 .. Len(ws)
    <3> DEFINE k == i - Len(ws)
    <3>1. k \in 1 .. Len(vs) /\ i = Len(ws) + k /\ b.cur + i = r.cur + k
      BY <1>1, <1>2, <2>2
    <3> HIDE DEF k
    <3> QED
      BY <1>1, <3>1 DEF Extended
  <2> QED
    BY <2>1, <2>2
<1>6. q \in Buffer /\ q.cur = b.cur + Len(ws \o vs)
  BY <1>1, <1>2 DEF Extended
<1> QED
  BY <1>4, <1>5, <1>6 DEF Extended

LEMMA WriteAllExtends ==
  ASSUME NEW b \in Buffer, NEW pieces \in Seq(Seq(Int))
  PROVE  Extended(b, WriteAll(b, pieces), FlattenSeq(pieces)) /\ FlattenSeq(pieces) \in Seq(Int)
<1> DEFINE n == Len(pieces)
           step == [i \in 1 .. n |-> [x \in Buffer |-> WriteByteData(x, pieces[i])]]
           Walk(f) == [i \in 0 .. n |-> IF i = 0 THEN b ELSE WriteByteData(f[i - 1], pieces[i])]
           after == CHOOSE f : f = Walk(f)
<1>1. n \in Nat /\ pieces \in [1 .. n -> Seq(Int)]
  BY LenProperties
<1>2. WriteAll(b, pieces) = after[n]
  BY DEF WriteAll
<1> HIDE DEF n
<1>3. \A i \in 1 .. n, x \in Buffer :
        /\ Extended(x, WriteByteData(x, pieces[i]), pieces[i])
        /\ WriteByteData(x, pieces[i]) \in Buffer
  BY <1>1, ByteDataExtends DEF Extended
<1>4. /\ step \in [1 .. n -> [Buffer -> Buffer]]
      /\ \A i \in 1 .. n, x \in Buffer : step[i][x] = WriteByteData(x, pieces[i])
  BY <1>3
<1>5. PICK f \in [0 .. n -> Buffer] : Recurs(f, b, n, step)
  <2> HIDE DEF step
  <2> QED
    BY <1>1, <1>4, Recursion
<1>6. f[0] = b /\ \A i \in 1 .. n : i - 1 \in 0 .. n /\ f[i] = WriteByteData(f[i - 1], pieces[i])
  <2>1. \A i \in 1 .. n : i - 1 \in 0 .. n
    BY <1>1
  <2>2. f[0] = b /\ \A i \in 1 .. n : f[i] = step[i][f[i - 1]]
    BY <1>5 DEF Recurs
  <2> HIDE DEF step
  <2> QED
    BY <1>4, <2>1, <2>2
<1>7. f = Walk(f)
  <2>1. \A i \in 0 .. n : f[i] = IF i = 0 THEN b ELSE WriteByteData(f[i - 1], pieces[i])
    BY <1>6
  <2> QED
    BY <2>1
<1>8. after = Walk(after)
  <2> HIDE DEF Walk
  <2> QED
    BY <1>7
<1>9. after[0] = b /\ \A i \in 1 .. n : after[i] = WriteByteData(after[i - 1], pieces[i])
  <2> HIDE DEF after
  <2> QED
    BY <1>1, <1>8
<1> HIDE DEF after, Walk, step
<1>10. PICK g \in [0 .. n -> Seq(Int)] : Joins(g, pieces, n)
  BY <1>1, Flattening
<1> DEFINE M == {m \in Nat : m <= n => after[m] \in Buffer /\ Extended(b, after[m], g[m])}
<1>11. 0 \in M
  <2>1. Len(<<>>) = 0 /\ b.cur + 0 = b.cur
    BY BufferParts
  <2>2. Extended(b, b, <<>>)
    BY <2>1 DEF Extended
  <2> QED
    BY <1>9, <1>10, <2>2 DEF Joins
<1>12. ASSUME NEW m \in M
       PROVE  m + 1 \in M
  <2> SUFFICES ASSUME m + 1 <= n
               PROVE  after[m + 1] \in Buffer /\ Extended(b, after[m + 1], g[m + 1])
    OBVIOUS
  <2>1. m \in Nat /\ m < n /\ m \in 0 .. n /\ m + 1 \in 1 .. n /\ m + 1 - 1 = m
    BY <1>1
  <2>2. after[m] \in Buffer /\ Extended(b, after[m], g[m])
    BY <2>1
  <2>3. after[m + 1] = WriteByteData(after[m], pieces[m + 1])
    BY <1>9, <2>1
  <2>4. g[m + 1] = g[m] \o pieces[m + 1]
    BY <1>10, <2>1 DEF Joins
  <2>5. Extended(after[m], after[m + 1], pieces[m + 1]) /\ after[m + 1] \in Buffer
    BY <1>3, <2>1, <2>2, <2>3
  <2>6. g[m] \in Seq(Int) /\ pieces[m + 1] \in Seq(Int)
    BY <1>1, <2>1
  <2> QED
    BY <2>2, <2>4, <2>5, <2>6, ExtendedTwice
<1> HIDE DEF M
<1>13. M = Nat
  <2>1. M \in SUBSET Nat
    BY DEF M
  <2> QED
    BY <1>11, <1>12, <2>1, Induction
<1>14. Extended(b, after[n], g[n])
  <2>1. n \in M
    BY <1>1, <1>13
  <2> QED
    BY <2>1 DEF M
<1> QED
  BY <1>1, <1>2, <1>10, <1>14 DEF Joins

-----------------------------------------------------------------------------
(* The words of an item.                                                    *)

LEMMA Pair ==
  ASSUME NEW x, NEW y
  PROVE  <<x, y>> = <<x>> \o <<y>>
<1> DEFINE s == <<x>> \o <<y>>
           t == <<x, y>>
<1>1. Len(s) = 2 /\ s[1] = x /\ s[2] = y
  OBVIOUS
<1>2. s = [i \in 1 .. 2 |-> s[i]]
  OBVIOUS
<1>3. t = [i \in 1 .. 2 |-> t[i]] /\ t[1] = x /\ t[2] = y
  OBVIOUS
<1> HIDE DEF s, t
<1>4. \A i \in 1 .. 2 : s[i] = t[i]
  BY <1>1, <1>3
<1>5. s = t
  BY <1>2, <1>3, <1>4
<1> QED
  BY <1>5 DEF s, t

LEMMA Triple ==
  ASSUME NEW x, NEW y, NEW z
  PROVE  <<x, y, z>> = <<x>> \o <<y, z>>
OBVIOUS

LEMMA SingleType ==
  ASSUME NEW s \in Seq(Int)
  PROVE  Single(s) \in [1 .. Len(s) -> Seq(Int)] /\ Single(s) \in Seq(Seq(Int))
<1>1. DOMAIN s = 1 .. Len(s) /\ Len(s) \in Nat /\ \A i \in 1 .. Len(s) : s[i] \in Int
  BY LenProperties
<1>2. \A i \in 1 .. Len(s) : <<s[i]>> \in Seq(Int)
  BY <1>1
<1>3. Single(s) \in [1 .. Len(s) -> Seq(Int)]
  BY <1>1, <1>2 DEF Single
<1> QED
  BY <1>1, <1>3, IsASeq

LEMMA FlattenSingle ==
  ASSUME NEW s \in Seq(Int)
  PROVE  FlattenSeq(Single(s)) = s
<1> DEFINE n == Len(s)
<1>1. /\ n \in Nat /\ DOMAIN s = 1 .. n /\ \A i \in 1 .. n : s[i] \in Int /\ Single(s)[i] = <<s[i]>>
      /\ Single(s) \in [1 .. n -> Seq(Int)]
  BY LenProperties, SingleType DEF Single
<1> HIDE DEF n
<1>2. PICK f \in [0 .. n -> Seq(Int)] : Joins(f, Single(s), n)
  BY <1>1, Flattening
<1> DEFINE M == {m \in Nat : m <= n => Len(f[m]) = m /\ \A i \in 1 .. m : f[m][i] = s[i]}
<1>3. 0 \in M
  BY <1>2 DEF Joins
<1>4. ASSUME NEW m \in M
      PROVE  m + 1 \in M
  <2> SUFFICES ASSUME m + 1 <= n
               PROVE  Len(f[m + 1]) = m + 1 /\ \A i \in 1 .. m + 1 : f[m + 1][i] = s[i]
    OBVIOUS
  <2>1. m \in Nat /\ m < n /\ m \in 0 .. n /\ m + 1 \in 1 .. n
    BY <1>1
  <2>2. f[m + 1] = f[m] \o <<s[m + 1]>>
    BY <1>1, <1>2, <2>1 DEF Joins
  <2>3. f[m] \in Seq(Int) /\ Len(f[m]) = m /\ \A i \in 1 .. m : f[m][i] = s[i]
    BY <2>1
  <2> DEFINE g == f[m]
             x == s[m + 1]
  <2>4. g \in Seq(Int) /\ Len(g) = m /\ (\A i \in 1 .. m : g[i] = s[i]) /\ x \in Int
    BY <1>1, <2>1, <2>3
  <2>5. f[m + 1] = g \o <<x>>
    BY <2>2
  <2> HIDE DEF g, M
  <2>6. Len(g \o <<x>>) = m + 1 /\ \A i \in 1 .. m + 1 : (g \o <<x>>)[i] = IF i <= m THEN g[i] ELSE x
    <3> HIDE DEF x
    <3> QED
      BY <2>1, <2>4
  <2>7. ASSUME NEW i \in 1 .. m + 1
        PROVE  (g \o <<x>>)[i] = s[i]
    <3>1. CASE i <= m
      BY <2>1, <2>4, <2>6, <3>1
    <3>2. CASE ~ (i <= m)
      <4>1. i = m + 1
        BY <2>1, <3>2
      <4> QED
        BY <2>6, <3>2, <4>1
    <3> QED
      BY <3>1, <3>2
  <2> QED
    BY <2>5, <2>6, <2>7
<1> HIDE DEF M
<1>5. M = Nat
  <2>1. M \in SUBSET Nat
    BY DEF M
  <2> QED
    BY <1>3, <1>4, <2>1, Induction
<1>6. Len(f[n]) = n /\ \A i \in 1 .. n : f[n][i] = s[i]
  <2>1. n \in M
    BY <1>1, <1>5
  <2> QED
    BY <2>1 DEF M
<1>7. f[n] \in Seq(Int) /\ f[n] = FlattenSeq(Single(s))
  BY <1>1, <1>2 DEF Joins
<1> QED
  BY <1>6, <1>7, SeqEqual DEF n

LEMMA ItemType ==
  ASSUME NEW it \in ItemKinds
  PROVE  /\ it.k \in {"struct", "id", "ids", "idseq", "man", "mans", "buf", "raw", "vtx"}
         /\ it.k \in {"struct", "man"} => it.v \in Int
         /\ it.k = "id" => it.v \in Nat
         /\ it.k \in {"ids", "idseq"} => it.v \in Seq(Nat)
         /\ it.k = "mans" => it.v \in Seq(Int)
         /\ it.k \in {"buf", "raw", "vtx"} => it.n \in Nat
         /\ it.k = "vtx" => it.mask \in Nat
BY DEF ItemKinds

\* The place of an object among those of the file.
LEMMA IndexIs ==
  ASSUME NEW id \in Nat
  PROVE  IF id \in ToSet(Saved)
           THEN LET i == CHOOSE j \in DOMAIN Saved : Saved[j] = id
                IN i \in 1 .. Len(Saved) /\ Saved[i] = id /\ IndexOf(id) = i - 1
           ELSE IndexOf(id) = -1
<1>1. DOMAIN Saved = 1 .. Len(Saved)
  BY ChunkAssumption, LenProperties
<1>2. id \in ToSet(Saved) => \E j \in DOMAIN Saved : Saved[j] = id
  BY DEF ToSet
<1>3. CASE id \in ToSet(Saved)
  <2> DEFINE i == CHOOSE j \in DOMAIN Saved : Saved[j] = id
  <2>1. i \in 1 .. Len(Saved) /\ Saved[i] = id
    BY <1>1, <1>2, <1>3
  <2>2. IndexOf(id) = i - 1
    BY <1>3 DEF IndexOf
  <2> QED
    BY <1>3, <2>1, <2>2
<1>4. CASE id \notin ToSet(Saved)
  BY <1>4 DEF IndexOf
<1> QED
  BY <1>3, <1>4

LEMMA ReferenceType ==
  ASSUME NEW id \in Nat, NEW file
  PROVE  Reference(file, id) \in Int
<1>1. Len(Saved) \in Nat
  BY ChunkAssumption, LenProperties
<1> QED
  BY <1>1, IndexIs DEF Reference

References(file, ids) == [i \in DOMAIN ids |-> Reference(file, ids[i])]

LEMMA ReferencesType ==
  ASSUME NEW ids \in Seq(Nat), NEW file
  PROVE  /\ References(file, ids) \in Seq(Int) /\ Len(References(file, ids)) = Len(ids)
         /\ \A i \in 1 .. Len(ids) : References(file, ids)[i] = Reference(file, ids[i])
<1> DEFINE r == References(file, ids)
<1>1. DOMAIN ids = 1 .. Len(ids) /\ Len(ids) \in Nat /\ \A i \in 1 .. Len(ids) : ids[i] \in Nat
  BY LenProperties
<1>2. \A i \in 1 .. Len(ids) : r[i] = Reference(file, ids[i]) /\ r[i] \in Int
  BY <1>1, ReferenceType DEF References
<1>3. r = [i \in 1 .. Len(ids) |-> r[i]]
  BY <1>1 DEF References
<1> HIDE DEF r
<1> QED
  BY <1>1, <1>2, <1>3, WordsFrom DEF r

LEMMA PayloadType ==
  ASSUME NEW n \in Nat
  PROVE  /\ GetCeilDwordSize(n) \in Nat
         /\ Payload(n) \in Seq(Int) /\ Len(Payload(n)) = GetCeilDwordSize(n)
<1> DEFINE m == GetCeilDwordSize(n)
           p == Payload(n)
<1>1. m \in Nat
  BY DEF GetCeilDwordSize
<1> HIDE DEF m
<1>2. p = [i \in 1 .. m |-> p[i]] /\ \A i \in 1 .. m : p[i] \in Int
  BY <1>1 DEF Payload, m
<1> HIDE DEF p
<1>3. p \in Seq(Int) /\ Len(p) = m
  BY <1>1, <1>2, WordsFrom
<1> QED
  BY <1>1, <1>3 DEF p, m

\* The block of vertices, of which the first word is the length.
LEMMA BlockType ==
  ASSUME NEW n \in Nat, NEW mask \in Nat
  PROVE  /\ VertexWords(n, mask) \in Nat
         /\ VertexBlock(n, mask) \in Seq(Int)
         /\ Len(VertexBlock(n, mask)) = VertexWords(n, mask) + 1
         /\ VertexBlock(n, mask)[1] = VertexWords(n, mask) + 1
<1> DEFINE m == VertexWords(n, mask)
           w == [i \in 1 .. m |-> 80 + (i % 10)]
<1>1. m \in Nat
  BY DEF VertexWords
<1>2. VertexBlock(n, mask) = <<m + 1>> \o w
  BY DEF VertexBlock
<1> HIDE DEF m
<1>3. w = [i \in 1 .. m |-> w[i]] /\ \A i \in 1 .. m : w[i] \in Int
  BY <1>1
<1> HIDE DEF w
<1>4. w \in Seq(Int) /\ Len(w) = m
  BY <1>1, <1>3, WordsFrom
<1>5. /\ <<m + 1>> \o w \in Seq(Int) /\ Len(<<m + 1>> \o w) = m + 1
      /\ (<<m + 1>> \o w)[1] = m + 1
  BY <1>1, <1>4
<1> QED
  BY <1>1, <1>2, <1>5 DEF m

\* Two pieces and three.
LEMMA FlattenTwo ==
  ASSUME NEW a \in Seq(Int), NEW b \in Seq(Int)
  PROVE  <<a, b>> \in Seq(Seq(Int)) /\ FlattenSeq(<<a, b>>) = a \o b
<1>1. <<b>> \in Seq(Seq(Int)) /\ <<a, b>> \in Seq(Seq(Int))
  OBVIOUS
<1>2. <<a, b>> = <<a>> \o <<b>>
  BY Pair
<1>3. FlattenSeq(<<a>> \o <<b>>) = a \o FlattenSeq(<<b>>)
  BY <1>1, FlattenCons
<1>4. FlattenSeq(<<b>>) = b
  BY FlattenOne
<1> QED
  BY <1>1, <1>2, <1>3, <1>4

LEMMA FlattenThree ==
  ASSUME NEW a \in Seq(Int), NEW b \in Seq(Int), NEW c \in Seq(Int)
  PROVE  <<a, b, c>> \in Seq(Seq(Int)) /\ FlattenSeq(<<a, b, c>>) = a \o (b \o c)
<1>1. <<b, c>> \in Seq(Seq(Int)) /\ FlattenSeq(<<b, c>>) = b \o c
  BY FlattenTwo
<1>2. <<a, b, c>> = <<a>> \o <<b, c>>
  BY Triple
<1>3. FlattenSeq(<<a>> \o <<b, c>>) = a \o FlattenSeq(<<b, c>>)
  BY <1>1, FlattenCons
<1>4. <<a, b, c>> \in Seq(Seq(Int))
  OBVIOUS
<1> QED
  BY <1>1, <1>2, <1>3, <1>4

\* A piece in front of single words.
LEMMA FlattenWords ==
  ASSUME NEW a \in Seq(Int), NEW s \in Seq(Int)
  PROVE  <<a>> \o Single(s) \in Seq(Seq(Int)) /\ FlattenSeq(<<a>> \o Single(s)) = a \o s
<1>1. Single(s) \in Seq(Seq(Int)) /\ FlattenSeq(Single(s)) = s /\ <<a>> \in Seq(Seq(Int))
  BY SingleType, FlattenSingle
<1>2. FlattenSeq(<<a>> \o Single(s)) = a \o FlattenSeq(Single(s))
  BY <1>1, FlattenCons
<1>3. <<a>> \o Single(s) \in Seq(Seq(Int))
  BY <1>1, ConcatProperties
<1> QED
  BY <1>1, <1>2, <1>3

Contents(file, it) ==
  CASE it.k = "struct" -> <<it.v>>
    [] it.k = "id" -> <<Reference(file, it.v)>>
    [] it.k \in {"ids", "idseq"} -> <<Len(it.v)>> \o References(file, it.v)
    [] it.k = "man" -> Guid \o <<it.v>>
    [] it.k = "mans" -> <<Len(it.v)>> \o (Guid \o it.v)
    [] it.k = "buf" -> <<it.n>> \o Payload(it.n)
    [] it.k = "raw" -> Payload(it.n)
    [] it.k = "vtx" -> <<it.n>> \o (<<it.mask>> \o VertexBlock(it.n, it.mask))

LEMMA ContentsAre ==
  ASSUME NEW it \in ItemKinds, NEW file
  PROVE  /\ Pieces(file, it) \in Seq(Seq(Int))
         /\ ItemWords(file, it) = Contents(file, it)
<1>1. ASSUME NEW x \in Int
      PROVE  <<x>> \in Seq(Int)
  OBVIOUS
<1>2. CASE it.k \in {"struct", "id"}
  <2> DEFINE x == IF it.k = "struct" THEN it.v ELSE Reference(file, it.v)
  <2>1. x \in Int
    BY <1>2, ItemType, ReferenceType
  <2>2. Pieces(file, it) = <<<<x>>>> /\ Contents(file, it) = <<x>>
    BY <1>2 DEF Pieces, Contents
  <2> HIDE DEF x
  <2>3. <<x>> \in Seq(Int) /\ <<<<x>>>> \in Seq(Seq(Int))
    BY <2>1
  <2>4. FlattenSeq(<<<<x>>>>) = <<x>>
    BY <2>3, FlattenOne
  <2> QED
    BY <2>2, <2>3, <2>4 DEF ItemWords
<1>3. CASE it.k \in {"ids", "idseq"}
  <2> DEFINE r == References(file, it.v)
             n == Len(it.v)
  <2>1. r \in Seq(Int) /\ n \in Int
    BY <1>3, ItemType, ReferencesType, LenProperties
  <2>2. Pieces(file, it) = <<<<n>>>> \o Single(r) /\ Contents(file, it) = <<n>> \o r
    BY <1>3 DEF Pieces, Contents, References
  <2> HIDE DEF r, n
  <2>3. <<n>> \in Seq(Int)
    BY <2>1
  <2> QED
    BY <2>1, <2>2, <2>3, FlattenWords DEF ItemWords
<1>4. CASE it.k = "man"
  <2> DEFINE x == it.v
  <2>1. x \in Int
    BY <1>4, ItemType
  <2>2. Pieces(file, it) = <<Guid, <<x>>>> /\ Contents(file, it) = Guid \o <<x>>
    BY <1>4 DEF Pieces, Contents
  <2> HIDE DEF x
  <2>3. Guid \in Seq(Int) /\ <<x>> \in Seq(Int)
    BY <2>1 DEF Guid
  <2> QED
    BY <2>2, <2>3, FlattenTwo DEF ItemWords
<1>5. CASE it.k = "mans"
  <2> DEFINE n == Len(it.v)
             v == it.v
             s == Single(v)
  <2>1. v \in Seq(Int) /\ n \in Int
    BY <1>5, ItemType, LenProperties
  <2>2. Pieces(file, it) = <<<<n>>, Guid>> \o s /\ Contents(file, it) = <<n>> \o (Guid \o v)
    BY <1>5 DEF Pieces, Contents
  <2>3. s \in Seq(Seq(Int)) /\ <<Guid>> \o s \in Seq(Seq(Int)) /\ FlattenSeq(<<Guid>> \o s) = Guid \o v
    <3>1. Guid \in Seq(Int)
      BY DEF Guid
    <3> HIDE DEF v
    <3> QED
      BY <2>1, <3>1, SingleType, FlattenWords
  <2> HIDE DEF n, v, s
  <2>4. <<n>> \in Seq(Int) /\ Guid \in Seq(Int) /\ <<<<n>>>> \in Seq(Seq(Int)) /\ <<Guid>> \in Seq(Seq(Int))
    BY <2>1 DEF Guid
  <2>5. <<<<n>>, Guid>> \o s = <<<<n>>>> \o (<<Guid>> \o s)
    <3> DEFINE a == <<<<n>>>>
               b == <<Guid>>
    <3>1. <<<<n>>, Guid>> = a \o b
      BY Pair
    <3>2. a \in Seq(Seq(Int)) /\ b \in Seq(Seq(Int))
      BY <2>4
    <3> HIDE DEF a, b
    <3>3. (a \o b) \o s = a \o (b \o s)
      BY <2>3, <3>2, ConcatAssociative
    <3> QED
      BY <3>1, <3>3 DEF a, b
  <2>6. FlattenSeq(<<<<n>>>> \o (<<Guid>> \o s)) = <<n>> \o (Guid \o v)
    BY <2>3, <2>4, FlattenCons
  <2>7. <<<<n>>>> \o (<<Guid>> \o s) \in Seq(Seq(Int))
    BY <2>3, <2>4, ConcatProperties
  <2> QED
    BY <2>2, <2>5, <2>6, <2>7 DEF ItemWords
<1>6. CASE it.k = "buf"
  <2> DEFINE n == it.n
             w == Payload(n)
  <2>1. n \in Int /\ w \in Seq(Int)
    BY <1>6, ItemType, PayloadType
  <2>2. Pieces(file, it) = <<<<n>>, w>> /\ Contents(file, it) = <<n>> \o w
    BY <1>6 DEF Pieces, Contents
  <2> HIDE DEF n, w
  <2>3. <<n>> \in Seq(Int)
    BY <2>1
  <2> QED
    BY <2>1, <2>2, <2>3, FlattenTwo DEF ItemWords
<1>7. CASE it.k = "raw"
  <2> DEFINE w == Payload(it.n)
  <2>1. w \in Seq(Int)
    BY <1>7, ItemType, PayloadType
  <2>2. Pieces(file, it) = <<w>> /\ Contents(file, it) = w
    BY <1>7 DEF Pieces, Contents
  <2> HIDE DEF w
  <2>3. <<w>> \in Seq(Seq(Int))
    BY <2>1
  <2> QED
    BY <2>1, <2>2, <2>3, FlattenOne DEF ItemWords
<1>8. CASE it.k = "vtx"
  <2> DEFINE n == it.n
             mask == it.mask
             w == VertexBlock(n, mask)
             a == <<n>>
             b == <<mask>>
  <2>1. n \in Nat /\ mask \in Nat
    BY <1>8, ItemType
  <2>2. w \in Seq(Int)
    BY <2>1, BlockType
  <2>3. Pieces(file, it) = <<a, b, w>> /\ Contents(file, it) = a \o (b \o w)
    BY <1>8 DEF Pieces, Contents
  <2>4. a \in Seq(Int) /\ b \in Seq(Int)
    BY <2>1
  <2> HIDE DEF a, b, w, n, mask
  <2>5. <<a, b, w>> \in Seq(Seq(Int)) /\ FlattenSeq(<<a, b, w>>) = a \o (b \o w)
    BY <2>2, <2>4, FlattenThree
  <2> QED
    BY <2>3, <2>5 DEF ItemWords
<1> QED
  BY <1>2, <1>3, <1>4, <1>5, <1>6, <1>7, <1>8, ItemType

LEMMA ItemWordsType ==
  ASSUME NEW it \in ItemKinds, NEW file
  PROVE  ItemWords(file, it) \in Seq(Int) /\ Len(ItemWords(file, it)) \in Nat
<1> DEFINE b == [data |-> <<>>, cur |-> 0]
<1>1. b \in Buffer
  BY DEF Buffer
<1>2. ItemWords(file, it) \in Seq(Int)
  BY <1>1, ContentsAre, WriteAllExtends DEF ItemWords
<1> QED
  BY <1>2, LenProperties

-----------------------------------------------------------------------------
(* Positions: where the items of a list of sections are in the buffer.      *)

Sections == Seq([ident : Nat, items : Seq(ItemKinds)])

Widths(f, items) == [i \in DOMAIN items |-> Len(ItemWords(f, items[i]))]

Before(f, l, s) == [t \in 1 .. (s - 1) |-> 2 + Total(Widths(f, l[t].items))]

At(f, l, s, j) == Total(Before(f, l, s)) + 2 + Total(SubSeq(Widths(f, l[s].items), 1, j - 1))

HeadAt(f, l, s) == At(f, l, s, 1) - 2

EndOf(f, l) == IF l = <<>> THEN 0 ELSE At(f, l, Len(l), Len(l[Len(l)].items) + 1)

LEMMA ItemStartIs ==
  /\ \A s, j : ItemStart(s, j) = At(bound, log, s, j)
  /\ \A s : Start(s) = HeadAt(bound, log, s)
  /\ End = EndOf(bound, log)
<1>1. \A s, j : ItemStart(s, j) = At(bound, log, s, j)
  BY DEF ItemStart, At, Before, Widths
<1> QED
  BY <1>1 DEF Start, HeadAt, End, EndOf, Last

LEMMA SectionParts ==
  ASSUME NEW l \in Sections, NEW s \in 1 .. Len(l)
  PROVE  /\ l[s] = [ident |-> l[s].ident, items |-> l[s].items]
         /\ l[s].ident \in Nat /\ l[s].items \in Seq(ItemKinds)
         /\ Len(l[s].items) \in Nat /\ DOMAIN l[s].items = 1 .. Len(l[s].items)
         /\ \A j \in 1 .. Len(l[s].items) : l[s].items[j] \in ItemKinds
<1>1. l[s] \in [ident : Nat, items : Seq(ItemKinds)]
  BY LenProperties DEF Sections
<1> QED
  BY <1>1, LenProperties

LEMMA LengthOf ==
  ASSUME NEW l \in Sections
  PROVE  Len(l) \in Nat /\ DOMAIN l = 1 .. Len(l) /\ (l = <<>> <=> Len(l) = 0)
BY LenProperties, EmptySeq DEF Sections

LEMMA WidthsType ==
  ASSUME NEW items \in Seq(ItemKinds), NEW f
  PROVE  /\ Widths(f, items) \in Seq(Nat) /\ Len(Widths(f, items)) = Len(items)
         /\ \A i \in 1 .. Len(items) : Widths(f, items)[i] = Len(ItemWords(f, items[i]))
<1> DEFINE w == Widths(f, items)
<1>1. DOMAIN items = 1 .. Len(items) /\ Len(items) \in Nat /\ \A i \in 1 .. Len(items) : items[i] \in ItemKinds
  BY LenProperties
<1>2. \A i \in 1 .. Len(items) : w[i] = Len(ItemWords(f, items[i])) /\ w[i] \in Nat
  BY <1>1, ItemWordsType DEF Widths
<1>3. w = [i \in 1 .. Len(items) |-> w[i]]
  BY <1>1 DEF Widths
<1> HIDE DEF w
<1>4. w \in [1 .. Len(items) -> Nat]
  BY <1>2, <1>3
<1>5. w \in Seq(Nat) /\ Len(w) = Len(items)
  BY <1>1, <1>4
<1> QED
  BY <1>2, <1>5 DEF w

LEMMA TotalType ==
  ASSUME NEW c \in Seq(Nat)
  PROVE  Total(c) \in Nat
<1>1. PICK f \in [0 .. Len(c) -> Nat] : Total(c) = f[Len(c)]
  BY TotalIs
<1>2. Len(c) \in 0 .. Len(c)
  BY LenProperties
<1> QED
  BY <1>1, <1>2

LEMMA BeforeType ==
  ASSUME NEW l \in Sections, NEW s \in 1 .. Len(l) + 1, NEW f
  PROVE  /\ Before(f, l, s) \in Seq(Nat) /\ Len(Before(f, l, s)) = s - 1
         /\ \A t \in 1 .. (s - 1) : Before(f, l, s)[t] = 2 + Total(Widths(f, l[t].items))
<1> DEFINE b == Before(f, l, s)
<1>1. s - 1 \in Nat /\ \A t \in 1 .. (s - 1) : t \in 1 .. Len(l)
  BY LengthOf
<1>2. ASSUME NEW t \in 1 .. (s - 1)
      PROVE  b[t] = 2 + Total(Widths(f, l[t].items)) /\ b[t] \in Nat
  <2>1. l[t].items \in Seq(ItemKinds)
    BY <1>1, SectionParts
  <2>2. Total(Widths(f, l[t].items)) \in Nat
    BY <2>1, WidthsType, TotalType
  <2> QED
    BY <2>2 DEF Before
<1>3. b = [t \in 1 .. (s - 1) |-> b[t]]
  BY DEF Before
<1> HIDE DEF b
<1>4. b \in [1 .. (s - 1) -> Nat]
  BY <1>2, <1>3
<1>5. b \in Seq(Nat) /\ Len(b) = s - 1
  BY <1>1, <1>4
<1> QED
  BY <1>2, <1>5 DEF b

\* The first words of a sequence of widths.
LEMMA FirstWidths ==
  ASSUME NEW items \in Seq(ItemKinds), NEW k \in 0 .. Len(items), NEW f
  PROVE  /\ SubSeq(Widths(f, items), 1, k) \in Seq(Nat) /\ Len(SubSeq(Widths(f, items), 1, k)) = k
         /\ \A i \in 1 .. k : SubSeq(Widths(f, items), 1, k)[i] = Len(ItemWords(f, items[i]))
<1> DEFINE w == Widths(f, items)
<1>1. w \in Seq(Nat) /\ Len(w) = Len(items) /\ Len(items) \in Nat
      /\ \A i \in 1 .. Len(items) : w[i] = Len(ItemWords(f, items[i]))
  BY WidthsType, LenProperties
<1> HIDE DEF w
<1>2. /\ SubSeq(w, 1, k) \in Seq(Nat) /\ Len(SubSeq(w, 1, k)) = k
      /\ \A i \in 1 .. k : SubSeq(w, 1, k)[i] = w[i]
  BY <1>1
<1> QED
  BY <1>1, <1>2 DEF w

LEMMA AtType ==
  ASSUME NEW l \in Sections, NEW s \in 1 .. Len(l), NEW j \in 1 .. Len(l[s].items) + 1, NEW f
  PROVE  At(f, l, s, j) \in Nat /\ At(f, l, s, j) >= 2
<1>1. s \in 1 .. Len(l) + 1 /\ l[s].items \in Seq(ItemKinds) /\ j - 1 \in 0 .. Len(l[s].items)
  <2>1. Len(l) \in Nat /\ l[s].items \in Seq(ItemKinds) /\ Len(l[s].items) \in Nat
    BY SectionParts, LengthOf
  <2> QED
    BY <2>1
<1>2. Total(Before(f, l, s)) \in Nat /\ Total(SubSeq(Widths(f, l[s].items), 1, j - 1)) \in Nat
  BY <1>1, BeforeType, FirstWidths, TotalType
<1> QED
  BY <1>2 DEF At

LEMMA AtFirst ==
  ASSUME NEW l \in Sections, l # <<>>, NEW f
  PROVE  HeadAt(f, l, 1) = 0
<1>1. 1 \in 1 .. Len(l) /\ 1 \in 1 .. Len(l) + 1
  BY LengthOf
<1>2. l[1].items \in Seq(ItemKinds) /\ Len(l[1].items) \in Nat /\ 0 \in 0 .. Len(l[1].items)
  <2>1. l[1].items \in Seq(ItemKinds) /\ Len(l[1].items) \in Nat
    BY <1>1, SectionParts
  <2> QED
    BY <2>1
<1>3. Before(f, l, 1) = <<>>
  BY <1>1, BeforeType, EmptySeq
<1>4. SubSeq(Widths(f, l[1].items), 1, 0) = <<>>
  BY <1>2, FirstWidths, EmptySeq
<1>5. At(f, l, 1, 1) = Total(Before(f, l, 1)) + 2 + Total(SubSeq(Widths(f, l[1].items), 1, 1 - 1))
  BY DEF At
<1>6. 1 - 1 = 0
  OBVIOUS
<1>7. At(f, l, 1, 1) = 0 + 2 + 0
  BY <1>3, <1>4, <1>5, <1>6, TotalEmpty
<1> QED
  BY <1>7 DEF HeadAt

\* An item lies behind the one before it.
LEMMA AtNext ==
  ASSUME NEW l \in Sections, NEW s \in 1 .. Len(l), NEW j \in 1 .. Len(l[s].items), NEW f
  PROVE  At(f, l, s, j + 1) = At(f, l, s, j) + Len(ItemWords(f, l[s].items[j]))
<1> DEFINE items == l[s].items
           c == SubSeq(Widths(f, items), 1, j - 1)
           d == SubSeq(Widths(f, items), 1, j + 1 - 1)
<1>1. items \in Seq(ItemKinds) /\ Len(items) \in Nat /\ j - 1 \in 0 .. Len(items) /\ j \in 0 .. Len(items)
  <2>1. items \in Seq(ItemKinds) /\ Len(items) \in Nat
    BY SectionParts
  <2> QED
    BY <2>1
<1>2. j + 1 - 1 = j
  OBVIOUS
<1>3. /\ c \in Seq(Nat) /\ Len(c) = j - 1
      /\ \A i \in 1 .. (j - 1) : c[i] = Len(ItemWords(f, items[i]))
  BY <1>1, FirstWidths
<1>4. /\ d \in Seq(Nat) /\ Len(d) = j
      /\ \A i \in 1 .. j : d[i] = Len(ItemWords(f, items[i]))
  BY <1>1, <1>2, FirstWidths
<1> DEFINE w == Len(ItemWords(f, items[j]))
           b == Total(Before(f, l, s))
<1>5. At(f, l, s, j) = b + 2 + Total(c) /\ At(f, l, s, j + 1) = b + 2 + Total(d)
  BY DEF At
<1>6. b \in Nat
  <2>1. s \in 1 .. Len(l) + 1
    BY LengthOf
  <2> QED
    BY <2>1, BeforeType, TotalType
<1>7. d[j] = w
  BY <1>4
<1>8. Len(d) = Len(c) + 1 /\ \A i \in 1 .. Len(c) : d[i] = c[i]
  BY <1>3, <1>4
<1> HIDE DEF items, c, d, w, b
<1>9. Total(d) = Total(c) + d[Len(d)] /\ Total(c) \in Nat /\ Total(d) \in Nat
  BY <1>3, <1>4, <1>8, TotalNext
<1>10. Total(d) = Total(c) + w
  BY <1>4, <1>7, <1>9
<1>11. w \in Nat
  <2>1. items[j] \in ItemKinds
    BY SectionParts DEF items
  <2> QED
    BY <2>1, ItemWordsType DEF w
<1>12. At(f, l, s, j + 1) = At(f, l, s, j) + w
  BY <1>5, <1>6, <1>9, <1>10, <1>11
<1> QED
  BY <1>12 DEF w, items

\* A section lies behind the one before it.
LEMMA AtSection ==
  ASSUME NEW l \in Sections, NEW s \in 1 .. Len(l), s + 1 \in 1 .. Len(l), NEW f
  PROVE  HeadAt(f, l, s + 1) = At(f, l, s, Len(l[s].items) + 1)
<1> DEFINE items == l[s].items
           n == Len(items)
           w == Widths(f, items)
           b == Before(f, l, s)
           d == Before(f, l, s + 1)
<1>1. items \in Seq(ItemKinds) /\ n \in Nat
  BY SectionParts
<1>2. w \in Seq(Nat) /\ Len(w) = n
  BY <1>1, WidthsType
<1>3. SubSeq(w, 1, n + 1 - 1) = w
  <2> HIDE DEF w, n
  <2>1. n + 1 - 1 = Len(w)
    BY <1>1, <1>2
  <2> QED
    BY <1>2, <2>1, SubSeqFull
<1>4. s \in 1 .. Len(l) + 1 /\ s + 1 \in 1 .. Len(l) + 1 /\ s + 1 - 1 = s
  BY LengthOf
<1>5. b \in Seq(Nat) /\ Len(b) = s - 1 /\ \A t \in 1 .. (s - 1) : b[t] = 2 + Total(Widths(f, l[t].items))
  BY <1>4, BeforeType
<1>6. d \in Seq(Nat) /\ Len(d) = s /\ \A t \in 1 .. s : d[t] = 2 + Total(Widths(f, l[t].items))
  BY <1>4, BeforeType
<1>7. d[s] = 2 + Total(w)
  BY <1>6
<1>8. Len(d) = Len(b) + 1 /\ \A t \in 1 .. Len(b) : d[t] = b[t]
  BY <1>5, <1>6
<1>9. SubSeq(Widths(f, l[s + 1].items), 1, 1 - 1) = <<>>
  <2> DEFINE t == s + 1
  <2>1. t \in 1 .. Len(l)
    OBVIOUS
  <2> HIDE DEF t
  <2>2. l[t].items \in Seq(ItemKinds) /\ Len(l[t].items) \in Nat
    BY <2>1, SectionParts
  <2>3. 0 \in 0 .. Len(l[t].items) /\ 1 - 1 = 0
    BY <2>2
  <2>4. SubSeq(Widths(f, l[t].items), 1, 1 - 1) = <<>>
    BY <2>2, <2>3, FirstWidths, EmptySeq
  <2> QED
    BY <2>4 DEF t
<1>10. HeadAt(f, l, s + 1) = Total(d) + 2 + 0 - 2
  <2>1. At(f, l, s + 1, 1) = Total(d) + 2 + Total(SubSeq(Widths(f, l[s + 1].items), 1, 1 - 1))
    BY DEF At
  <2>2. Total(SubSeq(Widths(f, l[s + 1].items), 1, 1 - 1)) = 0
    BY <1>9, TotalEmpty
  <2>3. HeadAt(f, l, s + 1) = At(f, l, s + 1, 1) - 2
    BY DEF HeadAt
  <2> HIDE DEF d, b, n, w
  <2>4. Total(d) \in Nat
    BY <1>6, TotalType
  <2> QED
    BY <2>1, <2>2, <2>3, <2>4
<1>11. At(f, l, s, n + 1) = Total(b) + 2 + Total(w)
  <2>1. At(f, l, s, n + 1) = Total(b) + 2 + Total(SubSeq(w, 1, n + 1 - 1))
    BY DEF At
  <2> QED
    BY <1>3, <2>1
<1>12. Total(w) \in Nat
  BY <1>2, TotalType
<1> HIDE DEF items, n, w, b, d
<1>13. Total(d) = Total(b) + d[Len(d)] /\ Total(b) \in Nat /\ Total(d) \in Nat
  BY <1>5, <1>6, <1>8, TotalNext
<1>14. Total(d) = Total(b) + (2 + Total(w))
  BY <1>6, <1>7, <1>13
<1>15. HeadAt(f, l, s + 1) = At(f, l, s, n + 1)
  BY <1>10, <1>11, <1>12, <1>13, <1>14
<1> QED
  BY <1>15 DEF n, items

LEMMA ItemsRise ==
  ASSUME NEW l \in Sections, NEW s \in 1 .. Len(l), NEW f,
         NEW j \in 1 .. Len(l[s].items) + 1, NEW k \in j .. Len(l[s].items) + 1
  PROVE  At(f, l, s, j) <= At(f, l, s, k)
<1> DEFINE n == Len(l[s].items)
<1>1. n \in Nat /\ \A i \in 1 .. n : l[s].items[i] \in ItemKinds
  BY SectionParts
<1> HIDE DEF n
<1> DEFINE M == {m \in Nat : j + m <= n + 1 => At(f, l, s, j) <= At(f, l, s, j + m)}
<1>2. 0 \in M
  <2>1. At(f, l, s, j) \in Nat
    BY AtType
  <2>2. j + 0 = j
    BY <1>1
  <2> QED
    BY <2>1, <2>2
<1>3. ASSUME NEW m \in M
      PROVE  m + 1 \in M
  <2> SUFFICES ASSUME j + (m + 1) <= n + 1
               PROVE  At(f, l, s, j) <= At(f, l, s, j + (m + 1))
    OBVIOUS
  <2> DEFINE i == j + m
  <2>1. m \in Nat /\ i \in 1 .. n /\ i \in 1 .. n + 1 /\ j + (m + 1) = i + 1 /\ j + m <= n + 1
    BY <1>1 DEF n
  <2>2. At(f, l, s, j) <= At(f, l, s, i)
    BY <2>1
  <2> HIDE DEF i, M
  <2>3. At(f, l, s, i + 1) = At(f, l, s, i) + Len(ItemWords(f, l[s].items[i]))
    BY <2>1, AtNext DEF n
  <2>4. At(f, l, s, i) \in Nat /\ At(f, l, s, j) \in Nat
    BY <2>1, AtType DEF n
  <2>5. Len(ItemWords(f, l[s].items[i])) \in Nat
    BY <1>1, <2>1, ItemWordsType
  <2> QED
    BY <2>1, <2>2, <2>3, <2>4, <2>5
<1> HIDE DEF M
<1>4. M = Nat
  <2>1. M \in SUBSET Nat
    BY DEF M
  <2> QED
    BY <1>2, <1>3, <2>1, Induction
<1>5. k - j \in M /\ j + (k - j) = k /\ k <= n + 1
  <2>1. k - j \in Nat /\ j + (k - j) = k /\ k <= n + 1
    BY <1>1 DEF n
  <2> QED
    BY <1>4, <2>1
<1> QED
  BY <1>5 DEF M

\* An item ends before the next one begins.
LEMMA ItemBefore ==
  ASSUME NEW l \in Sections, NEW s \in 1 .. Len(l), NEW f,
         NEW j \in 1 .. Len(l[s].items), NEW k \in j + 1 .. Len(l[s].items) + 1
  PROVE  At(f, l, s, j) + Len(ItemWords(f, l[s].items[j])) <= At(f, l, s, k)
<1>1. Len(l[s].items) \in Nat
  BY SectionParts
<1>2. j + 1 \in 1 .. Len(l[s].items) + 1
  BY <1>1
<1> QED
  BY <1>2, AtNext, ItemsRise

\* A section ends before the next one begins.
LEMMA SectionsRise ==
  ASSUME NEW l \in Sections, NEW f, NEW s \in 1 .. Len(l), NEW t \in s + 1 .. Len(l)
  PROVE  At(f, l, s, Len(l[s].items) + 1) <= HeadAt(f, l, t)
<1> DEFINE e == At(f, l, s, Len(l[s].items) + 1)
           M == {m \in Nat : s + 1 + m <= Len(l) => e <= HeadAt(f, l, s + 1 + m)}
<1>1. Len(l) \in Nat
  BY LengthOf
<1>2. e \in Nat
  <2>1. Len(l[s].items) + 1 \in 1 .. Len(l[s].items) + 1
    BY SectionParts
  <2> QED
    BY <2>1, AtType
<1>3. 0 \in M
  <2>1. s + 1 + 0 = s + 1
    BY <1>1
  <2>2. s + 1 <= Len(l) => HeadAt(f, l, s + 1) = e
    <3>1. s + 1 <= Len(l) => s + 1 \in 1 .. Len(l)
      BY <1>1
    <3> QED
      BY <3>1, AtSection
  <2> HIDE DEF e
  <2> QED
    BY <1>2, <2>1, <2>2
<1> HIDE DEF e
<1>4. ASSUME NEW m \in M
      PROVE  m + 1 \in M
  <2> SUFFICES ASSUME s + 1 + (m + 1) <= Len(l)
               PROVE  e <= HeadAt(f, l, s + 1 + (m + 1))
    OBVIOUS
  <2> DEFINE i == s + 1 + m
  <2>1. m \in Nat /\ i \in 1 .. Len(l) /\ i + 1 \in 1 .. Len(l) /\ s + 1 + (m + 1) = i + 1
    BY <1>1
  <2>2. e <= HeadAt(f, l, i)
    BY <1>1, <2>1
  <2> HIDE DEF i, M
  <2> DEFINE n == Len(l[i].items)
  <2>3. n \in Nat
    BY <2>1, SectionParts
  <2>4. 1 \in 1 .. n + 1 /\ n + 1 \in 1 .. n + 1 /\ n + 1 \in 1 .. n + 1
    BY <2>3
  <2>5. At(f, l, i, 1) <= At(f, l, i, n + 1)
    BY <2>1, <2>4, ItemsRise
  <2>6. HeadAt(f, l, i + 1) = At(f, l, i, n + 1)
    BY <2>1, AtSection
  <2>7. At(f, l, i, 1) \in Nat /\ At(f, l, i, n + 1) \in Nat /\ HeadAt(f, l, i) = At(f, l, i, 1) - 2
    BY <2>1, <2>4, AtType DEF HeadAt
  <2> HIDE DEF n
  <2>8. e <= HeadAt(f, l, i + 1)
    BY <1>2, <2>2, <2>5, <2>6, <2>7
  <2> QED
    BY <2>1, <2>8
<1> HIDE DEF M
<1>5. M = Nat
  <2>1. M \in SUBSET Nat
    BY DEF M
  <2> QED
    BY <1>3, <1>4, <2>1, Induction
<1>6. t - (s + 1) \in Nat /\ s + 1 + (t - (s + 1)) = t /\ t <= Len(l)
  BY <1>1
<1>7. t - (s + 1) \in M
  BY <1>5, <1>6
<1> QED
  BY <1>6, <1>7 DEF M, e

\* Everything lies before the end.
LEMMA InsideEnd ==
  ASSUME NEW l \in Sections, NEW s \in 1 .. Len(l), NEW f, NEW j \in 1 .. Len(l[s].items) + 1
  PROVE  At(f, l, s, j) <= EndOf(f, l) /\ EndOf(f, l) \in Nat
<1> DEFINE n == Len(l[s].items)
           k == Len(l)
           e == At(f, l, k, Len(l[k].items) + 1)
<1>1. k \in 1 .. Len(l) /\ l # <<>> /\ n \in Nat /\ k \in Nat
  BY SectionParts, LengthOf
<1>2. EndOf(f, l) = e
  BY <1>1 DEF EndOf
<1>3. Len(l[k].items) + 1 \in 1 .. Len(l[k].items) + 1 /\ 1 \in 1 .. Len(l[k].items) + 1
  <2>1. Len(l[k].items) \in Nat
    BY <1>1, SectionParts
  <2> QED
    BY <2>1
<1>4. e \in Nat /\ At(f, l, k, 1) \in Nat /\ At(f, l, k, 1) <= e
  <2>1. Len(l[k].items) + 1 \in 1 .. Len(l[k].items) + 1
    BY <1>3
  <2> QED
    BY <1>1, <1>3, <2>1, AtType, ItemsRise
<1>5. At(f, l, s, j) \in Nat /\ At(f, l, s, n + 1) \in Nat /\ At(f, l, s, j) <= At(f, l, s, n + 1)
  <2>1. n + 1 \in 1 .. n + 1 /\ n + 1 \in j .. n + 1
    BY <1>1
  <2> QED
    BY <2>1, AtType, ItemsRise
<1>6. CASE s = k
  BY <1>2, <1>4, <1>5, <1>6
<1>7. CASE s # k
  <2>1. k \in s + 1 .. Len(l)
    BY <1>1, <1>7
  <2>2. At(f, l, s, n + 1) <= HeadAt(f, l, k)
    BY <2>1, SectionsRise
  <2>3. HeadAt(f, l, k) = At(f, l, k, 1) - 2
    BY DEF HeadAt
  <2> HIDE DEF n, e, k
  <2> QED
    BY <1>2, <1>4, <1>5, <2>2, <2>3
<1> QED
  BY <1>6, <1>7

\* Where an item lies depends on what is before it.
LEMMA AtSame ==
  ASSUME NEW l \in Sections, NEW m \in Sections, NEW f,
         NEW s \in 1 .. Len(l), s <= Len(m), \A t \in 1 .. (s - 1) : m[t].items = l[t].items,
         NEW j \in 1 .. Len(l[s].items) + 1, j <= Len(m[s].items) + 1,
         \A i \in 1 .. (j - 1) : m[s].items[i] = l[s].items[i]
  PROVE  At(f, m, s, j) = At(f, l, s, j)
<1>1. Before(f, m, s) = Before(f, l, s)
  BY DEF Before
<1> DEFINE c == SubSeq(Widths(f, l[s].items), 1, j - 1)
           d == SubSeq(Widths(f, m[s].items), 1, j - 1)
<1>2. /\ l[s].items \in Seq(ItemKinds) /\ Len(l[s].items) \in Nat
      /\ m[s].items \in Seq(ItemKinds) /\ Len(m[s].items) \in Nat
  <2>1. s \in 1 .. Len(m)
    BY LengthOf
  <2> QED
    BY <2>1, SectionParts
<1>3. j - 1 \in 0 .. Len(l[s].items) /\ j - 1 \in 0 .. Len(m[s].items)
  BY <1>2
<1>4. /\ c \in Seq(Nat) /\ Len(c) = j - 1 /\ d \in Seq(Nat) /\ Len(d) = j - 1
      /\ \A i \in 1 .. (j - 1) : c[i] = d[i]
  <2>1. /\ c \in Seq(Nat) /\ Len(c) = j - 1
        /\ \A i \in 1 .. (j - 1) : c[i] = Len(ItemWords(f, l[s].items[i]))
    BY <1>2, <1>3, FirstWidths
  <2>2. /\ d \in Seq(Nat) /\ Len(d) = j - 1
        /\ \A i \in 1 .. (j - 1) : d[i] = Len(ItemWords(f, m[s].items[i]))
    BY <1>2, <1>3, FirstWidths
  <2> HIDE DEF c, d
  <2> QED
    BY <2>1, <2>2
<1> HIDE DEF c, d
<1>5. c = d
  BY <1>4, SeqEqual
<1> QED
  BY <1>1, <1>5 DEF At, c, d

-----------------------------------------------------------------------------
(* Sections and their items in the words of a buffer.                       *)

\* The words of d up to the end of the sections l: headers, links, of which
\* the last is x, and items.  `whole`: the vertex blocks too.
Holds(d, f, l, whole, x) ==
  \A s \in 1 .. Len(l) :
    /\ d[HeadAt(f, l, s) + 1] = l[s].ident
    /\ d[HeadAt(f, l, s) + 2] = IF s = Len(l) THEN x ELSE HeadAt(f, l, s + 1)
    /\ \A j \in 1 .. Len(l[s].items) : whole \/ l[s].items[j].k # "vtx" =>
         \A i \in 1 .. Len(ItemWords(f, l[s].items[j])) :
           d[At(f, l, s, j) + i] = ItemWords(f, l[s].items[j])[i]

\* Where the header of a section is.
LEMMA HeadInside ==
  ASSUME NEW l \in Sections, NEW s \in 1 .. Len(l), NEW f
  PROVE  /\ HeadAt(f, l, s) \in Nat /\ At(f, l, s, 1) = HeadAt(f, l, s) + 2
         /\ HeadAt(f, l, s) + 2 <= At(f, l, s, Len(l[s].items) + 1)
         /\ HeadAt(f, l, s) + 2 <= EndOf(f, l) /\ EndOf(f, l) \in Nat
<1> DEFINE n == Len(l[s].items)
<1>1. n \in Nat
  BY SectionParts
<1>2. 1 \in 1 .. n + 1 /\ n + 1 \in 1 .. n + 1
  BY <1>1
<1>3. At(f, l, s, 1) \in Nat /\ At(f, l, s, 1) >= 2 /\ At(f, l, s, 1) <= At(f, l, s, n + 1)
  BY <1>2, AtType, ItemsRise
<1>4. At(f, l, s, 1) <= EndOf(f, l) /\ EndOf(f, l) \in Nat
  BY <1>2, InsideEnd
<1> QED
  BY <1>3, <1>4 DEF HeadAt

\* An item is behind the header of its section and before the end.
LEMMA ItemInside ==
  ASSUME NEW l \in Sections, NEW s \in 1 .. Len(l), NEW f, NEW j \in 1 .. Len(l[s].items)
  PROVE  /\ At(f, l, s, j) \in Nat /\ HeadAt(f, l, s) + 2 <= At(f, l, s, j)
         /\ ItemWords(f, l[s].items[j]) \in Seq(Int) /\ Len(ItemWords(f, l[s].items[j])) \in Nat
         /\ At(f, l, s, j) + Len(ItemWords(f, l[s].items[j])) <= At(f, l, s, Len(l[s].items) + 1)
         /\ At(f, l, s, j) + Len(ItemWords(f, l[s].items[j])) <= EndOf(f, l)
<1> DEFINE n == Len(l[s].items)
           w == ItemWords(f, l[s].items[j])
<1>1. n \in Nat /\ l[s].items[j] \in ItemKinds
  BY SectionParts
<1>2. 1 \in 1 .. n + 1 /\ n + 1 \in 1 .. n + 1 /\ j \in 1 .. n + 1 /\ n + 1 \in j + 1 .. n + 1
      /\ j \in 1 .. n + 1
  BY <1>1
<1>3. At(f, l, s, j) \in Nat /\ At(f, l, s, 1) <= At(f, l, s, j)
  BY <1>2, AtType, ItemsRise
<1>4. At(f, l, s, j) + Len(w) <= At(f, l, s, n + 1)
  BY <1>2, ItemBefore
<1>5. w \in Seq(Int) /\ Len(w) \in Nat
  BY <1>1, ItemWordsType
<1>6. At(f, l, s, n + 1) <= EndOf(f, l) /\ At(f, l, s, n + 1) \in Nat /\ EndOf(f, l) \in Nat
  BY <1>2, InsideEnd, AtType
<1>7. At(f, l, s, 1) = HeadAt(f, l, s) + 2
  BY HeadInside
<1> HIDE DEF w, n
<1>8. At(f, l, s, j) + Len(w) <= EndOf(f, l)
  BY <1>3, <1>4, <1>5, <1>6
<1> QED
  BY <1>3, <1>4, <1>5, <1>7, <1>8 DEF w, n

\* What is behind the sections does not matter.
LEMMA HoldsFrame ==
  ASSUME NEW l \in Sections, NEW f, NEW d, NEW e, NEW whole, NEW x, Holds(d, f, l, whole, x),
         \A i \in 1 .. EndOf(f, l) : e[i] = d[i]
  PROVE  Holds(e, f, l, whole, x)
<1> SUFFICES ASSUME NEW s \in 1 .. Len(l)
             PROVE  /\ e[HeadAt(f, l, s) + 1] = d[HeadAt(f, l, s) + 1]
                    /\ e[HeadAt(f, l, s) + 2] = d[HeadAt(f, l, s) + 2]
                    /\ \A j \in 1 .. Len(l[s].items) :
                         \A i \in 1 .. Len(ItemWords(f, l[s].items[j])) :
                           e[At(f, l, s, j) + i] = d[At(f, l, s, j) + i]
  BY DEF Holds
<1>1. HeadAt(f, l, s) + 1 \in 1 .. EndOf(f, l) /\ HeadAt(f, l, s) + 2 \in 1 .. EndOf(f, l)
  BY HeadInside
<1>2. ASSUME NEW j \in 1 .. Len(l[s].items), NEW i \in 1 .. Len(ItemWords(f, l[s].items[j]))
      PROVE  At(f, l, s, j) + i \in 1 .. EndOf(f, l)
  <2>1. EndOf(f, l) \in Nat
    BY HeadInside
  <2> QED
    BY <2>1, ItemInside
<1> QED
  BY <1>1, <1>2

\* The link of the last section is written.
LEMMA HoldsLinked ==
  ASSUME NEW l \in Sections, l # <<>>, NEW f, NEW d, NEW whole, NEW x, NEW y, Holds(d, f, l, whole, x),
         DOMAIN d = 1 .. Len(d), Len(d) \in Nat, EndOf(f, l) <= Len(d)
  PROVE  Holds([d EXCEPT ![HeadAt(f, l, Len(l)) + 2] = y], f, l, whole, y)
<1> DEFINE n == Len(l)
           p == HeadAt(f, l, n) + 2
           e == [d EXCEPT ![p] = y]
<1>1. n \in 1 .. Len(l) /\ n \in Nat
  BY LengthOf
<1>2. HeadAt(f, l, n) \in Nat /\ p \in DOMAIN d
  BY <1>1, HeadInside
<1>3. e[p] = y /\ \A i : i # p => e[i] = d[i]
  BY <1>2
<1>4. ASSUME NEW s \in 1 .. n, s # n
      PROVE  /\ At(f, l, s, Len(l[s].items) + 1) <= HeadAt(f, l, n)
             /\ At(f, l, s, Len(l[s].items) + 1) \in Nat
  <2>1. n \in s + 1 .. n
    BY <1>1, <1>4
  <2>2. Len(l[s].items) + 1 \in 1 .. Len(l[s].items) + 1
    BY SectionParts
  <2> QED
    BY <2>1, <2>2, SectionsRise, AtType
<1> HIDE DEF e
<1>5. ASSUME NEW s \in 1 .. n
      PROVE  /\ e[HeadAt(f, l, s) + 1] = d[HeadAt(f, l, s) + 1]
             /\ s # n => e[HeadAt(f, l, s) + 2] = d[HeadAt(f, l, s) + 2]
  <2>1. CASE s = n
    <3>1. HeadAt(f, l, s) + 1 # p
      BY <1>2, <2>1
    <3> QED
      BY <1>3, <2>1, <3>1
  <2>2. CASE s # n
    <3>1. HeadAt(f, l, s) + 1 # p /\ HeadAt(f, l, s) + 2 # p
      BY <1>2, <1>4, <2>2, HeadInside
    <3> QED
      BY <1>3, <3>1
  <2> QED
    BY <2>1, <2>2
<1>6. ASSUME NEW s \in 1 .. n, NEW j \in 1 .. Len(l[s].items),
             NEW i \in 1 .. Len(ItemWords(f, l[s].items[j]))
      PROVE  e[At(f, l, s, j) + i] = d[At(f, l, s, j) + i]
  <2>1. CASE s = n
    <3>1. At(f, l, s, j) + i # p
      BY <1>2, <2>1, ItemInside
    <3> QED
      BY <1>3, <3>1
  <2>2. CASE s # n
    <3>1. At(f, l, s, j) + i <= HeadAt(f, l, n) /\ At(f, l, s, j) + i \in Nat
      <4> DEFINE a == At(f, l, s, j)
                 w == Len(ItemWords(f, l[s].items[j]))
                 z == At(f, l, s, Len(l[s].items) + 1)
      <4>1. a \in Nat /\ w \in Nat /\ a + w <= z
        BY ItemInside
      <4>2. z <= HeadAt(f, l, n) /\ z \in Nat
        BY <1>4, <2>2
      <4>3. i \in 1 .. w
        OBVIOUS
      <4> HIDE DEF a, w, z
      <4>4. a + i <= HeadAt(f, l, n) /\ a + i \in Nat
        BY <1>2, <4>1, <4>2, <4>3
      <4> QED
        BY <4>4 DEF a
    <3>2. At(f, l, s, j) + i # p
      BY <1>2, <3>1
    <3> QED
      BY <1>3, <3>2
  <2> QED
    BY <2>1, <2>2
<1>7. Holds(e, f, l, whole, y)
  <2> SUFFICES ASSUME NEW s \in 1 .. Len(l)
               PROVE  /\ e[HeadAt(f, l, s) + 1] = l[s].ident
                      /\ e[HeadAt(f, l, s) + 2] = IF s = Len(l) THEN y ELSE HeadAt(f, l, s + 1)
                      /\ \A j \in 1 .. Len(l[s].items) : whole \/ l[s].items[j].k # "vtx" =>
                           \A i \in 1 .. Len(ItemWords(f, l[s].items[j])) :
                             e[At(f, l, s, j) + i] = ItemWords(f, l[s].items[j])[i]
    BY DEF Holds
  <2>1. e[HeadAt(f, l, s) + 1] = l[s].ident
    BY <1>5 DEF Holds
  <2>2. e[HeadAt(f, l, s) + 2] = IF s = Len(l) THEN y ELSE HeadAt(f, l, s + 1)
    BY <1>3, <1>5 DEF Holds
  <2> QED
    BY <1>6, <2>1, <2>2 DEF Holds
<1> QED
  BY <1>7 DEF e, p, n

NewSection(l, ident) == Append(l, [ident |-> ident, items |-> <<>>])

NewItem(l, it) == [l EXCEPT ![Len(l)].items = Append(@, it)]

\* A section without items is added.
LEMMA SectionAdded ==
  ASSUME NEW l \in Sections, NEW f, NEW ident \in Nat
  PROVE  LET m == NewSection(l, ident)
         IN /\ m \in Sections /\ Len(m) = Len(l) + 1 /\ m # <<>>
            /\ m[Len(m)] = [ident |-> ident, items |-> <<>>]
            /\ \A s \in 1 .. Len(l) : m[s] = l[s] /\ s \in 1 .. Len(m)
            /\ \A s \in 1 .. Len(l) : \A j \in 1 .. Len(l[s].items) + 1 : At(f, m, s, j) = At(f, l, s, j)
            /\ HeadAt(f, m, Len(m)) = EndOf(f, l)
            /\ EndOf(f, m) = EndOf(f, l) + 2
<1> DEFINE new == [ident |-> ident, items |-> <<>>]
           m == Append(l, new)
           n == Len(l)
<1>1. n \in Nat /\ (l = <<>> <=> n = 0)
  BY LengthOf
<1>2. new \in [ident : Nat, items : Seq(ItemKinds)] /\ new.items = <<>>
  OBVIOUS
<1>3. m \in Sections /\ Len(m) = n + 1 /\ m[n + 1] = new /\ \A s \in 1 .. n : m[s] = l[s]
  <2> HIDE DEF new
  <2> QED
    BY <1>2, AppendProperties DEF Sections
<1> HIDE DEF m, new
<1>4. m # <<>> /\ \A s \in 1 .. n : s \in 1 .. Len(m)
  BY <1>1, <1>3, LengthOf
<1>5. ASSUME NEW s \in 1 .. n, NEW j \in 1 .. Len(l[s].items) + 1
      PROVE  At(f, m, s, j) = At(f, l, s, j)
  <2>1. s <= Len(m) /\ m[s] = l[s] /\ \A t \in 1 .. (s - 1) : m[t].items = l[t].items
    BY <1>1, <1>3
  <2>2. j <= Len(m[s].items) + 1 /\ \A i \in 1 .. (j - 1) : m[s].items[i] = l[s].items[i]
    BY <2>1, SectionParts
  <2> QED
    BY <1>3, <2>1, <2>2, AtSame
<1>6. HeadAt(f, m, n + 1) = EndOf(f, l)
  <2>1. CASE n = 0
    <3>1. n + 1 = 1
      BY <2>1
    <3>2. HeadAt(f, m, 1) = 0
      BY <1>3, <1>4, AtFirst
    <3> QED
      BY <1>1, <2>1, <3>1, <3>2 DEF EndOf
  <2>2. CASE n # 0
    <3>1. n \in 1 .. Len(m) /\ n + 1 \in 1 .. Len(m) /\ n \in 1 .. n /\ m[n] = l[n]
      BY <1>1, <1>3, <2>2
    <3>2. HeadAt(f, m, n + 1) = At(f, m, n, Len(l[n].items) + 1)
      BY <1>3, <3>1, AtSection
    <3>3. Len(l[n].items) + 1 \in 1 .. Len(l[n].items) + 1
      BY <3>1, SectionParts
    <3>4. EndOf(f, l) = At(f, l, n, Len(l[n].items) + 1)
      BY <1>1, <2>2 DEF EndOf
    <3> QED
      BY <1>5, <3>1, <3>2, <3>3, <3>4
  <2> QED
    BY <2>1, <2>2
<1>7. EndOf(f, m) = EndOf(f, l) + 2
  <2>1. n + 1 \in 1 .. Len(m) /\ m[n + 1].items = <<>>
    BY <1>1, <1>2, <1>3
  <2>2. EndOf(f, m) = At(f, m, n + 1, 1)
    BY <1>3, <1>4, <2>1 DEF EndOf
  <2> QED
    BY <1>3, <1>6, <2>1, <2>2, HeadInside
<1>8. /\ m \in Sections /\ Len(m) = n + 1 /\ m # <<>> /\ m[Len(m)] = new
      /\ \A s \in 1 .. n : m[s] = l[s] /\ s \in 1 .. Len(m)
      /\ \A s \in 1 .. n : \A j \in 1 .. Len(l[s].items) + 1 : At(f, m, s, j) = At(f, l, s, j)
      /\ HeadAt(f, m, Len(m)) = EndOf(f, l) /\ EndOf(f, m) = EndOf(f, l) + 2
  BY <1>3, <1>4, <1>5, <1>6, <1>7
<1> QED
  BY <1>8 DEF m, n, new, NewSection

LEMMA HoldsSection ==
  ASSUME NEW l \in Sections, NEW f, NEW d, NEW whole, NEW ident \in Nat,
         Holds(d, f, l, whole, EndOf(f, l)),
         d[EndOf(f, l) + 1] = ident, d[EndOf(f, l) + 2] = 0
  PROVE  Holds(d, f, NewSection(l, ident), whole, 0)
<1> DEFINE new == [ident |-> ident, items |-> <<>>]
           m == NewSection(l, ident)
           n == Len(l)
<1>1. /\ m \in Sections /\ Len(m) = n + 1 /\ m[n + 1] = new
      /\ \A s \in 1 .. n : m[s] = l[s]
      /\ \A s \in 1 .. n : \A j \in 1 .. Len(l[s].items) + 1 : At(f, m, s, j) = At(f, l, s, j)
      /\ HeadAt(f, m, n + 1) = EndOf(f, l)
  <2>1. /\ m \in Sections /\ Len(m) = n + 1 /\ m[Len(m)] = new
        /\ \A s \in 1 .. n : m[s] = l[s]
        /\ \A s \in 1 .. n : \A j \in 1 .. Len(l[s].items) + 1 : At(f, m, s, j) = At(f, l, s, j)
        /\ HeadAt(f, m, Len(m)) = EndOf(f, l)
    BY SectionAdded
  <2> HIDE DEF m, new
  <2> QED
    BY <2>1
<1>2. n \in Nat /\ new.ident = ident /\ Len(new.items) = 0
  BY LengthOf
<1> HIDE DEF m, new
<1>3. ASSUME NEW s \in 1 .. n
      PROVE  HeadAt(f, m, s) = HeadAt(f, l, s)
  <2>1. 1 \in 1 .. Len(l[s].items) + 1
    BY SectionParts
  <2> QED
    BY <1>1, <2>1 DEF HeadAt
<1> SUFFICES ASSUME NEW s \in 1 .. n + 1
             PROVE  /\ d[HeadAt(f, m, s) + 1] = m[s].ident
                    /\ d[HeadAt(f, m, s) + 2] = IF s = n + 1 THEN 0 ELSE HeadAt(f, m, s + 1)
                    /\ \A j \in 1 .. Len(m[s].items) : whole \/ m[s].items[j].k # "vtx" =>
                         \A i \in 1 .. Len(ItemWords(f, m[s].items[j])) :
                           d[At(f, m, s, j) + i] = ItemWords(f, m[s].items[j])[i]
  BY <1>1 DEF Holds, m, new
<1>4. CASE s = n + 1
  <2>1. 1 .. Len(m[s].items) = {}
    BY <1>1, <1>2, <1>4
  <2> QED
    BY <1>1, <1>2, <1>4, <2>1
<1>5. CASE s # n + 1
  <2>1. s \in 1 .. n /\ m[s] = l[s]
    BY <1>1, <1>2, <1>5
  <2>2. d[HeadAt(f, l, s) + 2] = HeadAt(f, m, s + 1)
    <3>1. CASE s = n
      BY <1>1, <2>1, <3>1 DEF Holds
    <3>2. CASE s # n
      <4>1. s + 1 \in 1 .. n
        BY <1>2, <2>1, <3>2
      <4> QED
        BY <1>3, <2>1, <3>2, <4>1 DEF Holds
    <3> QED
      BY <3>1, <3>2
  <2>3. \A j \in 1 .. Len(l[s].items) : j \in 1 .. Len(l[s].items) + 1
    BY <2>1, SectionParts
  <2>4. ASSUME NEW j \in 1 .. Len(l[s].items), whole \/ l[s].items[j].k # "vtx",
               NEW i \in 1 .. Len(ItemWords(f, l[s].items[j]))
        PROVE  d[At(f, m, s, j) + i] = ItemWords(f, l[s].items[j])[i]
    <3>1. At(f, m, s, j) = At(f, l, s, j)
      BY <1>1, <2>1, <2>3
    <3> QED
      BY <2>1, <2>4, <3>1 DEF Holds
  <2>5. d[HeadAt(f, m, s) + 1] = m[s].ident /\ HeadAt(f, m, s) = HeadAt(f, l, s)
    BY <1>3, <2>1 DEF Holds
  <2> QED
    BY <1>5, <2>1, <2>2, <2>4, <2>5
<1> QED
  BY <1>4, <1>5

\* An item is added to the last section.
LEMMA ItemAdded ==
  ASSUME NEW l \in Sections, l # <<>>, NEW f, NEW it \in ItemKinds
  PROVE  LET m == NewItem(l, it)
             n == Len(l)
         IN /\ m \in Sections /\ Len(m) = n /\ n \in 1 .. n /\ m # <<>>
            /\ \A s \in 1 .. n : s # n => m[s] = l[s]
            /\ m[n].ident = l[n].ident /\ Len(m[n].items) = Len(l[n].items) + 1
            /\ m[n].items[Len(l[n].items) + 1] = it
            /\ \A j \in 1 .. Len(l[n].items) : m[n].items[j] = l[n].items[j]
            /\ \A s \in 1 .. n : \A j \in 1 .. Len(l[s].items) + 1 : At(f, m, s, j) = At(f, l, s, j)
            /\ At(f, m, n, Len(l[n].items) + 1) = EndOf(f, l)
            /\ EndOf(f, m) = EndOf(f, l) + Len(ItemWords(f, it))
<1> DEFINE n == Len(l)
           m == [l EXCEPT ![n].items = Append(@, it)]
           k == Len(l[n].items)
           items == Append(l[n].items, it)
<1>1. n \in Nat /\ n \in 1 .. n /\ DOMAIN l = 1 .. n
  BY LengthOf
<1>2. l[n] = [ident |-> l[n].ident, items |-> l[n].items] /\ l[n].ident \in Nat
      /\ l[n].items \in Seq(ItemKinds) /\ k \in Nat
  BY <1>1, SectionParts
<1>3. /\ items \in Seq(ItemKinds) /\ Len(items) = k + 1 /\ items[k + 1] = it
      /\ \A j \in 1 .. k : items[j] = l[n].items[j]
  BY <1>2, AppendProperties
<1> HIDE DEF items
<1>4. m = [l EXCEPT ![n] = [ident |-> l[n].ident, items |-> items]]
  <2>1. [l[n] EXCEPT !.items = items] = [ident |-> l[n].ident, items |-> items]
    BY <1>2
  <2>2. m = [l EXCEPT ![n] = [l[n] EXCEPT !.items = items]]
    BY DEF items
  <2> QED
    BY <2>1, <2>2
<1> DEFINE new == [ident |-> l[n].ident, items |-> items]
<1>5. new \in [ident : Nat, items : Seq(ItemKinds)]
  BY <1>2, <1>3
<1>6. m \in Sections /\ Len(m) = n /\ m[n] = new /\ \A s \in 1 .. n : s # n => m[s] = l[s]
  <2>0. m = [l EXCEPT ![n] = new]
    BY <1>4
  <2> HIDE DEF new, m
  <2>1. m \in [1 .. n -> [ident : Nat, items : Seq(ItemKinds)]]
    <3>1. l \in [1 .. n -> [ident : Nat, items : Seq(ItemKinds)]]
      BY LenProperties DEF Sections
    <3> HIDE DEF n
    <3> QED
      BY <1>1, <1>5, <2>0, <3>1
  <2>2. m \in Sections /\ Len(m) = n
    <3> DEFINE T == [ident : Nat, items : Seq(ItemKinds)]
    <3>1. m \in [1 .. n -> T] /\ n \in Nat
      BY <1>1, <2>1
    <3> HIDE DEF T, n
    <3>2. m \in Seq(T)
      BY <3>1, IsASeq
    <3>3. Len(m) = n
      BY <3>1, <3>2
    <3> QED
      BY <3>2, <3>3 DEF Sections, T
  <2> QED
    BY <1>1, <2>0, <2>2
<1>7. m[n].ident = l[n].ident /\ m[n].items = items
  BY <1>6
<1> HIDE DEF new, m
<1>8. m # <<>>
  BY <1>1, <1>6, LengthOf
<1>9. ASSUME NEW s \in 1 .. n, NEW j \in 1 .. Len(l[s].items) + 1
      PROVE  At(f, m, s, j) = At(f, l, s, j)
  <2>1. s <= Len(m) /\ \A t \in 1 .. (s - 1) : m[t].items = l[t].items
    <3> HIDE DEF n
    <3>1. s <= Len(m) /\ \A t \in 1 .. (s - 1) : t \in 1 .. n /\ t # n
      BY <1>1, <1>6
    <3> QED
      BY <1>6, <3>1
  <2>2. j <= Len(m[s].items) + 1 /\ \A i \in 1 .. (j - 1) : m[s].items[i] = l[s].items[i]
    <3>1. CASE s = n
      BY <1>2, <1>3, <1>7, <3>1
    <3>2. CASE s # n
      BY <1>6, <3>2, SectionParts
    <3> QED
      BY <3>1, <3>2
  <2> QED
    BY <1>6, <2>1, <2>2, AtSame
<1>10. At(f, m, n, k + 1) = EndOf(f, l)
  <2>1. k + 1 \in 1 .. Len(l[n].items) + 1
    BY <1>2
  <2>2. EndOf(f, l) = At(f, l, n, k + 1)
    BY DEF EndOf
  <2> QED
    BY <1>1, <1>9, <2>1, <2>2
<1>11. EndOf(f, m) = EndOf(f, l) + Len(ItemWords(f, it))
  <2>1. n \in 1 .. Len(m) /\ k + 1 \in 1 .. Len(m[n].items) /\ m[n].items[k + 1] = it
    <3> HIDE DEF n, k
    <3>1. k + 1 \in 1 .. k + 1
      BY <1>2
    <3> QED
      BY <1>1, <1>3, <1>6, <1>7, <3>1
  <2>2. EndOf(f, m) = At(f, m, n, (k + 1) + 1)
    BY <1>3, <1>6, <1>7, <1>8 DEF EndOf
  <2> HIDE DEF k
  <2>3. At(f, m, n, (k + 1) + 1) = At(f, m, n, k + 1) + Len(ItemWords(f, m[n].items[k + 1]))
    BY <1>6, <2>1, AtNext
  <2> QED
    BY <1>10, <2>1, <2>2, <2>3
<1>12. /\ Len(m[n].items) = k + 1 /\ m[n].items[k + 1] = it
       /\ \A j \in 1 .. k : m[n].items[j] = l[n].items[j]
  BY <1>3, <1>7
<1>13. /\ m \in Sections /\ Len(m) = n /\ n \in 1 .. n /\ m # <<>>
       /\ \A s \in 1 .. n : s # n => m[s] = l[s]
       /\ m[n].ident = l[n].ident /\ Len(m[n].items) = k + 1
       /\ m[n].items[k + 1] = it
       /\ \A j \in 1 .. k : m[n].items[j] = l[n].items[j]
       /\ \A s \in 1 .. n : \A j \in 1 .. Len(l[s].items) + 1 : At(f, m, s, j) = At(f, l, s, j)
       /\ At(f, m, n, k + 1) = EndOf(f, l)
       /\ EndOf(f, m) = EndOf(f, l) + Len(ItemWords(f, it))
  BY <1>1, <1>6, <1>7, <1>8, <1>9, <1>10, <1>11, <1>12
<1> QED
  BY <1>13 DEF m, n, k, NewItem

LEMMA HoldsItem ==
  ASSUME NEW l \in Sections, l # <<>>, NEW f, NEW d, NEW whole, NEW still, NEW it \in ItemKinds,
         Holds(d, f, l, whole, 0), still => whole,
         still \/ it.k # "vtx" =>
           \A i \in 1 .. Len(ItemWords(f, it)) : d[EndOf(f, l) + i] = ItemWords(f, it)[i]
  PROVE  Holds(d, f, NewItem(l, it), still, 0)
<1> DEFINE n == Len(l)
           m == NewItem(l, it)
           k == Len(l[n].items)
<1>1. /\ m \in Sections /\ Len(m) = n /\ n \in 1 .. n
      /\ \A s \in 1 .. n : s # n => m[s] = l[s]
      /\ m[n].ident = l[n].ident /\ Len(m[n].items) = k + 1
      /\ m[n].items[k + 1] = it
      /\ \A j \in 1 .. k : m[n].items[j] = l[n].items[j]
      /\ \A s \in 1 .. n : \A j \in 1 .. Len(l[s].items) + 1 : At(f, m, s, j) = At(f, l, s, j)
      /\ At(f, m, n, k + 1) = EndOf(f, l)
  BY ItemAdded
<1> HIDE DEF m
<1>2. k \in Nat /\ n \in Nat
  BY SectionParts, LengthOf, <1>1
<1>3. ASSUME NEW s \in 1 .. n
      PROVE  HeadAt(f, m, s) = HeadAt(f, l, s) /\ m[s].ident = l[s].ident
  <2>1. 1 \in 1 .. Len(l[s].items) + 1
    BY SectionParts
  <2> QED
    BY <1>1, <2>1 DEF HeadAt
<1>4. ASSUME NEW s \in 1 .. n
      PROVE  /\ d[HeadAt(f, m, s) + 1] = m[s].ident
             /\ d[HeadAt(f, m, s) + 2] = IF s = n THEN 0 ELSE HeadAt(f, m, s + 1)
  <2>1. s # n => s + 1 \in 1 .. n
    BY <1>2
  <2> QED
    BY <1>3, <2>1 DEF Holds
<1>5. ASSUME NEW s \in 1 .. n, NEW j \in 1 .. Len(m[s].items), still \/ m[s].items[j].k # "vtx",
             NEW i \in 1 .. Len(ItemWords(f, m[s].items[j]))
      PROVE  d[At(f, m, s, j) + i] = ItemWords(f, m[s].items[j])[i]
  <2>1. CASE s = n /\ j = k + 1
    <3>1. m[s].items[j] = it /\ At(f, m, s, j) = EndOf(f, l)
      BY <1>1, <2>1
    <3> HIDE DEF k
    <3> QED
      BY <1>5, <3>1
  <2>2. CASE ~ (s = n /\ j = k + 1)
    <3>1. j \in 1 .. Len(l[s].items) /\ j \in 1 .. Len(l[s].items) + 1 /\ m[s].items[j] = l[s].items[j]
      <4>1. CASE s = n
        BY <1>1, <1>2, <2>2, <4>1
      <4>2. CASE s # n
        BY <1>1, <4>2, SectionParts
      <4> QED
        BY <4>1, <4>2
    <3>2. At(f, m, s, j) = At(f, l, s, j)
      BY <1>1, <3>1
    <3>3. d[At(f, l, s, j) + i] = ItemWords(f, l[s].items[j])[i]
      BY <1>5, <3>1 DEF Holds
    <3> QED
      BY <3>1, <3>2, <3>3
  <2> QED
    BY <2>1, <2>2
<1>6. Holds(d, f, m, still, 0)
  BY <1>1, <1>4, <1>5 DEF Holds
<1> QED
  BY <1>6 DEF m, n

-----------------------------------------------------------------------------
(* Writing an item: its words are behind what was there, but for those of a *)
(* vertex block that go past the end of the locked buffer.                  *)

Reached(b, r, n) ==
  r \in Buffer /\ r.cur = b.cur + n /\ \A i \in 1 .. b.cur : r.data[i] = b.data[i]

LEMMA FilledKeeps ==
  ASSUME NEW b \in Buffer, NEW ws \in Seq(Int)
  PROVE  LET f == Filled(b, ws)
         IN f \in Buffer /\ f.cur = b.cur /\ Len(f.data) = Len(b.data) /\ \A i \in 1 .. b.cur : f.data[i] = b.data[i]
<1> DEFINE n == Len(b.data)
           data == [i \in 1 .. n |-> IF i \in (b.cur + 1) .. (b.cur + Len(ws)) THEN ws[i - b.cur]
                                     ELSE b.data[i]]
<1>1. Filled(b, ws) = [data |-> data, cur |-> b.cur]
  <2>1. Filled(b, ws) = [b EXCEPT !.data = data]
    BY DEF Filled
  <2> HIDE DEF data
  <2> QED
    BY <2>1, BufferExcept
<1>2. Len(ws) \in Nat /\ \A i \in 1 .. Len(ws) : ws[i] \in Int
  BY LenProperties
<1>3. \A i \in 1 .. b.cur : data[i] = b.data[i]
  BY <1>2, BufferParts
<1>4. \A i \in 1 .. n : data[i] \in Int
  <2> SUFFICES ASSUME NEW i \in 1 .. n
               PROVE  data[i] \in Int
    OBVIOUS
  <2>1. CASE i \in (b.cur + 1) .. (b.cur + Len(ws))
    <3>1. i - b.cur \in 1 .. Len(ws) /\ data[i] = ws[i - b.cur]
      BY <1>2, <2>1, BufferParts
    <3> QED
      BY <1>2, <3>1
  <2>2. CASE i \notin (b.cur + 1) .. (b.cur + Len(ws))
    BY <2>2, BufferParts
  <2> QED
    BY <2>1, <2>2
<1>5. data = [i \in 1 .. n |-> data[i]] /\ n \in Nat
  BY BufferParts
<1> HIDE DEF data
<1>6. data \in Seq(Int) /\ Len(data) = n
  BY <1>4, <1>5, WordsFrom
<1> QED
  BY <1>1, <1>3, <1>6, BufferParts DEF Buffer

LEMMA LockedReaches ==
  ASSUME NEW b \in Buffer, NEW n \in Nat, NEW ws \in Seq(Int)
  PROVE  Reached(b, LockedWrite(b, n, ws), Len(ws))
<1> DEFINE e == EnsureWriteSpace(b, n)
           f == Filled(e, ws)
           u == EnsureWriteSpace(f, Len(ws))
<1>1. /\ e \in Buffer /\ e.cur = b.cur /\ Len(b.data) <= Len(e.data)
      /\ \A i \in 1 .. Len(b.data) : e.data[i] = b.data[i]
  BY SpaceEnsured
<1> HIDE DEF e
<1>2. /\ f \in Buffer /\ f.cur = e.cur /\ Len(f.data) = Len(e.data)
      /\ \A i \in 1 .. e.cur : f.data[i] = e.data[i]
  BY <1>1, FilledKeeps
<1> HIDE DEF f
<1>3. Len(ws) \in Nat
  BY LenProperties
<1>4. /\ u \in Buffer /\ u.cur = f.cur /\ f.cur + Len(ws) <= Len(u.data)
      /\ \A i \in 1 .. Len(f.data) : u.data[i] = f.data[i]
  BY <1>2, <1>3, SpaceEnsured
<1>5. LockedWrite(b, n, ws) = [u EXCEPT !.cur = u.cur + Len(ws)]
  BY DEF LockedWrite, e, f
<1> HIDE DEF u
<1>6. LockedWrite(b, n, ws) = [data |-> u.data, cur |-> b.cur + Len(ws)]
  BY <1>1, <1>2, <1>4, <1>5, BufferParts
<1>7. b.cur <= Len(b.data) /\ b.cur <= Len(f.data) /\ b.cur \in Nat /\ Len(b.data) \in Nat /\ Len(f.data) \in Nat
  BY <1>1, <1>2, BufferParts
<1>8. \A i \in 1 .. b.cur : i \in 1 .. Len(b.data) /\ i \in 1 .. Len(f.data) /\ i \in 1 .. e.cur
  BY <1>1, <1>7
<1>9. \A i \in 1 .. b.cur : u.data[i] = b.data[i]
  BY <1>1, <1>2, <1>4, <1>8
<1>10. u.data \in Seq(Int) /\ b.cur + Len(ws) \in Nat /\ b.cur + Len(ws) <= Len(u.data)
  BY <1>1, <1>2, <1>3, <1>4, <1>7, BufferParts
<1> QED
  BY <1>6, <1>9, <1>10 DEF Reached, Buffer

LEMMA VerticesWritten ==
  ASSUME NEW b \in Buffer, NEW it \in ItemKinds, it.k = "vtx"
  PROVE  LET w == WithVertices(b, it)
             ws == ItemWords(bound, it)
         IN /\ Reached(b, w.after, Len(ws)) /\ (~ w.beyond => Extended(b, w.after, ws))
            /\ Len(VertexBlock(it.n, it.mask)) <= Reserved(it.n) => ~ w.beyond
<1> DEFINE n == it.n
           m == it.mask
           x == <<n>>
           y == <<m>>
           v == VertexBlock(n, m)
           p == SubSeq(Pieces(bound, it), 1, 2)
           c == WriteAll(b, p)
           r == LockedWrite(c, Reserved(n), v)
<1>1. n \in Nat /\ m \in Nat
  BY ItemType
<1>2. v \in Seq(Int) /\ x \in Seq(Int) /\ y \in Seq(Int) /\ Reserved(n) \in Nat
  <2>1. v \in Seq(Int)
    BY <1>1, BlockType
  <2> HIDE DEF n, m
  <2>2. Reserved(n) \in Nat
    BY <1>1 DEF Reserved
  <2> QED
    BY <1>1, <2>1, <2>2
<1>3. Pieces(bound, it) = <<x, y, v>> /\ ItemWords(bound, it) = x \o (y \o v)
  BY ContentsAre DEF Pieces, Contents
<1> HIDE DEF x, y, v
<1>4. p = <<x, y>>
  <2>1. <<x, y, v>> \in Seq(Seq(Int)) /\ Len(<<x, y, v>>) = 3
    BY <1>2
  <2>2. SubSeq(<<x, y, v>>, 1, 2) = <<x, y>>
    <3> DEFINE s == SubSeq(<<x, y, v>>, 1, 2)
               t == <<x, y>>
    <3>1. s \in Seq(Seq(Int)) /\ Len(s) = 2 /\ s[1] = x /\ s[2] = y
      BY <2>1
    <3>2. t \in Seq(Seq(Int)) /\ Len(t) = 2 /\ t[1] = x /\ t[2] = y
      BY <1>2
    <3> HIDE DEF s, t
    <3>3. \A i \in 1 .. 2 : s[i] = t[i]
      BY <3>1, <3>2
    <3>4. s = t
      BY <3>1, <3>2, <3>3, SeqEqual
    <3> QED
      BY <3>4 DEF s, t
  <2> QED
    BY <1>3, <2>2
<1>5. FlattenSeq(p) = x \o y /\ p \in Seq(Seq(Int))
  BY <1>2, <1>4, FlattenTwo
<1> HIDE DEF p
<1>6. Extended(b, c, x \o y)
  BY <1>5, WriteAllExtends
<1>7. /\ WithVertices(b, it).after = r
      /\ WithVertices(b, it).beyond <=> c.cur + Len(v) > Len(EnsureWriteSpace(c, Reserved(n)).data)
  BY DEF WithVertices, p, v
<1> HIDE DEF c
<1>8. c \in Buffer /\ c.cur \in Nat /\ Len(v) \in Nat
  BY <1>2, <1>6, BufferParts, LenProperties DEF Extended
<1>9. Reached(c, r, Len(v))
  BY <1>2, <1>8, LockedReaches
<1>10. ASSUME ~ WithVertices(b, it).beyond
       PROVE  Extended(c, r, v)
  <2>1. Len(EnsureWriteSpace(c, Reserved(n)).data) \in Nat
    BY <1>2, <1>8, SpaceEnsured, BufferParts
  <2>2. c.cur + Len(v) <= Len(EnsureWriteSpace(c, Reserved(n)).data)
    BY <1>7, <1>8, <1>10, <2>1
  <2> QED
    BY <1>2, <1>8, <2>2, LockedExtends
<1>11. Len(v) <= Reserved(n) => ~ WithVertices(b, it).beyond
  <2> DEFINE d == EnsureWriteSpace(c, Reserved(n)).data
  <2>1. Len(d) \in Nat /\ c.cur + Reserved(n) <= Len(d)
    BY <1>2, <1>8, SpaceEnsured, BufferParts
  <2>2. WithVertices(b, it).beyond <=> c.cur + Len(v) > Len(d)
    BY <1>7
  <2> HIDE DEF d
  <2> QED
    BY <1>2, <1>8, <2>1, <2>2
<1>12. (x \o y) \o v = x \o (y \o v) /\ x \o y \in Seq(Int)
       /\ Len((x \o y) \o v) = Len(x \o y) + Len(v) /\ Len(x \o y) \in Nat
  BY <1>2, ConcatAssociative, ConcatProperties, LenProperties
<1> DEFINE h == x \o y
<1> HIDE DEF r, h
<1>13. Reached(b, r, Len(h) + Len(v))
  <2>1. c.cur = b.cur + Len(h) /\ \A i \in 1 .. b.cur : c.data[i] = b.data[i]
    BY <1>6 DEF Extended, h
  <2>2. b.cur \in Nat /\ Len(h) \in Nat
    BY <1>12, BufferParts DEF h
  <2>3. \A i \in 1 .. b.cur : i \in 1 .. c.cur
    BY <2>1, <2>2
  <2>4. r.cur = b.cur + (Len(h) + Len(v)) /\ r \in Buffer
    BY <1>8, <1>9, <2>1, <2>2 DEF Reached
  <2> QED
    BY <1>9, <2>1, <2>3, <2>4 DEF Reached
<1>14. ~ WithVertices(b, it).beyond => Extended(b, r, h \o v)
  <2>1. Extended(b, c, h) /\ h \in Seq(Int)
    BY <1>6, <1>12 DEF h
  <2> QED
    BY <1>2, <1>10, <2>1, ExtendedTwice
<1>15. ItemWords(bound, it) = h \o v /\ Len(h \o v) = Len(h) + Len(v)
  BY <1>3, <1>12 DEF h
<1> QED
  BY <1>7, <1>11, <1>13, <1>14, <1>15 DEF v, n

-----------------------------------------------------------------------------
(* The inductive invariant.                                                 *)

\* The entry i of a list is that of a sequence.
Announced(list, i) == i > 1 /\ list[i - 1] = -1

\* A list leads to the items of the kinds `one` and `many`, and each of them,
\* but for empty sequences, is led to.
Leads(list, f, l, one, many) ==
  /\ list \in Seq(Int)
  /\ Len(list) > 0 => list[Len(list)] # -1
  /\ \A i \in 1 .. Len(list) : list[i] # -1 =>
       \E s \in 1 .. Len(l) : \E j \in 1 .. Len(l[s].items) :
         /\ list[i] = At(f, l, s, j)
         /\ l[s].items[j].k \in (IF Announced(list, i) THEN many ELSE {one})
  /\ \A s \in 1 .. Len(l) : \A j \in 1 .. Len(l[s].items) :
       /\ l[s].items[j].k = one =>
            \E i \in 1 .. Len(list) : list[i] = At(f, l, s, j) /\ ~ Announced(list, i)
       /\ l[s].items[j].k \in many /\ l[s].items[j].v # <<>> =>
            \E i \in 1 .. Len(list) : list[i] = At(f, l, s, j) /\ Announced(list, i)

\* The byte buffer holds the chunk.
Carried ==
  /\ wire[1] = [ids |-> objectList # <<>>, man |-> managerList # <<>>, file |-> bound]
  /\ wire[2] = <<dwSize>> \o buf.data \o Counted(objectList) \o Counted(managerList)

ChunkTypes ==
  /\ status \in {"IDLE", "WRITE", "READ"}
  /\ bound \in BOOLEAN /\ loading \in BOOLEAN /\ overrun \in BOOLEAN
  /\ log \in Sections
  /\ buf = [data |-> buf.data, cur |-> buf.cur] /\ buf.data \in Seq(Int)
  /\ objectList \in Seq(Int) /\ managerList \in Seq(Int)

ListsLead ==
  /\ IF bound THEN objectList = <<>> ELSE Leads(objectList, bound, log, "id", {"ids", "idseq"})
  /\ Leads(managerList, bound, log, "man", {"mans"})

Phases ==
  /\ status = "WRITE" =>
       /\ ~ loading /\ wire = <<>>
       /\ buf \in Buffer /\ buf.cur = EndOf(bound, log)
       /\ prev = IF log = <<>> THEN 0 ELSE HeadAt(bound, log, Len(log))
  /\ status # "WRITE" => Len(buf.data) = EndOf(bound, log) /\ dwSize = EndOf(bound, log)
  /\ status = "READ" => loading
  /\ loading => wire # <<>>
  /\ wire # <<>> /\ ~ loading => status = "IDLE" /\ Carried

\* The reader is where the item it comes to begins.
ReaderPlaced ==
  place[1] # 0 =>
    /\ status = "READ" /\ place = <<place[1], place[2]>>
    /\ place[1] \in 1 .. Len(log) /\ place[2] \in 0 .. Len(log[place[1]].items)
    /\ ~ overrun => buf.cur = At(bound, log, place[1], place[2] + 1)

ChunkInv ==
  /\ ChunkTypes
  /\ Holds(buf.data, bound, log, ~ overrun, 0)
  /\ ListsLead
  /\ Phases
  /\ ReaderPlaced

LEMMA NoSections ==
  ASSUME NEW d, NEW f, NEW whole, NEW x
  PROVE  <<>> \in Sections /\ Holds(d, f, <<>>, whole, x) /\ EndOf(f, <<>>) = 0
BY DEF Sections, Holds, EndOf

\* A chunk without items has empty lists.
LEMMA NothingLeads ==
  ASSUME NEW f, NEW one, NEW many
  PROVE  /\ Leads(<<>>, f, <<>>, one, many)
         /\ \A list : Leads(list, f, <<>>, one, many) => list = <<>>
<1>1. Leads(<<>>, f, <<>>, one, many)
  BY DEF Leads
<1>2. ASSUME NEW list, Leads(list, f, <<>>, one, many)
      PROVE  list = <<>>
  <2>1. list \in Seq(Int) /\ Len(list) \in Nat
    BY <1>2, LenProperties DEF Leads
  <2>2. \A i \in 1 .. Len(list) : list[i] = -1
    BY <1>2 DEF Leads
  <2>3. ~ (Len(list) > 0)
    BY <1>2, <2>1, <2>2 DEF Leads
  <2>4. Len(list) = 0
    BY <2>1, <2>3
  <2> QED
    BY <2>1, <2>4, EmptySeq
<1> QED
  BY <1>1, <1>2

LEMMA ChunkInit == Init => ChunkInv
<1> SUFFICES ASSUME Init
             PROVE  ChunkInv
  OBVIOUS
<1> USE DEF Init
<1>1. ChunkTypes
  <2>1. buf = [data |-> buf.data, cur |-> buf.cur] /\ buf.data \in Seq(Int)
    OBVIOUS
  <2> QED
    BY <2>1, NoSections DEF ChunkTypes
<1>2. Holds(buf.data, bound, log, ~ overrun, 0)
  BY NoSections
<1>3. ListsLead
  BY NothingLeads DEF ListsLead
<1>4. Phases
  BY NoSections DEF Phases
<1>5. ReaderPlaced
  BY DEF ReaderPlaced
<1> QED
  BY <1>1, <1>2, <1>3, <1>4, <1>5 DEF ChunkInv

LEMMA StartWriteKeeps ==
  ASSUME ChunkInv, StartWrite
  PROVE  ChunkInv'
<1>1. /\ status = "IDLE" /\ wire = <<>> /\ log = <<>> /\ status' = "WRITE"
      /\ buf' = [data |-> <<>>, cur |-> 0] /\ prev' = 0
      /\ objectList' = objectList /\ managerList' = managerList /\ bound' = bound
      /\ wire' = wire /\ loading' = loading /\ log' = log /\ place' = place /\ overrun' = overrun
  BY DEF StartWrite, clientVars
<1>2. buf'.data = <<>> /\ buf'.cur = 0 /\ buf' \in Buffer
  BY <1>1 DEF Buffer
<1>3. ChunkTypes'
  BY <1>1, <1>2 DEF ChunkInv, ChunkTypes
<1>4. Holds(buf.data, bound, log, ~ overrun, 0)'
  BY <1>1, NoSections
<1>5. ListsLead'
  BY <1>1 DEF ChunkInv, ListsLead
<1>6. Phases'
  <2>1. ~ loading
    BY <1>1 DEF ChunkInv, Phases, ChunkTypes
  <2> QED
    BY <1>1, <1>2, <2>1, NoSections DEF Phases
<1>7. ReaderPlaced'
  BY <1>1 DEF ChunkInv, ReaderPlaced
<1> QED
  BY <1>3, <1>4, <1>5, <1>6, <1>7 DEF ChunkInv

\* The lists of a chunk that is given one more section.
LEMMA LeadsSection ==
  ASSUME NEW l \in Sections, NEW f, NEW ident \in Nat, NEW list, NEW one, NEW many,
         Leads(list, f, l, one, many)
  PROVE  Leads(list, f, NewSection(l, ident), one, many)
<1> DEFINE m == NewSection(l, ident)
           n == Len(l)
           new == [ident |-> ident, items |-> <<>>]
<1>1. /\ m \in Sections /\ Len(m) = n + 1 /\ m[Len(m)] = new
      /\ \A s \in 1 .. n : m[s] = l[s] /\ s \in 1 .. Len(m)
      /\ \A s \in 1 .. n : \A j \in 1 .. Len(l[s].items) + 1 : At(f, m, s, j) = At(f, l, s, j)
  BY SectionAdded
<1>2. n \in Nat /\ Len(new.items) = 0
  BY LengthOf
<1> HIDE DEF m, n, new
<1>3. \A s \in 1 .. n : \A j \in 1 .. Len(l[s].items) : At(f, m, s, j) = At(f, l, s, j)
  <2>1. \A s \in 1 .. n : \A j \in 1 .. Len(l[s].items) : j \in 1 .. Len(l[s].items) + 1
    BY SectionParts DEF n
  <2> QED
    BY <1>1, <2>1
<1>4. \A s \in 1 .. Len(m) : s \in 1 .. n \/ 1 .. Len(m[s].items) = {}
  BY <1>1, <1>2
<1>5. \A i \in 1 .. Len(list) : list[i] # -1 =>
       \E s \in 1 .. Len(m) : \E j \in 1 .. Len(m[s].items) :
         /\ list[i] = At(f, m, s, j)
         /\ m[s].items[j].k \in (IF Announced(list, i) THEN many ELSE {one})
  <2> SUFFICES ASSUME NEW i \in 1 .. Len(list), list[i] # -1
               PROVE  \E s \in 1 .. Len(m) : \E j \in 1 .. Len(m[s].items) :
                        /\ list[i] = At(f, m, s, j)
                        /\ m[s].items[j].k \in (IF Announced(list, i) THEN many ELSE {one})
    OBVIOUS
  <2>1. PICK s \in 1 .. n : \E j \in 1 .. Len(l[s].items) :
          /\ list[i] = At(f, l, s, j)
          /\ l[s].items[j].k \in (IF Announced(list, i) THEN many ELSE {one})
    BY DEF Leads, n
  <2> QED
    BY <1>1, <1>3, <2>1
<1>6. \A s \in 1 .. Len(m) : \A j \in 1 .. Len(m[s].items) :
       /\ m[s].items[j].k = one =>
            \E i \in 1 .. Len(list) : list[i] = At(f, m, s, j) /\ ~ Announced(list, i)
       /\ m[s].items[j].k \in many /\ m[s].items[j].v # <<>> =>
            \E i \in 1 .. Len(list) : list[i] = At(f, m, s, j) /\ Announced(list, i)
  <2> SUFFICES ASSUME NEW s \in 1 .. Len(m), NEW j \in 1 .. Len(m[s].items)
               PROVE  /\ m[s].items[j].k = one =>
                           \E i \in 1 .. Len(list) : list[i] = At(f, m, s, j) /\ ~ Announced(list, i)
                      /\ m[s].items[j].k \in many /\ m[s].items[j].v # <<>> =>
                           \E i \in 1 .. Len(list) : list[i] = At(f, m, s, j) /\ Announced(list, i)
    OBVIOUS
  <2>1. s \in 1 .. n /\ m[s] = l[s] /\ j \in 1 .. Len(l[s].items) /\ At(f, m, s, j) = At(f, l, s, j)
    BY <1>1, <1>3, <1>4
  <2> QED
    BY <2>1 DEF Leads, n
<1> QED
  BY <1>5, <1>6 DEF Leads, m

LEMMA WriteIdentifierKeeps ==
  ASSUME ChunkInv, NEW ident \in Ident, WriteIdentifierDword(ident)
  PROVE  ChunkInv'
<1> DEFINE b == EnsureWriteSpace(buf, 2)
           linked == IF HasPredecessor(b) THEN [b.data EXCEPT ![prev + 2] = b.cur] ELSE b.data
           data == [linked EXCEPT ![b.cur + 1] = ident, ![b.cur + 2] = 0]
           e == EndOf(bound, log)
<1>1. /\ status = "WRITE" /\ buf' = [data |-> data, cur |-> b.cur + 2] /\ prev' = b.cur
      /\ log' = NewSection(log, ident) /\ UNCHANGED <<status, dwSize, objectList, managerList, bound>>
      /\ UNCHANGED <<wire, loading, place, last, overrun>>
  BY DEF WriteIdentifierDword, HeaderAt, NewSection
<1>2. /\ buf \in Buffer /\ buf.cur = e /\ ~ loading /\ wire = <<>>
      /\ prev = IF log = <<>> THEN 0 ELSE HeadAt(bound, log, Len(log))
  BY <1>1 DEF ChunkInv, Phases
<1>3. log \in Sections /\ ident \in Nat /\ bound \in BOOLEAN
  BY ChunkAssumption DEF ChunkInv, ChunkTypes
<1>4. /\ b \in Buffer /\ b.cur = e /\ e + 2 <= Len(b.data) /\ Len(buf.data) <= Len(b.data)
      /\ \A i \in 1 .. Len(buf.data) : b.data[i] = buf.data[i]
  BY <1>2, SpaceEnsured
<1> HIDE DEF b
<1>5. e \in Nat /\ e <= Len(buf.data) /\ Len(buf.data) \in Nat /\ Len(b.data) \in Nat
      /\ b.data \in Seq(Int) /\ DOMAIN b.data = 1 .. Len(b.data)
  BY <1>2, <1>4, BufferParts, LenProperties
<1>6. Holds(b.data, bound, log, ~ overrun, 0)
  <2>1. \A i \in 1 .. e : b.data[i] = buf.data[i]
    <3> HIDE DEF e
    <3>1. \A i \in 1 .. e : i \in 1 .. Len(buf.data)
      BY <1>5
    <3> QED
      BY <1>4, <3>1
  <2>2. Holds(buf.data, bound, log, ~ overrun, 0)
    BY DEF ChunkInv
  <2> QED
    BY <1>3, <2>1, <2>2, HoldsFrame
<1>7. Holds(linked, bound, log, ~ overrun, e) /\ linked \in Seq(Int) /\ Len(linked) = Len(b.data)
  <2>1. CASE log = <<>>
    <3>1. e = 0 /\ prev = 0
      BY <1>2, <2>1 DEF EndOf
    <3>2. ~ HasPredecessor(b)
      BY <1>4, <3>1 DEF HasPredecessor
    <3> QED
      BY <1>5, <2>1, <3>2, NoSections
  <2>2. CASE log # <<>>
    <3> DEFINE p == prev + 2
    <3>1. Len(log) \in 1 .. Len(log)
      BY <1>3, <2>2, LengthOf
    <3>2. prev \in Nat /\ p <= e /\ prev = HeadAt(bound, log, Len(log))
      BY <1>2, <1>3, <2>2, <3>1, HeadInside
    <3>3. HasPredecessor(b)
      BY <1>4, <1>5, <3>2 DEF HasPredecessor
    <3>4. linked = [b.data EXCEPT ![p] = e]
      BY <1>4, <3>3
    <3>5. p = HeadAt(bound, log, Len(log)) + 2
      BY <3>2
    <3>6. e <= Len(b.data)
      BY <1>4, <1>5
    <3> HIDE DEF linked
    <3>7. Holds(linked, bound, log, ~ overrun, e)
      <4> HIDE DEF p
      <4>1. Holds([b.data EXCEPT ![HeadAt(bound, log, Len(log)) + 2] = e], bound, log, ~ overrun, e)
        BY <1>3, <1>5, <1>6, <2>2, <3>6, HoldsLinked
      <4> QED
        BY <3>4, <3>5, <4>1
    <3>8. linked \in Seq(Int) /\ Len(linked) = Len(b.data)
      <4>1. p \in 1 .. Len(b.data) /\ e \in Int
        BY <1>5, <3>2, <3>6
      <4> HIDE DEF p, e
      <4> QED
        BY <1>5, <3>4, <4>1, ExceptSeq
    <3> QED
      BY <3>7, <3>8
  <2> QED
    BY <2>1, <2>2
<1> HIDE DEF linked
<1>8. /\ data \in Seq(Int) /\ Len(data) = Len(b.data)
      /\ data[e + 1] = ident /\ data[e + 2] = 0
      /\ \A i \in 1 .. e : data[i] = linked[i]
  <2> DEFINE h == [linked EXCEPT ![e + 1] = ident]
  <2>1. data = [h EXCEPT ![e + 2] = 0]
    BY <1>4
  <2>2. e + 1 \in 1 .. Len(linked) /\ e + 2 \in 1 .. Len(linked) /\ ident \in Int /\ 0 \in Int
    BY <1>3, <1>4, <1>5, <1>7
  <2>3. DOMAIN linked = 1 .. Len(linked)
    BY <1>7, LenProperties
  <2> HIDE DEF e
  <2>4. h \in Seq(Int) /\ Len(h) = Len(linked) /\ DOMAIN h = 1 .. Len(linked)
    <3>1. h \in Seq(Int) /\ Len(h) = Len(linked)
      BY <1>7, <2>2, ExceptSeq
    <3> HIDE DEF h
    <3> QED
      BY <3>1, LenProperties
  <2>5. h[e + 1] = ident /\ \A i \in 1 .. e : h[i] = linked[i]
    BY <1>5, <2>2, <2>3
  <2> HIDE DEF h, data
  <2>6. data \in Seq(Int) /\ Len(data) = Len(h)
    BY <2>1, <2>2, <2>4, ExceptSeq
  <2>7. data[e + 2] = 0 /\ data[e + 1] = h[e + 1] /\ \A i \in 1 .. e : data[i] = h[i]
    BY <1>5, <2>1, <2>2, <2>4
  <2> QED
    BY <1>7, <2>4, <2>5, <2>6, <2>7
<1> HIDE DEF data
<1>9. Holds(data, bound, log, ~ overrun, e)
  BY <1>3, <1>7, <1>8, HoldsFrame
<1>10. Holds(data, bound, log', ~ overrun, 0)
  BY <1>1, <1>3, <1>8, <1>9, HoldsSection
<1>11. log' \in Sections /\ log' # <<>> /\ HeadAt(bound, log', Len(log')) = e /\ EndOf(bound, log') = e + 2
  BY <1>1, <1>3, SectionAdded
<1>12. buf'.data = data /\ buf'.cur = e + 2 /\ buf' \in Buffer
  BY <1>1, <1>4, <1>5, <1>8 DEF Buffer
<1>13. ChunkTypes'
  BY <1>1, <1>8, <1>11, <1>12 DEF ChunkInv, ChunkTypes
<1>14. Holds(buf.data, bound, log, ~ overrun, 0)'
  BY <1>1, <1>10, <1>12
<1>15. ListsLead'
  BY <1>1, <1>3, LeadsSection DEF ChunkInv, ListsLead
<1>16. Phases'
  BY <1>1, <1>2, <1>4, <1>11, <1>12 DEF Phases
<1>17. ReaderPlaced'
  BY <1>1 DEF ChunkInv, ReaderPlaced
<1> QED
  BY <1>13, <1>14, <1>15, <1>16, <1>17 DEF ChunkInv

\* The lists of a chunk that is given one more item, whose entries, if any,
\* are behind those there are.
LEMMA LeadsMore ==
  ASSUME NEW l \in Sections, l # <<>>, NEW f, NEW it \in ItemKinds, NEW list, NEW longer, NEW one, NEW many,
         Leads(list, f, l, one, many),
         longer \in Seq(Int), Len(list) <= Len(longer), \A i \in 1 .. Len(list) : longer[i] = list[i],
         Len(longer) > 0 => longer[Len(longer)] # -1,
         \A i \in Len(list) + 1 .. Len(longer) : longer[i] # -1 =>
           longer[i] = EndOf(f, l) /\ it.k \in (IF Announced(longer, i) THEN many ELSE {one}),
         it.k = one => \E i \in 1 .. Len(longer) : longer[i] = EndOf(f, l) /\ ~ Announced(longer, i),
         it.k \in many /\ it.v # <<>> =>
           \E i \in 1 .. Len(longer) : longer[i] = EndOf(f, l) /\ Announced(longer, i)
  PROVE  Leads(longer, f, NewItem(l, it), one, many)
<1> DEFINE n == Len(l)
           m == NewItem(l, it)
           k == Len(l[n].items)
<1>1. /\ m \in Sections /\ Len(m) = n /\ n \in 1 .. n
      /\ \A s \in 1 .. n : s # n => m[s] = l[s]
      /\ Len(m[n].items) = k + 1 /\ m[n].items[k + 1] = it
      /\ \A j \in 1 .. k : m[n].items[j] = l[n].items[j]
      /\ \A s \in 1 .. n : \A j \in 1 .. Len(l[s].items) + 1 : At(f, m, s, j) = At(f, l, s, j)
      /\ At(f, m, n, k + 1) = EndOf(f, l)
  BY ItemAdded
<1> HIDE DEF m
<1>2. k \in Nat /\ n \in Nat /\ k + 1 \in 1 .. Len(m[n].items)
  <2>1. k \in Nat /\ n \in Nat
    BY <1>1, SectionParts, LengthOf
  <2> HIDE DEF k, n
  <2> QED
    BY <1>1, <2>1
<1>3. ASSUME NEW s \in 1 .. n, NEW j \in 1 .. Len(l[s].items)
      PROVE  /\ j \in 1 .. Len(m[s].items) /\ m[s].items[j] = l[s].items[j]
             /\ At(f, m, s, j) = At(f, l, s, j)
  <2>1. j \in 1 .. Len(l[s].items) + 1
    BY SectionParts
  <2>2. CASE s = n
    BY <1>1, <1>2, <2>1, <2>2
  <2>3. CASE s # n
    BY <1>1, <2>1, <2>3
  <2> QED
    BY <2>2, <2>3
<1>4. ASSUME NEW s \in 1 .. n, NEW j \in 1 .. Len(m[s].items)
      PROVE  j \in 1 .. Len(l[s].items) \/ (s = n /\ j = k + 1)
  BY <1>1, <1>2
<1>5. Len(list) \in Nat /\ Len(longer) \in Nat
  BY LenProperties DEF Leads
<1>6. ASSUME NEW i \in 1 .. Len(list)
      PROVE  i \in 1 .. Len(longer) /\ longer[i] = list[i] /\ (Announced(longer, i) <=> Announced(list, i))
  <2>1. i \in 1 .. Len(longer) /\ (i > 1 => i - 1 \in 1 .. Len(list))
    BY <1>5
  <2> QED
    BY <2>1 DEF Announced
<1>7. ASSUME NEW i \in 1 .. Len(longer), longer[i] # -1
      PROVE  \E s \in 1 .. n : \E j \in 1 .. Len(m[s].items) :
               /\ longer[i] = At(f, m, s, j)
               /\ m[s].items[j].k \in (IF Announced(longer, i) THEN many ELSE {one})
  <2>1. CASE i \in 1 .. Len(list)
    <3>1. PICK s \in 1 .. n : \E j \in 1 .. Len(l[s].items) :
            /\ list[i] = At(f, l, s, j)
            /\ l[s].items[j].k \in (IF Announced(list, i) THEN many ELSE {one})
      BY <1>6, <1>7, <2>1 DEF Leads, n
    <3>2. PICK j \in 1 .. Len(l[s].items) :
            /\ list[i] = At(f, l, s, j)
            /\ l[s].items[j].k \in (IF Announced(list, i) THEN many ELSE {one})
      BY <3>1
    <3>3. j \in 1 .. Len(m[s].items) /\ longer[i] = At(f, m, s, j)
          /\ m[s].items[j].k \in (IF Announced(longer, i) THEN many ELSE {one})
      BY <1>3, <1>6, <2>1, <3>2
    <3> QED
      BY <3>3
  <2>2. CASE i \notin 1 .. Len(list)
    <3>1. i \in Len(list) + 1 .. Len(longer)
      BY <1>5, <2>2
    <3>2. longer[i] = EndOf(f, l) /\ it.k \in (IF Announced(longer, i) THEN many ELSE {one})
      BY <1>7, <3>1
    <3> HIDE DEF n, k
    <3> QED
      BY <1>1, <1>2, <3>2
  <2> QED
    BY <2>1, <2>2
<1>8. ASSUME NEW s \in 1 .. n, NEW j \in 1 .. Len(m[s].items)
      PROVE  /\ m[s].items[j].k = one =>
                  \E i \in 1 .. Len(longer) : longer[i] = At(f, m, s, j) /\ ~ Announced(longer, i)
             /\ m[s].items[j].k \in many /\ m[s].items[j].v # <<>> =>
                  \E i \in 1 .. Len(longer) : longer[i] = At(f, m, s, j) /\ Announced(longer, i)
  <2>1. CASE j \in 1 .. Len(l[s].items)
    <3>1. m[s].items[j] = l[s].items[j] /\ At(f, m, s, j) = At(f, l, s, j)
      BY <1>3, <2>1
    <3>2. /\ l[s].items[j].k = one =>
               \E i \in 1 .. Len(list) : list[i] = At(f, l, s, j) /\ ~ Announced(list, i)
          /\ l[s].items[j].k \in many /\ l[s].items[j].v # <<>> =>
               \E i \in 1 .. Len(list) : list[i] = At(f, l, s, j) /\ Announced(list, i)
      BY <2>1 DEF Leads, n
    <3>3. ASSUME NEW i \in 1 .. Len(list), list[i] = At(f, l, s, j)
          PROVE  i \in 1 .. Len(longer) /\ longer[i] = At(f, m, s, j) /\ (Announced(longer, i) <=> Announced(list, i))
      BY <1>6, <3>1, <3>3
    <3> QED
      BY <3>1, <3>2, <3>3
  <2>2. CASE s = n /\ j = k + 1
    <3>1. m[s].items[j] = it /\ At(f, m, s, j) = EndOf(f, l)
      BY <1>1, <2>2
    <3> HIDE DEF n, k
    <3> QED
      BY <3>1
  <2> QED
    BY <1>4, <2>1, <2>2
<1>9. Leads(longer, f, m, one, many)
  <2> HIDE DEF n, k
  <2> QED
    BY <1>1, <1>7, <1>8 DEF Leads
<1> QED
  BY <1>9 DEF m

LEMMA LeadsItem ==
  ASSUME NEW l \in Sections, l # <<>>, NEW f, NEW it \in ItemKinds, NEW list, NEW entries, NEW one, NEW many,
         Leads(list, f, l, one, many), one \notin many,
         \/ it.k = one /\ entries = <<EndOf(f, l)>>
         \/ it.k \in many /\ entries = <<-1, EndOf(f, l)>>
         \/ it.k # one /\ (it.k \in many => it.v = <<>>) /\ entries = <<>>
  PROVE  Leads(list \o entries, f, NewItem(l, it), one, many)
<1> DEFINE longer == list \o entries
           e == EndOf(f, l)
           c == Len(list)
<1>1. list \in Seq(Int) /\ c \in Nat /\ (c > 0 => list[c] # -1)
  BY LenProperties DEF Leads
<1>2. e \in Nat
  <2>1. Len(l) \in 1 .. Len(l)
    BY LengthOf
  <2> QED
    BY <2>1, HeadInside
<1> HIDE DEF e
<1>3. CASE it.k = one /\ entries = <<e>>
  <2>1. longer \in Seq(Int) /\ Len(longer) = c + 1 /\ longer[c + 1] = e
        /\ \A i \in 1 .. c : longer[i] = list[i]
    BY <1>1, <1>2, <1>3
  <2> HIDE DEF longer, c
  <2>2. ~ Announced(longer, c + 1)
    <3>1. c + 1 > 1 => c \in 1 .. c /\ c + 1 - 1 = c /\ c > 0
      BY <1>1
    <3> QED
      BY <1>1, <2>1, <3>1 DEF Announced
  <2>3. c <= Len(longer) /\ (Len(longer) > 0 => longer[Len(longer)] # -1)
    BY <1>1, <1>2, <2>1
  <2>4. \A i \in c + 1 .. Len(longer) : i = c + 1
    BY <1>1, <2>1
  <2>5. c + 1 \in 1 .. Len(longer)
    BY <1>1, <2>1
  <2>6. \A i \in c + 1 .. Len(longer) : longer[i] # -1 =>
          longer[i] = e /\ it.k \in (IF Announced(longer, i) THEN many ELSE {one})
    BY <1>3, <2>1, <2>2, <2>4
  <2>7. \E i \in 1 .. Len(longer) : longer[i] = e /\ ~ Announced(longer, i)
    BY <2>1, <2>2, <2>5
  <2>8. it.k \notin many
    BY <1>3
  <2> QED
    BY <2>1, <2>3, <2>6, <2>7, <2>8, LeadsMore DEF longer, e, c
<1>4. CASE it.k \in many /\ entries = <<-1, e>>
  <2>1. longer \in Seq(Int) /\ Len(longer) = c + 2 /\ longer[c + 1] = -1 /\ longer[c + 2] = e
        /\ \A i \in 1 .. c : longer[i] = list[i]
    BY <1>1, <1>2, <1>4
  <2> HIDE DEF longer, c
  <2>2. Announced(longer, c + 2)
    <3> DEFINE i == c + 2
    <3>1. i > 1 /\ i - 1 = c + 1
      BY <1>1
    <3> HIDE DEF i
    <3>2. Announced(longer, i)
      BY <2>1, <3>1 DEF Announced
    <3> QED
      BY <3>2 DEF i
  <2>3. c <= Len(longer) /\ (Len(longer) > 0 => longer[Len(longer)] # -1)
    BY <1>1, <1>2, <2>1
  <2>4. \A i \in c + 1 .. Len(longer) : i = c + 1 \/ i = c + 2
    BY <1>1, <2>1
  <2>5. c + 2 \in 1 .. Len(longer)
    BY <1>1, <2>1
  <2>6. \A i \in c + 1 .. Len(longer) : longer[i] # -1 =>
          longer[i] = e /\ it.k \in (IF Announced(longer, i) THEN many ELSE {one})
    BY <1>4, <2>1, <2>2, <2>4
  <2>7. \E i \in 1 .. Len(longer) : longer[i] = e /\ Announced(longer, i)
    BY <2>1, <2>2, <2>5
  <2>8. it.k # one
    BY <1>4
  <2> QED
    BY <2>1, <2>3, <2>6, <2>7, <2>8, LeadsMore DEF longer, e, c
<1>5. CASE it.k # one /\ (it.k \in many => it.v = <<>>) /\ entries = <<>>
  <2>1. longer = list
    BY <1>1, <1>5, ConcatEmptySeq
  <2>2. c <= c /\ c + 1 .. c = {}
    BY <1>1
  <2> HIDE DEF longer
  <2> QED
    BY <1>1, <1>5, <2>1, <2>2, LeadsMore DEF longer, c
<1> QED
  BY <1>3, <1>4, <1>5 DEF e

LEMMA WriteItemKeeps ==
  ASSUME ChunkInv, NEW it \in Item, WriteItem(it)
  PROVE  ChunkInv'
<1> DEFINE ws == ItemWords(bound, it)
           e == EndOf(bound, log)
<1>1. /\ status = "WRITE" /\ log # <<>> /\ log' = NewItem(log, it)
      /\ objectList' = objectList \o ObjectEntries(it) /\ managerList' = managerList \o ManagerEntries(it)
      /\ UNCHANGED <<status, prev, dwSize, bound, wire, loading, place, last>>
  BY DEF WriteItem, NewItem
<1>2. /\ buf \in Buffer /\ buf.cur = e /\ ~ loading /\ wire = <<>>
      /\ prev = HeadAt(bound, log, Len(log))
  BY <1>1 DEF ChunkInv, Phases
<1>3. log \in Sections /\ it \in ItemKinds /\ bound \in BOOLEAN /\ overrun \in BOOLEAN
  BY ChunkAssumption DEF ChunkInv, ChunkTypes
<1>4. e \in Nat /\ ws \in Seq(Int) /\ Len(ws) \in Nat
  BY <1>2, <1>3, BufferParts, ItemWordsType
<1>5. /\ Reached(buf, buf', Len(ws)) /\ overrun' \in BOOLEAN /\ (overrun => overrun')
      /\ (~ overrun' \/ it.k # "vtx" => Extended(buf, buf', ws))
  <2>1. CASE it.k = "vtx"
    <3>1. /\ buf' = WithVertices(buf, it).after
          /\ overrun' = (overrun \/ WithVertices(buf, it).beyond)
      BY <2>1 DEF WriteItem
    <3>2. /\ Reached(buf, WithVertices(buf, it).after, Len(ws))
          /\ ~ WithVertices(buf, it).beyond => Extended(buf, WithVertices(buf, it).after, ws)
      BY <1>2, <1>3, <2>1, VerticesWritten
    <3> QED
      BY <1>3, <2>1, <3>1, <3>2
  <2>2. CASE it.k # "vtx"
    <3>1. buf' = WriteAll(buf, Pieces(bound, it)) /\ overrun' = overrun
      BY <2>2 DEF WriteItem
    <3>2. Extended(buf, buf', ws)
      BY <1>2, <1>3, <3>1, ContentsAre, WriteAllExtends DEF ItemWords
    <3> QED
      BY <1>3, <3>1, <3>2 DEF Extended, Reached
  <2> QED
    BY <2>1, <2>2
<1>6. /\ log' \in Sections /\ log' # <<>> /\ Len(log') = Len(log) /\ EndOf(bound, log') = e + Len(ws)
      /\ HeadAt(bound, log', Len(log')) = HeadAt(bound, log, Len(log))
  <2>1. /\ log' \in Sections /\ log' # <<>> /\ Len(log') = Len(log) /\ EndOf(bound, log') = e + Len(ws)
        /\ Len(log) \in 1 .. Len(log)
        /\ \A s \in 1 .. Len(log) : \A j \in 1 .. Len(log[s].items) + 1 :
             At(bound, log', s, j) = At(bound, log, s, j)
    BY <1>1, <1>3, ItemAdded
  <2>2. 1 \in 1 .. Len(log[Len(log)].items) + 1
    BY <1>3, <2>1, SectionParts
  <2> QED
    BY <2>1, <2>2 DEF HeadAt
<1>7. buf' \in Buffer /\ buf'.cur = e + Len(ws) /\ \A i \in 1 .. e : buf'.data[i] = buf.data[i]
  BY <1>2, <1>5 DEF Reached
<1>8. Holds(buf'.data, bound, log', ~ overrun', 0)
  <2>1. Holds(buf'.data, bound, log, ~ overrun, 0)
    BY <1>3, <1>7, HoldsFrame DEF ChunkInv
  <2>2. ~ overrun' => ~ overrun
    BY <1>3, <1>5
  <2>3. ~ overrun' \/ it.k # "vtx" => \A i \in 1 .. Len(ws) : buf'.data[e + i] = ws[i]
    BY <1>2, <1>5 DEF Extended
  <2> HIDE DEF ws, e
  <2> QED
    BY <1>1, <1>3, <2>1, <2>2, <2>3, HoldsItem DEF ws, e
<1>9. ChunkTypes'
  <2>1. buf'.data \in Seq(Int) /\ buf' = [data |-> buf'.data, cur |-> buf'.cur]
    BY <1>7, BufferParts
  <2>2. ObjectEntries(it) \in Seq(Int) /\ ManagerEntries(it) \in Seq(Int)
    <3>1. buf.cur \in Int
      BY <1>2, <1>4
    <3>2. <<buf.cur>> \in Seq(Int) /\ <<-1, buf.cur>> \in Seq(Int) /\ <<>> \in Seq(Int)
      BY <3>1
    <3> QED
      BY <3>2 DEF ObjectEntries, ManagerEntries
  <2>3. objectList' \in Seq(Int) /\ managerList' \in Seq(Int)
    BY <1>1, <2>2, ConcatProperties DEF ChunkInv, ChunkTypes
  <2> QED
    BY <1>1, <1>5, <1>6, <2>1, <2>3 DEF ChunkInv, ChunkTypes
<1>10. ListsLead'
  <2>1. Leads(managerList', bound, log', "man", {"mans"})
    <3>1. Leads(managerList, bound, log, "man", {"mans"})
      BY DEF ChunkInv, ListsLead
    <3>2. \/ it.k = "man" /\ ManagerEntries(it) = <<EndOf(bound, log)>>
          \/ it.k \in {"mans"} /\ ManagerEntries(it) = <<-1, EndOf(bound, log)>>
          \/ it.k # "man" /\ (it.k \in {"mans"} => it.v = <<>>) /\ ManagerEntries(it) = <<>>
      BY <1>2 DEF ManagerEntries
    <3>3. "man" \notin {"mans"}
      OBVIOUS
    <3> QED
      BY <1>1, <1>3, <3>1, <3>2, <3>3, LeadsItem
  <2>2. CASE bound
    <3>1. ObjectEntries(it) = <<>> /\ objectList = <<>>
      BY <2>2 DEF ObjectEntries, ChunkInv, ListsLead
    <3>2. objectList' = <<>>
      BY <1>1, <3>1
    <3> QED
      BY <1>1, <2>1, <2>2, <3>2 DEF ListsLead
  <2>3. CASE ~ bound
    <3>1. Leads(objectList, bound, log, "id", {"ids", "idseq"})
      BY <2>3 DEF ChunkInv, ListsLead
    <3>2. \/ it.k = "id" /\ ObjectEntries(it) = <<EndOf(bound, log)>>
          \/ it.k \in {"ids", "idseq"} /\ ObjectEntries(it) = <<-1, EndOf(bound, log)>>
          \/ it.k # "id" /\ (it.k \in {"ids", "idseq"} => it.v = <<>>) /\ ObjectEntries(it) = <<>>
      BY <1>2, <2>3 DEF ObjectEntries
    <3>3. "id" \notin {"ids", "idseq"}
      OBVIOUS
    <3>4. Leads(objectList', bound, log', "id", {"ids", "idseq"})
      BY <1>1, <1>3, <3>1, <3>2, <3>3, LeadsItem
    <3> QED
      BY <1>1, <2>1, <2>3, <3>4 DEF ListsLead
  <2> QED
    BY <1>3, <2>2, <2>3
<1>11. Phases'
  BY <1>1, <1>2, <1>6, <1>7 DEF Phases
<1>12. ReaderPlaced'
  BY <1>1 DEF ChunkInv, ReaderPlaced
<1>13. Holds(buf.data, bound, log, ~ overrun, 0)'
  BY <1>1, <1>8
<1> QED
  BY <1>9, <1>10, <1>11, <1>12, <1>13 DEF ChunkInv

LEMMA StopWriteKeeps ==
  ASSUME ChunkInv, StopWrite
  PROVE  ChunkInv'
<1> DEFINE e == EndOf(bound, log)
           r == ResizeBuffer(buf, e)
<1>1. /\ status = "WRITE" /\ status' = "IDLE" /\ dwSize' = e
      /\ buf \in Buffer /\ buf.cur = e /\ ~ loading /\ wire = <<>>
      /\ buf' = [r EXCEPT !.cur = 0]
      /\ UNCHANGED <<objectList, managerList, bound, wire, loading, log, place, last, overrun>>
  BY DEF StopWrite, WrittenSize, clientVars, ChunkInv, Phases
<1>2. e \in Nat /\ log \in Sections
  BY <1>1, BufferParts DEF ChunkInv, ChunkTypes
<1> HIDE DEF e
<1>3. /\ r \in Buffer /\ Len(r.data) = e /\ \A i \in 1 .. e : i <= Len(buf.data) => r.data[i] = buf.data[i]
  <2>1. buf.cur <= e
    BY <1>1, <1>2
  <2> QED
    BY <1>1, <1>2, <2>1, Resized
<1> HIDE DEF r
<1>4. buf' = [data |-> r.data, cur |-> 0] /\ r.data \in Seq(Int)
  BY <1>1, <1>3, BufferExcept, BufferParts
<1>5. \A i \in 1 .. e : r.data[i] = buf.data[i]
  <2>1. e <= Len(buf.data) /\ Len(buf.data) \in Nat
    BY <1>1, BufferParts
  <2> QED
    BY <1>2, <1>3, <2>1
<1>6. Holds(r.data, bound, log, ~ overrun, 0)
  BY <1>2, <1>5, HoldsFrame DEF ChunkInv, e
<1>7. ChunkTypes'
  BY <1>1, <1>4 DEF ChunkInv, ChunkTypes
<1>8. Holds(buf.data, bound, log, ~ overrun, 0)'
  BY <1>1, <1>4, <1>6
<1>9. ListsLead'
  BY <1>1 DEF ChunkInv, ListsLead
<1>10. Phases'
  <2>1. Len(buf'.data) = e
    BY <1>3, <1>4
  <2> QED
    BY <1>1, <2>1 DEF Phases, e
<1>11. ReaderPlaced'
  BY <1>1 DEF ChunkInv, ReaderPlaced
<1> QED
  BY <1>7, <1>8, <1>9, <1>10, <1>11 DEF ChunkInv

-----------------------------------------------------------------------------
(* Through the file.                                                        *)

LEMMA Concatenated ==
  ASSUME NEW a \in Seq(Int), NEW b \in Seq(Int)
  PROVE  /\ a \o b \in Seq(Int) /\ Len(a \o b) = Len(a) + Len(b)
         /\ Len(a) \in Nat /\ Len(b) \in Nat
         /\ \A i \in 1 .. Len(a) : (a \o b)[i] = a[i]
         /\ \A i \in 1 .. Len(b) : (a \o b)[Len(a) + i] = b[i]
BY LenProperties, ConcatProperties

LEMMA Slice ==
  ASSUME NEW a \in Seq(Int), NEW b \in Seq(Int), NEW c \in Seq(Int)
  PROVE  SubSeq((a \o b) \o c, Len(a) + 1, Len(a) + Len(b)) = b
<1> DEFINE w == (a \o b) \o c
           n == Len(a)
           k == Len(b)
           s == SubSeq(w, n + 1, n + k)
<1>1. n \in Nat /\ k \in Nat /\ Len(c) \in Nat
  BY LenProperties
<1>2. /\ a \o b \in Seq(Int) /\ Len(a \o b) = n + k
      /\ \A i \in 1 .. k : (a \o b)[n + i] = b[i]
  BY ConcatProperties
<1>3. w \in Seq(Int) /\ Len(w) = n + k + Len(c) /\ \A i \in 1 .. n + k : w[i] = (a \o b)[i]
  <2> DEFINE h == a \o b
  <2>1. h \in Seq(Int) /\ Len(h) = n + k
    BY <1>2
  <2> HIDE DEF h, n, k
  <2>2. h \o c \in Seq(Int) /\ Len(h \o c) = Len(h) + Len(c) /\ \A i \in 1 .. Len(h) : (h \o c)[i] = h[i]
    BY <2>1, Concatenated
  <2> QED
    BY <2>1, <2>2 DEF h
<1> HIDE DEF w, n, k
<1>4. ASSUME NEW i \in 1 .. k
      PROVE  w[n + i] = b[i] /\ n + i \in 1 .. n + k
  <2>1. n + i \in 1 .. n + k
    BY <1>1
  <2>2. (a \o b)[n + i] = b[i]
    BY <1>2 DEF n, k
  <2> HIDE DEF s
  <2> QED
    BY <1>3, <2>1, <2>2
<1>5. s \in Seq(Int) /\ Len(s) = k /\ \A i \in 1 .. k : s[i] = w[n + i]
  <2> DEFINE x == n + 1
             y == n + k
  <2>1. /\ x \in Int /\ y \in Int /\ \A i \in x .. y : i \in 1 .. Len(w)
        /\ (IF x <= y THEN y - x + 1 ELSE 0) = k /\ y - x + 1 = k
        /\ \A i \in 1 .. k : x + i - 1 = n + i
    BY <1>1, <1>3
  <2> HIDE DEF x, y
  <2>2. \A i \in x .. y : w[i] \in Int
    BY <1>3, <2>1, LenProperties
  <2>3. /\ SubSeq(w, x, y) \in Seq(Int) /\ Len(SubSeq(w, x, y)) = IF x <= y THEN y - x + 1 ELSE 0
        /\ \A i \in 1 .. y - x + 1 : SubSeq(w, x, y)[i] = w[x + i - 1]
    BY ONLY <2>1, <2>2, SubSeqProperties
  <2> QED
    BY <2>1, <2>3 DEF x, y
<1> HIDE DEF s
<1>6. s = b
  BY <1>4, <1>5, SeqEqual DEF k
<1> QED
  BY <1>6 DEF s, w, n, k

LEMMA CountedType ==
  ASSUME NEW list \in Seq(Int)
  PROVE  /\ Counted(list) \in Seq(Int) /\ Len(list) \in Nat
         /\ list = <<>> => Counted(list) = <<>>
         /\ list # <<>> => Counted(list) = <<Len(list)>> \o list /\ Len(Counted(list)) = Len(list) + 1
<1>1. Len(list) \in Nat
  BY LenProperties
<1> DEFINE n == Len(list)
<1> HIDE DEF n
<1>2. n \in Nat
  BY <1>1 DEF n
<1>3. <<n>> \o list \in Seq(Int) /\ Len(<<n>> \o list) = 1 + Len(list)
  BY <1>2
<1> QED
  BY <1>1, <1>3 DEF Counted, n

\* A list behind its size is read back.
LEMMA ListRead ==
  ASSUME NEW a \in Seq(Int), NEW list \in Seq(Int), NEW c \in Seq(Int), list # <<>>
  PROVE  LET w == (a \o Counted(list)) \o c
         IN /\ w[Len(a) + 1] = Len(list)
            /\ SubSeq(w, Len(a) + 1 + 1, Len(a) + 1 + w[Len(a) + 1]) = list
<1> DEFINE w == (a \o Counted(list)) \o c
           n == Len(list)
           h == a \o <<n>>
<1>1. n \in Nat /\ Len(a) \in Nat /\ Counted(list) = <<n>> \o list
  BY CountedType, LenProperties
<1> HIDE DEF n
<1>2. <<n>> \in Seq(Int) /\ Len(<<n>>) = 1
  BY <1>1
<1>3. h \in Seq(Int) /\ Len(h) = Len(a) + 1 /\ h[Len(a) + 1] = n
  BY <1>1
<1>4. a \o (<<n>> \o list) = h \o list
  <2> DEFINE s == <<n>>
  <2>1. s \in Seq(Int)
    BY <1>2
  <2> HIDE DEF s
  <2>2. a \o (s \o list) = (a \o s) \o list
    BY ONLY <2>1, a \in Seq(Int), list \in Seq(Int), ConcatAssociative
  <2> QED
    BY <2>2 DEF s
<1>5. w = (h \o list) \o c
  BY <1>1, <1>4
<1> HIDE DEF h, w
<1>6. SubSeq(w, Len(h) + 1, Len(h) + Len(list)) = list
  BY <1>3, <1>5, Slice
<1>7. w[Len(a) + 1] = n
  <2>1. h \o list \in Seq(Int) /\ Len(h \o list) = Len(h) + Len(list) /\ \A i \in 1 .. Len(h) : (h \o list)[i] = h[i]
    BY <1>3, Concatenated
  <2> DEFINE g == h \o list
  <2>2. \A i \in 1 .. Len(g) : (g \o c)[i] = g[i]
    <3>1. g \in Seq(Int)
      BY <2>1
    <3> HIDE DEF g
    <3> QED
      BY <3>1, ConcatProperties
  <2>3. Len(a) + 1 \in 1 .. Len(h) /\ Len(a) + 1 \in 1 .. Len(g)
    <3>1. Len(list) \in Nat
      BY LenProperties
    <3> QED
      BY <1>1, <1>3, <2>1, <3>1
  <2> QED
    BY <1>3, <1>5, <2>1, <2>2, <2>3
<1>8. /\ w[Len(a) + 1] = Len(list)
      /\ SubSeq(w, Len(a) + 1 + 1, Len(a) + 1 + w[Len(a) + 1]) = list
  BY <1>3, <1>6, <1>7 DEF n
<1> QED
  BY <1>8 DEF w

LEMMA ConvertToKeeps ==
  ASSUME ChunkInv, ConvertToBuffer
  PROVE  ChunkInv'
<1>1. /\ status = "IDLE" /\ ~ loading
      /\ wire' = <<[ids |-> objectList # <<>>, man |-> managerList # <<>>, file |-> bound],
                   <<dwSize>> \o buf.data \o Counted(objectList) \o Counted(managerList)>>
      /\ UNCHANGED <<status, buf, prev, dwSize, objectList, managerList, bound>>
      /\ UNCHANGED <<loading, log, place, last, overrun>>
  BY DEF ConvertToBuffer, chunkVars, clientVars
<1>2. Carried'
  <2>1. Counted(objectList)' = Counted(objectList) /\ Counted(managerList)' = Counted(managerList)
    BY <1>1
  <2> QED
    BY <1>1, <2>1 DEF Carried
<1>3. wire' # <<>>
  BY <1>1
<1>4. ChunkTypes' /\ ListsLead' /\ ReaderPlaced'
  BY <1>1 DEF ChunkInv, ChunkTypes, ListsLead, ReaderPlaced
<1>5. Holds(buf.data, bound, log, ~ overrun, 0)'
  BY <1>1 DEF ChunkInv
<1>6. Phases'
  BY <1>1, <1>2, <1>3 DEF ChunkInv, Phases
<1> QED
  BY <1>4, <1>5, <1>6 DEF ChunkInv

\* What is read from the words a chunk was turned into.
WordsOf(d, objects, managers) == <<Len(d)>> \o d \o Counted(objects) \o Counted(managers)

LEMMA WordsBack ==
  ASSUME NEW d \in Seq(Int), NEW objects \in Seq(Int), NEW managers \in Seq(Int), NEW options,
         options.ids <=> objects # <<>>, options.man <=> managers # <<>>,
         NEW w, w = WordsOf(d, objects, managers)
  PROVE  /\ w[1] = Len(d) /\ SubSeq(w, 2, w[1] + 1) = d
         /\ ReadLists(options, w, w[1] + 2) = <<objects, managers>>
<1> DEFINE o == Counted(objects)
           m == Counted(managers)
           n == Len(d)
           x == <<n>>
           h == x \o d
           g == h \o o
<1>1. n \in Nat /\ x \in Seq(Int) /\ Len(x) = 1 /\ x[1] = n
  <2>1. n \in Nat
    BY LenProperties
  <2> HIDE DEF n
  <2> QED
    BY <2>1
<1>2. w = g \o m
  BY DEF WordsOf
<1>3. /\ o \in Seq(Int) /\ m \in Seq(Int) /\ Len(objects) \in Nat
      /\ objects = <<>> => Len(o) = 0
      /\ objects # <<>> => Len(o) = Len(objects) + 1
  <2>1. o \in Seq(Int) /\ m \in Seq(Int) /\ Len(objects) \in Nat
    BY CountedType
  <2>2. ASSUME objects = <<>>
        PROVE  Len(o) = 0
    <3>1. o = <<>>
      BY <2>2, CountedType
    <3> QED
      BY <3>1, EmptySeq
  <2>3. ASSUME objects # <<>>
        PROVE  Len(o) = Len(objects) + 1
    BY <2>3, CountedType
  <2> QED
    BY <2>1, <2>2, <2>3
<1> HIDE DEF o, m, x, n
<1>4. h \in Seq(Int) /\ Len(h) = 1 + n /\ h[1] = n
  <2>1. /\ x \o d \in Seq(Int) /\ Len(x \o d) = Len(x) + Len(d)
        /\ \A i \in 1 .. Len(x) : (x \o d)[i] = x[i]
    BY <1>1, Concatenated
  <2>2. 1 \in 1 .. Len(x)
    BY <1>1
  <2>3. Len(d) = n
    BY DEF n
  <2> QED
    BY <1>1, <2>1, <2>2, <2>3
<1> HIDE DEF h
<1>5. g \in Seq(Int) /\ Len(g) = 1 + n + Len(o) /\ Len(o) \in Nat /\ g[1] = n
  <2>1. /\ h \o o \in Seq(Int) /\ Len(h \o o) = Len(h) + Len(o) /\ Len(o) \in Nat
        /\ \A i \in 1 .. Len(h) : (h \o o)[i] = h[i]
    BY <1>3, <1>4, Concatenated
  <2>2. 1 \in 1 .. Len(h)
    BY <1>1, <1>4
  <2> QED
    BY <1>4, <2>1, <2>2
<1>6. SubSeq(w, 2, n + 1) = d
  <2> DEFINE r == o \o m
  <2>1. r \in Seq(Int)
    BY <1>3, Concatenated
  <2>2. w = h \o r
    <3> HIDE DEF r, g
    <3>1. h \in Seq(Int) /\ o \in Seq(Int) /\ m \in Seq(Int)
      BY <1>3, <1>4
    <3>2. (h \o o) \o m = h \o (o \o m)
      BY ONLY <3>1, ConcatAssociative
    <3> QED
      BY <1>2, <3>2 DEF g, r
  <2> HIDE DEF r
  <2>3. w = (x \o d) \o r
    BY <2>2 DEF h
  <2>4. SubSeq(w, Len(x) + 1, Len(x) + Len(d)) = d
    <3>1. SubSeq((x \o d) \o r, Len(x) + 1, Len(x) + Len(d)) = d
      BY <1>1, <2>1, Slice
    <3> QED
      BY <2>3, <3>1
  <2>5. Len(x) + 1 = 2 /\ Len(x) + Len(d) = n + 1
    BY <1>1 DEF n
  <2> QED
    BY <2>4, <2>5
<1> HIDE DEF g
<1>7. w \in Seq(Int) /\ w[1] = n
  <2>1. g \o m \in Seq(Int) /\ \A i \in 1 .. Len(g) : (g \o m)[i] = g[i]
    BY <1>3, <1>5, Concatenated
  <2>2. 1 \in 1 .. Len(g)
    BY <1>1, <1>5
  <2> QED
    BY <1>2, <1>5, <2>1, <2>2
<1> DEFINE p == w[1] + 2
           List(q) == SubSeq(w, q + 1, q + w[q])
           first == IF options.ids THEN List(p) ELSE <<>>
           behind == IF options.ids THEN p + 1 + Len(first) ELSE p
           second == IF options.man THEN List(behind) ELSE <<>>
<1>8. p = Len(h) + 1 /\ p \in Nat /\ p = n + 2
  BY <1>1, <1>4, <1>7
<1>9. first = objects
  <2>1. CASE objects = <<>>
    BY <2>1
  <2>2. CASE objects # <<>>
    <3>1. w = (h \o Counted(objects)) \o m
      BY <1>2 DEF g, o
    <3>2. SubSeq(w, Len(h) + 1 + 1, Len(h) + 1 + w[Len(h) + 1]) = objects
      <4> DEFINE v == (h \o Counted(objects)) \o m
      <4>1. m \in Seq(Int) /\ h \in Seq(Int)
        BY <1>3, <1>4
      <4>2. SubSeq(v, Len(h) + 1 + 1, Len(h) + 1 + v[Len(h) + 1]) = objects
        BY <2>2, <4>1, ListRead
      <4> QED
        BY <3>1, <4>2
    <3>3. List(p) = objects
      BY <1>8, <3>2
    <3> QED
      BY <2>2, <3>3
  <2> QED
    BY <2>1, <2>2
<1>10. behind = Len(g) + 1
  <2> HIDE DEF p
  <2>1. CASE objects = <<>>
    <3>1. behind = p
      BY <2>1
    <3> HIDE DEF behind
    <3> QED
      BY <1>1, <1>3, <1>5, <1>8, <2>1, <3>1
  <2>2. CASE objects # <<>>
    <3>1. behind = p + 1 + Len(objects)
      BY <1>9, <2>2
    <3>2. Len(o) = Len(objects) + 1 /\ Len(objects) \in Nat
      BY <1>3, <2>2
    <3> HIDE DEF behind
    <3> QED
      BY ONLY <1>1, <1>5, <1>8, <3>1, <3>2
  <2> QED
    BY <2>1, <2>2
<1>11. ReadLists(options, w, w[1] + 2) = <<first, second>>
  BY DEF ReadLists
<1> HIDE DEF behind, first, p
<1>12. second = managers
  <2>1. CASE managers = <<>>
    BY <2>1
  <2>2. CASE managers # <<>>
    <3>1. <<>> \in Seq(Int)
      OBVIOUS
    <3>2. w = (g \o Counted(managers)) \o <<>>
      <4>1. w \o <<>> = w
        BY <1>7, ConcatEmptySeq
      <4> QED
        BY <1>2, <4>1 DEF m
    <3>3. SubSeq(w, Len(g) + 1 + 1, Len(g) + 1 + w[Len(g) + 1]) = managers
      <4> DEFINE v == (g \o Counted(managers)) \o <<>>
      <4>1. g \in Seq(Int)
        BY <1>5
      <4>2. SubSeq(v, Len(g) + 1 + 1, Len(g) + 1 + v[Len(g) + 1]) = managers
        BY <2>2, <3>1, <4>1, ListRead
      <4> QED
        BY <3>2, <4>2
    <3>4. List(behind) = managers
      BY <1>10, <3>3
    <3> QED
      BY <2>2, <3>4
  <2> QED
    BY <2>1, <2>2
<1> HIDE DEF second
<1>13. w[1] = Len(d) /\ SubSeq(w, 2, w[1] + 1) = d
  BY <1>6, <1>7 DEF n
<1> QED
  BY <1>9, <1>11, <1>12, <1>13

\* The chunk of the loading context is the one that was saved.
LEMMA ChunkCarried ==
  ASSUME ChunkInv, wire # <<>>, ~ loading
  PROVE  LET options == wire[1]
             words == wire[2]
             lists == ReadLists(options, words, words[1] + 2)
         IN /\ words[1] = dwSize /\ SubSeq(words, 2, words[1] + 1) = buf.data
            /\ lists[1] = objectList /\ lists[2] = managerList /\ options.file = bound
<1> DEFINE options == wire[1]
           w == wire[2]
           data == buf.data
<1>1. Carried /\ status = "IDLE"
  BY DEF ChunkInv, Phases
<1>2. Len(data) = dwSize
  BY <1>1 DEF ChunkInv, Phases
<1>3. data \in Seq(Int) /\ objectList \in Seq(Int) /\ managerList \in Seq(Int)
  BY DEF ChunkInv, ChunkTypes
<1>4. (options.ids <=> objectList # <<>>) /\ (options.man <=> managerList # <<>>) /\ options.file = bound
  <2>1. options = [ids |-> objectList # <<>>, man |-> managerList # <<>>, file |-> bound]
    BY <1>1 DEF Carried
  <2> HIDE DEF options
  <2> QED
    BY <2>1, Zenon
<1>5. w = WordsOf(data, objectList, managerList)
  BY <1>1, <1>2 DEF Carried, WordsOf
<1> HIDE DEF options, w, data
<1>6. /\ w[1] = Len(data) /\ SubSeq(w, 2, w[1] + 1) = data
      /\ ReadLists(options, w, w[1] + 2) = <<objectList, managerList>>
  BY ONLY <1>3, <1>4, <1>5, WordsBack
<1>7. /\ ReadLists(options, w, w[1] + 2)[1] = objectList
      /\ ReadLists(options, w, w[1] + 2)[2] = managerList
  BY <1>6
<1> QED
  BY <1>2, <1>4, <1>6, <1>7 DEF options, w, data

LEMMA ConvertFromKeeps ==
  ASSUME ChunkInv, ConvertFromBuffer
  PROVE  ChunkInv' /\ bound' = bound /\ log' = log /\ last' = last /\ overrun' = overrun
<1>1. wire # <<>> /\ ~ loading
  BY DEF ConvertFromBuffer
<1>2. /\ dwSize' = dwSize /\ buf' = [data |-> buf.data, cur |-> 0]
      /\ objectList' = objectList /\ managerList' = managerList /\ bound' = bound
  BY <1>1, ChunkCarried DEF ConvertFromBuffer
<1>3. /\ status' = "IDLE" /\ loading' = TRUE
      /\ UNCHANGED <<wire, log, place, last, overrun>>
  BY DEF ConvertFromBuffer, clientVars
<1>4. status = "IDLE"
  BY <1>1 DEF ChunkInv, Phases
<1>5. ChunkTypes' /\ ListsLead'
  BY <1>2, <1>3 DEF ChunkInv, ChunkTypes, ListsLead
<1>6. Holds(buf.data, bound, log, ~ overrun, 0)'
  BY <1>2, <1>3 DEF ChunkInv
<1>7. Phases'
  BY <1>1, <1>2, <1>3, <1>4 DEF ChunkInv, Phases
<1>8. ReaderPlaced'
  BY <1>2, <1>3, <1>4 DEF ChunkInv, ReaderPlaced
<1> QED
  BY <1>2, <1>3, <1>5, <1>6, <1>7, <1>8 DEF ChunkInv

LEMMA StartReadKeeps ==
  ASSUME ChunkInv, StartRead
  PROVE  ChunkInv'
<1>1. /\ status = "IDLE" /\ loading /\ status' = "READ" /\ buf' = [buf EXCEPT !.cur = 0]
      /\ UNCHANGED <<dwSize, objectList, managerList, bound, wire, loading, log, place, last, overrun>>
  BY DEF StartRead, clientVars
<1>2. buf' = [data |-> buf.data, cur |-> 0]
  BY <1>1 DEF ChunkInv, ChunkTypes
<1>3. ChunkTypes' /\ ListsLead'
  BY <1>1, <1>2 DEF ChunkInv, ChunkTypes, ListsLead
<1>4. Holds(buf.data, bound, log, ~ overrun, 0)'
  BY <1>1, <1>2 DEF ChunkInv
<1>5. Phases' /\ ReaderPlaced'
  BY <1>1, <1>2 DEF ChunkInv, Phases, ReaderPlaced
<1> QED
  BY <1>3, <1>4, <1>5 DEF ChunkInv

LEMMA StopReadKeeps ==
  ASSUME ChunkInv, StopRead
  PROVE  ChunkInv'
<1>1. /\ status = "READ" /\ status' = "IDLE" /\ buf' = [buf EXCEPT !.cur = 0] /\ place' = <<0, 0>>
      /\ UNCHANGED <<dwSize, objectList, managerList, bound, wire, loading, log, last, overrun>>
  BY DEF StopRead
<1>2. buf' = [data |-> buf.data, cur |-> 0]
  BY <1>1 DEF ChunkInv, ChunkTypes
<1>3. ChunkTypes' /\ ListsLead'
  BY <1>1, <1>2 DEF ChunkInv, ChunkTypes, ListsLead
<1>4. Holds(buf.data, bound, log, ~ overrun, 0)'
  BY <1>1, <1>2 DEF ChunkInv
<1>5. Phases' /\ ReaderPlaced'
  BY <1>1, <1>2 DEF ChunkInv, Phases, ReaderPlaced
<1> QED
  BY <1>3, <1>4, <1>5 DEF ChunkInv

-----------------------------------------------------------------------------
(* The search for a section.                                                *)

\* The section the search has come to after n links.
Reaches(l, n) == IF n < Len(l) THEN n + 1 ELSE Len(l)

LEMMA HeadNext ==
  ASSUME NEW l \in Sections, NEW f, NEW s \in 1 .. Len(l), s + 1 \in 1 .. Len(l)
  PROVE  HeadAt(f, l, s) + 2 <= HeadAt(f, l, s + 1) /\ HeadAt(f, l, s) \in Nat /\ HeadAt(f, l, s + 1) \in Nat
<1>1. HeadAt(f, l, s + 1) = At(f, l, s, Len(l[s].items) + 1)
  BY AtSection
<1>2. HeadAt(f, l, s) \in Nat /\ HeadAt(f, l, s) + 2 <= At(f, l, s, Len(l[s].items) + 1)
  BY HeadInside
<1> DEFINE t == s + 1
<1>3. t \in 1 .. Len(l)
  OBVIOUS
<1> HIDE DEF t
<1>4. HeadAt(f, l, t) \in Nat
  BY <1>3, HeadInside
<1> QED
  BY <1>1, <1>2, <1>4 DEF t

LEMMA SectionsFit ==
  ASSUME NEW l \in Sections, l # <<>>, NEW f
  PROVE  Len(l) + 1 <= EndOf(f, l) /\ EndOf(f, l) \in Nat
<1> DEFINE n == Len(l)
           M == {m \in Nat : m + 1 <= n => m <= HeadAt(f, l, m + 1)}
<1>1. n \in Nat /\ n \in 1 .. n
  BY LengthOf
<1>2. 0 \in M
  <2>1. 0 + 1 = 1
    OBVIOUS
  <2>2. HeadAt(f, l, 0 + 1) = 0
    BY <2>1, AtFirst
  <2> QED
    BY <2>2
<1>3. ASSUME NEW m \in M
      PROVE  m + 1 \in M
  <2> SUFFICES ASSUME (m + 1) + 1 <= n
               PROVE  m + 1 <= HeadAt(f, l, (m + 1) + 1)
    OBVIOUS
  <2> DEFINE s == m + 1
  <2>1. m \in Nat /\ s \in 1 .. n /\ s + 1 \in 1 .. n
    BY <1>1
  <2>2. m <= HeadAt(f, l, s)
    BY <1>1, <2>1
  <2> HIDE DEF s, M
  <2>3. HeadAt(f, l, s) + 2 <= HeadAt(f, l, s + 1) /\ HeadAt(f, l, s) \in Nat /\ HeadAt(f, l, s + 1) \in Nat
    BY <2>1, HeadNext
  <2>4. m + 1 <= HeadAt(f, l, s + 1)
    BY <2>1, <2>2, <2>3
  <2> QED
    BY <2>4 DEF s
<1> HIDE DEF M
<1>4. M = Nat
  <2>1. M \in SUBSET Nat
    BY DEF M
  <2> QED
    BY <1>2, <1>3, <2>1, Induction
<1>5. n - 1 <= HeadAt(f, l, n)
  <2>1. n - 1 \in M /\ n - 1 + 1 = n
    BY <1>1, <1>4
  <2> HIDE DEF n
  <2> QED
    BY <2>1 DEF M
<1>6. HeadAt(f, l, n) + 2 <= EndOf(f, l) /\ HeadAt(f, l, n) \in Nat /\ EndOf(f, l) \in Nat
  BY <1>1, HeadInside
<1> HIDE DEF n
<1>7. n + 1 <= EndOf(f, l)
  BY <1>1, <1>5, <1>6
<1> QED
  BY <1>6, <1>7 DEF n

LEMMA FollowsLink ==
  ASSUME NEW l \in Sections, l # <<>>, NEW f, NEW d, Holds(d, f, l, FALSE, 0),
         Len(d) = EndOf(f, l), NEW s \in 1 .. Len(l)
  PROVE  Follows(d, HeadAt(f, l, s)) = HeadAt(f, l, IF s = Len(l) THEN s ELSE s + 1)
<1>1. d[HeadAt(f, l, s) + 2] = IF s = Len(l) THEN 0 ELSE HeadAt(f, l, s + 1)
  BY DEF Holds
<1>2. CASE s = Len(l)
  BY <1>1, <1>2 DEF Follows
<1>3. CASE s # Len(l)
  <2> DEFINE t == s + 1
  <2>1. t \in 1 .. Len(l)
    BY <1>3, LengthOf
  <2>2. HeadAt(f, l, s) + 2 <= HeadAt(f, l, t) /\ HeadAt(f, l, s) \in Nat
    BY <2>1, HeadNext
  <2> HIDE DEF t
  <2>3. HeadAt(f, l, t) \in Nat /\ HeadAt(f, l, t) + 2 <= EndOf(f, l) /\ EndOf(f, l) \in Nat
    BY <2>1, HeadInside
  <2>4. ~ (HeadAt(f, l, t) = 0 \/ HeadAt(f, l, t) + 1 >= Len(d))
    BY <2>2, <2>3
  <2> QED
    BY <1>1, <1>3, <2>4 DEF Follows, t
<1> QED
  BY <1>2, <1>3

LEMMA VisitedIs ==
  ASSUME NEW l \in Sections, l # <<>>, NEW f, NEW d, Holds(d, f, l, FALSE, 0),
         Len(d) = EndOf(f, l), NEW n \in 0 .. Len(d)
  PROVE  Visited(d)[n] = HeadAt(f, l, Reaches(l, n))
<1> DEFINE Walk(h) == [m \in Nat |-> IF m = 0 THEN 0 ELSE Follows(d, h[m - 1])]
           hop == CHOOSE h : h = Walk(h)
           g == [m \in Nat |-> HeadAt(f, l, Reaches(l, m))]
<1>1. Len(l) \in Nat /\ Len(l) >= 1
  BY LengthOf
<1>2. ASSUME NEW m \in Nat, m # 0
      PROVE  g[m] = Follows(d, g[m - 1])
  <2> DEFINE s == Reaches(l, m - 1)
  <2>1. m - 1 \in Nat /\ s \in 1 .. Len(l) /\ Reaches(l, m) = IF s = Len(l) THEN s ELSE s + 1
    BY <1>1, <1>2 DEF Reaches
  <2>2. g[m] = HeadAt(f, l, Reaches(l, m)) /\ g[m - 1] = HeadAt(f, l, s)
    BY <2>1
  <2> HIDE DEF g, s
  <2> QED
    BY <2>1, <2>2, FollowsLink
<1>3. g[0] = 0
  <2>1. Reaches(l, 0) = 1
    BY <1>1 DEF Reaches
  <2> QED
    BY <2>1, AtFirst
<1>4. g = Walk(g)
  <2>1. g = [m \in Nat |-> g[m]]
    OBVIOUS
  <2> HIDE DEF g
  <2>2. \A m \in Nat : g[m] = IF m = 0 THEN 0 ELSE Follows(d, g[m - 1])
    BY <1>2, <1>3
  <2> QED
    BY <2>1, <2>2
<1>5. hop = Walk(hop)
  <2> HIDE DEF Walk, g
  <2> QED
    BY <1>4
<1> HIDE DEF hop
<1>6. hop[0] = 0 /\ \A m \in Nat : m # 0 => hop[m] = Follows(d, hop[m - 1])
  <2> DEFINE w == Walk(hop)
  <2>1. w[0] = 0 /\ \A m \in Nat : m # 0 => w[m] = Follows(d, hop[m - 1])
    OBVIOUS
  <2>2. hop = w
    BY <1>5
  <2> HIDE DEF w
  <2> QED
    BY <2>1, <2>2
<1> DEFINE M == {m \in Nat : hop[m] = g[m]}
<1>7. 0 \in M
  BY <1>3, <1>6
<1>8. ASSUME NEW m \in M
      PROVE  m + 1 \in M
  <2>1. m \in Nat /\ m + 1 \in Nat /\ m + 1 # 0 /\ m + 1 - 1 = m /\ hop[m] = g[m]
    OBVIOUS
  <2> DEFINE k == m + 1
  <2>2. hop[k] = Follows(d, hop[k - 1]) /\ g[k] = Follows(d, g[k - 1])
    <3> HIDE DEF g
    <3>1. k \in Nat /\ k # 0
      BY <2>1
    <3> HIDE DEF k
    <3> QED
      BY <1>2, <1>6, <3>1
  <2> HIDE DEF g
  <2> QED
    BY <2>1, <2>2
<1> HIDE DEF M
<1>9. M = Nat
  <2>1. M \in SUBSET Nat
    BY DEF M
  <2> QED
    BY <1>7, <1>8, <2>1, Induction
<1>10. n \in Nat
  <2>1. EndOf(f, l) \in Nat
    BY SectionsFit
  <2> QED
    BY <2>1
<1>11. hop[n] = g[n]
  BY <1>9, <1>10 DEF M
<1>12. Visited(d)[n] = hop[n]
  BY DEF Visited, hop
<1> QED
  BY <1>10, <1>11, <1>12

First(ident) == CHOOSE s \in SectionsOf(ident) : \A t \in SectionsOf(ident) : s <= t

\* SeekIdentifierDword comes to the first section of the name.
LEMMA Found ==
  ASSUME ChunkInv, status # "WRITE", NEW ident
  PROVE  /\ SectionsOf(ident) = {} => Matches(buf.data, ident) = {}
         /\ SectionsOf(ident) # {} =>
              /\ Matches(buf.data, ident) # {}
              /\ First(ident) \in 1 .. Len(log)
              /\ FirstMatch(buf.data, ident) = HeadAt(bound, log, First(ident))
<1> DEFINE d == buf.data
           S == SectionsOf(ident)
           M == Matches(d, ident)
<1>1. log \in Sections /\ Len(d) = EndOf(bound, log) /\ Holds(d, bound, log, ~ overrun, 0)
  BY DEF ChunkInv, ChunkTypes, Phases
<1>2. Holds(d, bound, log, FALSE, 0)
  BY <1>1 DEF Holds
<1>3. Len(log) \in Nat /\ DOMAIN log = 1 .. Len(log) /\ (log = <<>> <=> Len(log) = 0)
  BY <1>1, LengthOf
<1>4. S = {s \in 1 .. Len(log) : log[s].ident = ident}
  BY <1>3 DEF SectionsOf
<1> HIDE DEF d, S
<1>5. CASE log = <<>>
  <2>1. S = {}
    BY <1>3, <1>4, <1>5
  <2>2. Len(d) = 0
    BY <1>1, <1>5 DEF EndOf
  <2>3. M = {}
    BY <2>2 DEF Matches
  <2> QED
    BY <2>1, <2>3 DEF S, d
<1>6. CASE log # <<>>
  <2>1. Len(log) >= 1 /\ Len(log) + 1 <= Len(d) /\ Len(d) \in Nat
    BY <1>1, <1>3, <1>6, SectionsFit
  <2>2. ASSUME NEW n \in 0 .. Len(d)
        PROVE  /\ Visited(d)[n] = HeadAt(bound, log, Reaches(log, n))
               /\ Reaches(log, n) \in 1 .. Len(log)
               /\ d[Visited(d)[n] + 1] = log[Reaches(log, n)].ident
    <3>1. Visited(d)[n] = HeadAt(bound, log, Reaches(log, n))
      BY <1>1, <1>2, <1>6, VisitedIs
    <3>2. Reaches(log, n) \in 1 .. Len(log)
      BY <1>3, <2>1 DEF Reaches
    <3>3. d[HeadAt(bound, log, Reaches(log, n)) + 1] = log[Reaches(log, n)].ident
      BY <1>2, <3>2 DEF Holds
    <3> QED
      BY <3>1, <3>2, <3>3
  <2>3. M = {n \in 0 .. Len(d) : Reaches(log, n) \in S}
    <3>1. M = {n \in 0 .. Len(d) : d[Visited(d)[n] + 1] = ident}
      BY <2>1 DEF Matches
    <3> HIDE DEF M
    <3> QED
      BY <1>4, <2>2, <3>1
  <2> HIDE DEF M
  <2>4. CASE S = {}
    <3>1. M = {}
      BY <2>3, <2>4
    <3> QED
      BY <2>4, <3>1 DEF M, S, d
  <2>5. CASE S # {}
    <3> DEFINE s == CHOOSE t \in S : \A u \in S : t <= u
               k == CHOOSE n \in M : \A m \in M : n <= m
    <3>1. S \in SUBSET Nat /\ M \in SUBSET Nat
      BY <1>4, <2>1, <2>3
    <3>2. s \in S /\ \A u \in S : s <= u
      BY <2>5, <3>1, Least
    <3> HIDE DEF s
    <3>3. s \in 1 .. Len(log) /\ s \in Nat /\ s >= 1 /\ s <= Len(log)
      BY <1>3, <1>4, <3>2
    <3>4. s - 1 \in 0 .. Len(d) /\ Reaches(log, s - 1) = s
      <4>1. s - 1 \in 0 .. Len(d)
        BY <1>3, <2>1, <3>3
      <4>2. s - 1 < Len(log) /\ (s - 1) + 1 = s
        BY <1>3, <3>3
      <4> QED
        BY <4>1, <4>2 DEF Reaches
    <3>5. s - 1 \in M
      BY <2>3, <3>2, <3>4
    <3>6. M # {}
      BY <3>5
    <3>7. k \in M /\ \A m \in M : k <= m
      BY <3>1, <3>6, Least
    <3> HIDE DEF k
    <3>8. k \in Nat /\ Reaches(log, k) \in S /\ k <= s - 1 /\ k \in 0 .. Len(d)
      BY <2>1, <2>3, <3>5, <3>7
    <3>9. Reaches(log, k) = s
      <4>1. Reaches(log, k) >= s
        BY <3>2, <3>8
      <4>2. Reaches(log, k) <= k + 1
        BY <1>3, <3>3, <3>8 DEF Reaches
      <4>3. Reaches(log, k) \in Nat
        BY <1>3, <3>8 DEF Reaches
      <4> QED
        BY <3>3, <3>8, <4>1, <4>2, <4>3
    <3>10. Visited(d)[k] = HeadAt(bound, log, s)
      BY <2>2, <3>8, <3>9
    <3>11. FirstMatch(d, ident) = Visited(d)[k]
      BY DEF FirstMatch, k, M
    <3>12. First(ident) = s
      BY DEF First, s, S
    <3> QED
      BY <2>5, <3>3, <3>6, <3>10, <3>11, <3>12 DEF M, S, d
  <2> QED
    BY <2>4, <2>5
<1> QED
  BY <1>5, <1>6

LEMMA SeekKeeps ==
  ASSUME ChunkInv, NEW ident, Seek(ident)
  PROVE  ChunkInv'
<1> DEFINE s == First(ident)
<1>1. /\ status = "READ" /\ Matches(buf.data, ident) # {}
      /\ buf' = [buf EXCEPT !.cur = FirstMatch(buf.data, ident) + 2]
      /\ place' = <<IF SectionsOf(ident) = {} THEN 0 ELSE s, 0>>
      /\ UNCHANGED <<status, dwSize, objectList, managerList, bound, wire, loading, log, last, overrun>>
  BY DEF Seek, First
<1>2. /\ SectionsOf(ident) # {} /\ s \in 1 .. Len(log)
      /\ FirstMatch(buf.data, ident) = HeadAt(bound, log, s)
  BY <1>1, Found
<1> HIDE DEF s
<1>3. place' = <<s, 0>> /\ buf' = [data |-> buf.data, cur |-> HeadAt(bound, log, s) + 2]
  BY <1>1, <1>2 DEF ChunkInv, ChunkTypes
<1>4. ChunkTypes' /\ ListsLead'
  BY <1>1, <1>3 DEF ChunkInv, ChunkTypes, ListsLead
<1>5. Holds(buf.data, bound, log, ~ overrun, 0)'
  BY <1>1, <1>3 DEF ChunkInv
<1>6. Phases'
  BY <1>1, <1>3 DEF ChunkInv, Phases
<1>7. ReaderPlaced'
  <2>1. log \in Sections
    BY DEF ChunkInv, ChunkTypes
  <2>2. Len(log[s].items) \in Nat /\ HeadAt(bound, log, s) + 2 = At(bound, log, s, 1)
    BY <1>2, <2>1, SectionParts, HeadInside
  <2>3. 0 \in 0 .. Len(log[s].items) /\ 0 + 1 = 1
    BY <2>2
  <2>4. place'[1] = s /\ place'[2] = 0 /\ buf'.cur = At(bound, log, s, 1)
    BY <1>3, <2>2
  <2> QED
    BY <1>1, <1>2, <1>3, <2>3, <2>4 DEF ReaderPlaced
<1> QED
  BY <1>4, <1>5, <1>6, <1>7 DEF ChunkInv

-----------------------------------------------------------------------------
(* Reading back.                                                            *)

\* The words w are in the buffer from c on.
Lies(c, w) ==
  /\ c \in Nat /\ w \in Seq(Int) /\ c + Len(w) <= Len(buf.data)
  /\ \A i \in 1 .. Len(w) : buf.data[c + i] = w[i]

LEMMA WordsTaken ==
  ASSUME ChunkTypes, NEW c, NEW w, Lies(c, w)
  PROVE  ReadWords(c, Len(w)) = Took(TRUE, w, c + Len(w))
<1> DEFINE d == buf.data
           n == Len(w)
           v == SubSeq(d, c + 1, c + n)
<1>1. /\ c \in Nat /\ w \in Seq(Int) /\ n \in Nat /\ c + n <= Len(d)
      /\ \A i \in 1 .. n : d[c + i] = w[i]
  BY LenProperties DEF Lies
<1>2. d \in Seq(Int) /\ Len(d) \in Nat
  BY LenProperties DEF ChunkTypes
<1> HIDE DEF d
<1>3. v = w
  <2> HIDE DEF n
  <2>1. c + 1 \in Int /\ c + n \in Int
    BY <1>1
  <2>2. v \in Seq(Int) /\ Len(v) = n /\ \A i \in 1 .. n : v[i] = d[c + i]
    BY <1>1, <1>2
  <2> HIDE DEF v
  <2>3. Len(v) = Len(w) /\ \A i \in 1 .. Len(v) : v[i] = w[i]
    BY <1>1, <2>2 DEF n
  <2> QED
    BY <1>1, <2>2, <2>3, SeqEqual
<1>4. EnsureReadSpace(c, n)
  BY <1>1 DEF EnsureReadSpace, d
<1> HIDE DEF v
<1>5. ReadWords(c, n) = Took(TRUE, v, c + n)
  BY <1>4 DEF ReadWords, v, d
<1> QED
  BY <1>3, <1>5 DEF n

\* The words w are a and then b.
Joined(w, a, b) ==
  /\ a \in Seq(Int) /\ b \in Seq(Int) /\ Len(w) = Len(a) + Len(b)
  /\ \A i \in 1 .. Len(a) : w[i] = a[i]
  /\ \A i \in 1 .. Len(b) : w[Len(a) + i] = b[i]

LEMMA LiesApart ==
  ASSUME NEW c, NEW w, NEW a, NEW b, Joined(w, a, b), Lies(c, w), ChunkTypes
  PROVE  /\ Lies(c, a) /\ Lies(c + Len(a), b)
         /\ Len(a) \in Nat /\ Len(b) \in Nat /\ c \in Nat
<1> DEFINE m == Len(a)
           n == Len(b)
           d == buf.data
<1>1. /\ Len(w) = m + n /\ m \in Nat /\ n \in Nat
      /\ \A i \in 1 .. m : w[i] = a[i]
      /\ \A i \in 1 .. n : w[m + i] = b[i]
      /\ a \in Seq(Int) /\ b \in Seq(Int)
  BY LenProperties DEF Joined
<1>2. c \in Nat /\ c + Len(w) <= Len(d) /\ \A i \in 1 .. Len(w) : d[c + i] = w[i]
  BY DEF Lies
<1>3. Len(d) \in Nat
  BY LenProperties DEF ChunkTypes
<1> HIDE DEF m, n, d
<1>4. c + m <= Len(d) /\ (c + m) + n <= Len(d) /\ c + m \in Nat
  BY <1>1, <1>2, <1>3
<1>5. ASSUME NEW i \in 1 .. m
      PROVE  d[c + i] = a[i]
  <2>1. i \in 1 .. Len(w)
    BY <1>1
  <2> QED
    BY <1>1, <1>2, <2>1
<1>6. ASSUME NEW i \in 1 .. n
      PROVE  d[(c + m) + i] = b[i]
  <2>1. m + i \in 1 .. Len(w) /\ c + (m + i) = (c + m) + i
    BY <1>1, <1>2
  <2> QED
    BY <1>1, <1>2, <2>1
<1> QED
  BY <1>1, <1>2, <1>4, <1>5, <1>6 DEF Lies, m, n, d

LEMMA ReferenceKnown ==
  ASSUME NEW id \in Nat, bound \in BOOLEAN
  PROVE  /\ (~ bound \/ Reference(bound, id) >= 0) <=> Known(id)
         /\ Resolve(Reference(bound, id)) = Renumbered(id)
         /\ Reference(bound, id) \in Int
<1>1. CASE ~ bound
  BY <1>1 DEF Reference, Known, Resolve, Renumbered
<1>2. CASE bound /\ id \in ToSet(Saved)
  <2> DEFINE i == CHOOSE j \in DOMAIN Saved : Saved[j] = id
  <2>1. i \in 1 .. Len(Saved) /\ IndexOf(id) = i - 1 /\ Len(Saved) \in Nat
    BY <1>2, IndexIs, ChunkAssumption, LenProperties
  <2>2. Renumbered(id) = Created[i] /\ Known(id)
    BY <1>2 DEF Renumbered, Known
  <2> HIDE DEF i
  <2>3. IndexOf(id) \in Int /\ IndexOf(id) >= 0 /\ IndexOf(id) + 1 = i /\ ~ (IndexOf(id) < 0)
    BY <2>1
  <2>4. Resolve(IndexOf(id)) = Created[i]
    BY <1>2, <2>3 DEF Resolve
  <2> QED
    BY <1>2, <2>2, <2>3, <2>4 DEF Reference
<1>3. CASE bound /\ id \notin ToSet(Saved)
  <2>1. Reference(bound, id) = -1
    BY <1>3, IndexIs DEF Reference
  <2> DEFINE r == Reference(bound, id)
  <2> HIDE DEF r
  <2>2. r \in Int /\ r < 0
    BY <2>1 DEF r
  <2>3. Resolve(r) = 0 /\ Renumbered(id) = 0 /\ ~ Known(id)
    BY <1>3, <2>2 DEF Resolve, Renumbered, Known
  <2>4. ~ (~ bound \/ r >= 0)
    BY <1>3, <2>2
  <2> QED
    BY <2>2, <2>3, <2>4 DEF r
<1> QED
  BY <1>1, <1>2, <1>3

\* What ReadBack says of an item and the outcome of reading it.
Given(it, ok, value) ==
  LET Ids == [i \in DOMAIN it.v |-> Renumbered(it.v[i])]
  IN CASE it.k = "struct" -> ok /\ value = <<it.v>>
       [] it.k = "id"     -> ok = Known(it.v) /\ value = Renumbered(it.v)
       [] it.k = "ids"    -> ok /\ value = Ids
       [] it.k = "idseq"  -> IF \A i \in DOMAIN it.v : Known(it.v[i])
                               THEN ok /\ value = Ids ELSE ~ ok /\ value = <<>>
       [] it.k = "man"    -> ok /\ value = it.v
       [] it.k = "mans"   -> ok /\ value = it.v
       [] it.k \in {"buf", "raw"} -> ok /\ value = Payload(it.n)
       [] it.k = "vtx"    -> ok /\ value = Tail(VertexBlock(it.n, it.mask))

LEMMA ReadBackIs == ReadBack <=> (last # <<>> => Given(last[1], last[2], last[3]))
BY DEF ReadBack, Given

LEMMA WordTaken ==
  ASSUME ChunkTypes, NEW c, NEW x \in Int, Lies(c, <<x>>)
  PROVE  ReadWords(c, 1) = Took(TRUE, <<x>>, c + 1)
<1>1. Len(<<x>>) = 1
  OBVIOUS
<1>2. ReadWords(c, Len(<<x>>)) = Took(TRUE, <<x>>, c + Len(<<x>>))
  BY WordsTaken
<1> QED
  BY <1>1, <1>2

\* The outcome of the reading call is what ReadBack asks for, and the reader
\* is behind the item.
ReadsBack(it, c) ==
  /\ Given(it, Read(it, c).ok, Read(it, c).v)
  /\ it.k # "idseq" \/ Read(it, c).ok => Read(it, c).cur = c + Len(Contents(bound, it))

LEMMA StructBack ==
  ASSUME ChunkTypes, NEW it \in ItemKinds, it.k = "struct", NEW c, Lies(c, Contents(bound, it))
  PROVE  ReadsBack(it, c)
<1> DEFINE x == it.v
<1>1. Contents(bound, it) = <<x>> /\ x \in Int /\ Len(<<x>>) = 1
  BY ItemType DEF Contents
<1>2. Read(it, c) = ReadWords(c, 1)
  BY DEF Read
<1>3. ReadWords(c, 1) = Took(TRUE, <<x>>, c + 1)
  BY <1>1, WordTaken
<1>4. Read(it, c).ok /\ Read(it, c).v = <<x>> /\ Read(it, c).cur = c + 1
  BY <1>2, <1>3 DEF Took
<1>5. Given(it, Read(it, c).ok, Read(it, c).v)
  BY <1>4 DEF Given
<1> QED
  BY <1>1, <1>4, <1>5 DEF ReadsBack

LEMMA IdBack ==
  ASSUME ChunkTypes, NEW it \in ItemKinds, it.k = "id", NEW c, Lies(c, Contents(bound, it))
  PROVE  ReadsBack(it, c)
<1> DEFINE id == it.v
           x == Reference(bound, id)
           ok == ~ bound \/ x >= 0
<1>1. id \in Nat /\ bound \in BOOLEAN
  BY ItemType DEF ChunkTypes
<1>2. x \in Int /\ (ok <=> Known(id)) /\ Resolve(x) = Renumbered(id)
  BY <1>1, ReferenceKnown
<1>3. Contents(bound, it) = <<x>> /\ Len(<<x>>) = 1
  BY DEF Contents
<1>4. Read(it, c) = ReadObjectID(c)
  BY DEF Read
<1> HIDE DEF x
<1>5. ReadWords(c, 1) = Took(TRUE, <<x>>, c + 1)
  BY <1>2, <1>3, WordTaken
<1>6. ReadObjectID(c) = Took(ok, Resolve(x), c + 1)
  <2> DEFINE r == Took(TRUE, <<x>>, c + 1)
  <2>1. r.ok /\ r.v[1] = x /\ r.cur = c + 1
    BY DEF Took
  <2>2. r = ReadWords(c, 1)
    BY <1>5
  <2> HIDE DEF r
  <2> QED
    BY <2>1, <2>2 DEF ReadObjectID
<1> HIDE DEF ok
<1>7. Read(it, c).ok = ok /\ Read(it, c).v = Resolve(x) /\ Read(it, c).cur = c + 1
  BY <1>4, <1>6 DEF Took
<1>8. ok = Known(id)
  <2>1. ok \in BOOLEAN /\ Known(id) \in BOOLEAN
    BY Zenon DEF ok, Known
  <2> QED
    BY <1>2, <2>1
<1>9. Given(it, Read(it, c).ok, Read(it, c).v)
  BY <1>2, <1>7, <1>8 DEF Given
<1> QED
  BY <1>3, <1>7, <1>9 DEF ReadsBack

\* The references of a sequence, renumbered, behind their number.
LEMMA ArrayRead ==
  ASSUME ChunkTypes, NEW ids \in Seq(Nat), NEW c, Lies(c, <<Len(ids)>> \o References(bound, ids))
  PROVE  /\ ReadXObjectArray(c) = Took(TRUE, [i \in DOMAIN ids |-> Renumbered(ids[i])], c + 1 + Len(ids))
         /\ \A i \in DOMAIN ids : buf.data[c + 1 + i] = Reference(bound, ids[i])
         /\ c \in Nat /\ Len(<<Len(ids)>> \o References(bound, ids)) = 1 + Len(ids)
<1> DEFINE n == Len(ids)
           refs == References(bound, ids)
           values == [i \in DOMAIN ids |-> Renumbered(ids[i])]
<1>1. /\ n \in Nat /\ DOMAIN ids = 1 .. n /\ \A i \in 1 .. n : ids[i] \in Nat
      /\ refs \in Seq(Int) /\ Len(refs) = n /\ DOMAIN refs = 1 .. n
      /\ \A i \in 1 .. n : refs[i] = Reference(bound, ids[i])
  BY ReferencesType, LenProperties
<1>2. <<n>> \in Seq(Int) /\ Len(<<n>>) = 1
  BY <1>1
<1>3. Lies(c, <<n>> \o refs)
  OBVIOUS
<1>4. /\ \A i \in 1 .. n : Resolve(refs[i]) = Renumbered(ids[i])
  BY <1>1, ReferenceKnown DEF ChunkTypes
<1> HIDE DEF n, refs
<1>5. Lies(c, <<n>>) /\ Lies(c + 1, refs) /\ c \in Nat /\ Len(<<n>> \o refs) = 1 + n
  <2> DEFINE h == <<n>>
             w == h \o refs
  <2>1. h \in Seq(Int) /\ Len(h) = 1 /\ Lies(c, w) /\ refs \in Seq(Int)
    BY <1>1, <1>2, <1>3
  <2> HIDE DEF h
  <2>2. Joined(w, h, refs)
    BY <2>1, Concatenated DEF Joined
  <2> HIDE DEF w
  <2>3. Lies(c, h) /\ Lies(c + Len(h), refs) /\ c \in Nat
    BY <2>1, <2>2, LiesApart
  <2>4. Lies(c, h) /\ Lies(c + 1, refs) /\ c \in Nat /\ Len(w) = 1 + n
    BY <1>1, <2>1, <2>2, <2>3 DEF Joined
  <2> QED
    BY <2>4 DEF h, w
<1>6. ReadWords(c, 1) = Took(TRUE, <<n>>, c + 1)
  <2>1. n \in Int /\ Lies(c, <<n>>)
    BY <1>1, <1>5
  <2> QED
    BY <2>1, WordTaken
<1>7. ReadWords(c + 1, n) = Took(TRUE, refs, c + 1 + n)
  BY <1>1, <1>5, WordsTaken
<1>8. [i \in DOMAIN refs |-> Resolve(refs[i])] = values
  BY <1>1, <1>4
<1> HIDE DEF values
<1>9. ReadXObjectArray(c) = Took(TRUE, values, c + 1 + n)
  <2> DEFINE r == Took(TRUE, <<n>>, c + 1)
             q == Took(TRUE, refs, c + 1 + n)
  <2>1. r.ok /\ r.v[1] = n /\ r.cur = c + 1 /\ q.ok /\ q.v = refs /\ q.cur = c + 1 + n
    BY DEF Took
  <2>2. r = ReadWords(c, 1) /\ q = ReadWords(c + 1, n)
    BY <1>6, <1>7
  <2> HIDE DEF r, q
  <2> QED
    BY <1>8, <2>1, <2>2 DEF ReadXObjectArray
<1>10. \A i \in 1 .. n : buf.data[c + 1 + i] = refs[i]
  BY <1>1, <1>5 DEF Lies
<1> QED
  BY <1>1, <1>5, <1>9, <1>10 DEF n, refs, values

LEMMA IdsBack ==
  ASSUME ChunkTypes, NEW it \in ItemKinds, it.k = "ids", NEW c, Lies(c, Contents(bound, it))
  PROVE  ReadsBack(it, c)
<1> DEFINE ids == it.v
           values == [i \in DOMAIN ids |-> Renumbered(ids[i])]
<1>1. ids \in Seq(Nat) /\ Len(ids) \in Nat
  BY ItemType, LenProperties
<1>2. Contents(bound, it) = <<Len(ids)>> \o References(bound, ids)
  BY DEF Contents
<1>3. Read(it, c) = ReadXObjectArray(c)
  BY DEF Read
<1> HIDE DEF ids
<1>4. /\ ReadXObjectArray(c) = Took(TRUE, values, c + 1 + Len(ids))
      /\ c \in Nat /\ Len(Contents(bound, it)) = 1 + Len(ids)
  BY <1>1, <1>2, ArrayRead
<1> HIDE DEF values
<1>5. Read(it, c).ok /\ Read(it, c).v = values /\ Read(it, c).cur = c + 1 + Len(ids)
  BY <1>3, <1>4 DEF Took
<1>6. Given(it, Read(it, c).ok, Read(it, c).v)
  BY <1>5 DEF Given, values, ids
<1>7. c + 1 + Len(ids) = c + Len(Contents(bound, it))
  BY <1>1, <1>4
<1> QED
  BY <1>5, <1>6, <1>7 DEF ReadsBack

LEMMA SequenceBack ==
  ASSUME ChunkTypes, NEW it \in ItemKinds, it.k = "idseq", NEW c, Lies(c, Contents(bound, it))
  PROVE  ReadsBack(it, c)
<1> DEFINE ids == it.v
           values == [i \in DOMAIN ids |-> Renumbered(ids[i])]
           refused == {i \in DOMAIN values : bound /\ buf.data[c + 1 + i] < 0}
           stop == c + 1 + (CHOOSE i \in refused : \A j \in refused : i <= j)
<1>1. ids \in Seq(Nat) /\ Len(ids) \in Nat /\ \A i \in DOMAIN ids : ids[i] \in Nat
  BY ItemType, LenProperties
<1>2. Contents(bound, it) = <<Len(ids)>> \o References(bound, ids)
  BY DEF Contents
<1>3. Read(it, c) = ReadObjectIDSequence(c)
  BY DEF Read
<1>4. DOMAIN values = DOMAIN ids
  OBVIOUS
<1> HIDE DEF ids
<1>5. /\ ReadXObjectArray(c) = Took(TRUE, values, c + 1 + Len(ids))
      /\ \A i \in DOMAIN ids : buf.data[c + 1 + i] = Reference(bound, ids[i])
      /\ c \in Nat /\ Len(Contents(bound, it)) = 1 + Len(ids)
  BY <1>1, <1>2, ArrayRead
<1>6. ReadObjectIDSequence(c) =
        IF refused = {} THEN Took(TRUE, values, c + 1 + Len(ids)) ELSE Took(FALSE, <<>>, stop)
  <2> DEFINE r == Took(TRUE, values, c + 1 + Len(ids))
  <2>1. r.ok /\ r.v = values
    BY DEF Took
  <2>2. r = ReadXObjectArray(c)
    BY <1>5
  <2> HIDE DEF r, values
  <2>3. refused = {i \in DOMAIN r.v : bound /\ buf.data[c + 1 + i] < 0}
    BY <2>1
  <2>4. ReadObjectIDSequence(c) =
          LET refusals == {i \in DOMAIN r.v : bound /\ buf.data[c + 1 + i] < 0}
          IN IF ~ r.ok \/ refusals = {} THEN r
             ELSE Took(FALSE, <<>>, c + 1 + (CHOOSE i \in refusals : \A j \in refusals : i <= j))
    BY <2>2 DEF ReadObjectIDSequence
  <2> HIDE DEF refused
  <2>5. ReadObjectIDSequence(c) =
          IF ~ r.ok \/ refused = {} THEN r
          ELSE Took(FALSE, <<>>, c + 1 + (CHOOSE i \in refused : \A j \in refused : i <= j))
    BY <2>3, <2>4, Zenon
  <2> QED
    BY <2>1, <2>5 DEF r
<1>7. refused = {} <=> \A i \in DOMAIN ids : Known(ids[i])
  <2>1. ASSUME NEW i \in DOMAIN ids
        PROVE  ~ (bound /\ buf.data[c + 1 + i] < 0) <=> Known(ids[i])
    <3>1. /\ (~ bound \/ Reference(bound, ids[i]) >= 0) <=> Known(ids[i])
          /\ Reference(bound, ids[i]) \in Int
      BY <1>1, ReferenceKnown DEF ChunkTypes
    <3>2. buf.data[c + 1 + i] = Reference(bound, ids[i])
      BY <1>5
    <3> QED
      BY <3>1, <3>2
  <2> HIDE DEF values
  <2> QED
    BY <1>4, <2>1
<1> HIDE DEF values, refused, stop
<1>8. CASE refused = {}
  <2>1. Read(it, c).ok /\ Read(it, c).v = values /\ Read(it, c).cur = c + 1 + Len(ids)
    BY <1>3, <1>6, <1>8 DEF Took
  <2>2. Given(it, Read(it, c).ok, Read(it, c).v)
    BY <1>7, <1>8, <2>1 DEF Given, values, ids
  <2>3. c + 1 + Len(ids) = c + Len(Contents(bound, it))
    BY <1>1, <1>5
  <2> QED
    BY <2>1, <2>2, <2>3 DEF ReadsBack
<1>9. CASE refused # {}
  <2>1. ~ Read(it, c).ok /\ Read(it, c).v = <<>>
    BY <1>3, <1>6, <1>9 DEF Took
  <2>2. Given(it, Read(it, c).ok, Read(it, c).v)
    BY <1>7, <1>9, <2>1 DEF Given, ids
  <2> QED
    BY <2>1, <2>2 DEF ReadsBack
<1> QED
  BY <1>8, <1>9

LEMMA JoinedIs ==
  ASSUME NEW a \in Seq(Int), NEW b \in Seq(Int)
  PROVE  Joined(a \o b, a, b) /\ a \o b \in Seq(Int)
BY Concatenated DEF Joined

LEMMA JoinedTwice ==
  ASSUME NEW w, NEW a, NEW g, NEW b, NEW e, NEW h, h \in Seq(Int),
         Joined(w, a, g), Joined(g, b, e), Joined(h, a, b)
  PROVE  Joined(w, h, e)
<1> DEFINE m == Len(a)
           n == Len(b)
           k == Len(e)
<1>1. m \in Nat /\ n \in Nat /\ k \in Nat /\ e \in Seq(Int)
  BY LenProperties DEF Joined
<1>2. Len(g) = n + k /\ \A i \in 1 .. n : g[i] = b[i] /\ h[m + i] = b[i]
  BY DEF Joined
<1>3. \A i \in 1 .. k : g[n + i] = e[i]
  BY DEF Joined
<1>4. Len(h) = m + n /\ Len(w) = m + Len(g) /\ \A i \in 1 .. m : w[i] = a[i] /\ h[i] = a[i]
  BY DEF Joined
<1>5. \A i \in 1 .. Len(g) : w[m + i] = g[i]
  BY DEF Joined
<1> HIDE DEF m, n, k
<1>6. Len(w) = (m + n) + k
  BY <1>1, <1>2, <1>4
<1>7. ASSUME NEW i \in 1 .. m + n
      PROVE  w[i] = h[i]
  <2>1. CASE i <= m
    BY <1>1, <1>4, <2>1
  <2>2. CASE i > m
    <3> DEFINE j == i - m
    <3>1. j \in 1 .. n /\ j \in 1 .. Len(g) /\ m + j = i
      BY <1>1, <1>2, <2>2
    <3> HIDE DEF j
    <3>2. w[m + j] = h[m + j]
      BY <1>2, <1>5, <3>1
    <3> QED
      BY <3>1, <3>2
  <2> QED
    BY <1>1, <2>1, <2>2
<1>8. ASSUME NEW i \in 1 .. k
      PROVE  w[(m + n) + i] = e[i]
  <2>1. n + i \in 1 .. Len(g) /\ m + (n + i) = (m + n) + i
    BY <1>1, <1>2
  <2> QED
    BY <1>3, <1>5, <2>1
<1> QED
  BY <1>1, <1>4, <1>6, <1>7, <1>8 DEF Joined, m, n, k

LEMMA ManagerBack ==
  ASSUME ChunkTypes, NEW it \in ItemKinds, it.k = "man", NEW c, Lies(c, Contents(bound, it))
  PROVE  ReadsBack(it, c)
<1> DEFINE x == it.v
           w == Guid \o <<x>>
<1>1. Contents(bound, it) = w /\ x \in Int
  BY ItemType DEF Contents
<1>2. Len(w) = 3 /\ w[3] = x
  BY DEF Guid
<1>3. Read(it, c) = ReadManagerInt(c)
  BY DEF Read
<1> HIDE DEF x, w
<1>4. ReadWords(c, Len(w)) = Took(TRUE, w, c + Len(w))
  BY <1>1, WordsTaken
<1>5. ReadWords(c, 3) = Took(TRUE, w, c + 3)
  BY <1>2, <1>4
<1>6. ReadManagerInt(c) = Took(TRUE, x, c + 3)
  <2> DEFINE r == Took(TRUE, w, c + 3)
  <2>1. r.ok /\ r.v[3] = x /\ r.cur = c + 3
    BY <1>2 DEF Took
  <2>2. r = ReadWords(c, 3)
    BY <1>5
  <2> HIDE DEF r
  <2> QED
    BY <2>1, <2>2 DEF ReadManagerInt
<1>7. Read(it, c).ok /\ Read(it, c).v = x /\ Read(it, c).cur = c + 3
  BY <1>3, <1>6 DEF Took
<1>8. Given(it, Read(it, c).ok, Read(it, c).v)
  BY <1>7 DEF Given, x
<1> QED
  BY <1>1, <1>2, <1>7, <1>8 DEF ReadsBack

Taken(c, n, w) == ReadWords(c, n) = Took(TRUE, w, c + n)

\* A piece whose size is in the head before it.
LEMMA HeadAndBody ==
  ASSUME ChunkTypes, NEW c, NEW w, NEW head, NEW body, Joined(w, head, body), Lies(c, w)
  PROVE  /\ Taken(c, Len(head), head) /\ Taken(c + Len(head), Len(body), body)
         /\ (c + Len(head)) + Len(body) = c + Len(w)
<1>1. /\ Lies(c, head) /\ Lies(c + Len(head), body) /\ c \in Nat /\ Len(head) \in Nat /\ Len(body) \in Nat
      /\ Len(w) = Len(head) + Len(body)
  BY LiesApart DEF Joined
<1>2. Taken(c, Len(head), head)
  BY <1>1, WordsTaken DEF Taken
<1>3. Taken(c + Len(head), Len(body), body)
  BY <1>1, WordsTaken DEF Taken
<1>4. (c + Len(head)) + Len(body) = c + Len(w)
  BY <1>1
<1> QED
  BY <1>2, <1>3, <1>4

LEMMA ManagersBack ==
  ASSUME ChunkTypes, NEW it \in ItemKinds, it.k = "mans", NEW c, Lies(c, Contents(bound, it))
  PROVE  ReadsBack(it, c)
<1> DEFINE v == it.v
           n == Len(v)
           g == Guid \o v
           w == <<n>> \o g
           head == <<n>> \o Guid
<1>1. Contents(bound, it) = w /\ v \in Seq(Int) /\ n \in Nat
  BY ItemType, LenProperties DEF Contents
<1>2. Read(it, c) = ReadManagerIntSequence(c)
  BY DEF Read
<1>3. Guid \in Seq(Int) /\ Len(Guid) = 2 /\ <<n>> \in Seq(Int)
  BY <1>1 DEF Guid
<1> HIDE DEF v
<1>4. Joined(g, Guid, v) /\ g \in Seq(Int)
  BY <1>1, <1>3, JoinedIs
<1> HIDE DEF g, n
<1>5. Joined(w, <<n>>, g)
  BY <1>3, <1>4, JoinedIs
<1>6. Joined(head, <<n>>, Guid) /\ head \in Seq(Int)
  BY <1>3, JoinedIs
<1> HIDE DEF w, head
<1>7. Len(head) = 3 /\ head[1] = n
  <2>1. Len(<<n>>) = 1 /\ <<n>>[1] = n
    OBVIOUS
  <2>2. Len(head) = Len(<<n>>) + Len(Guid) /\ \A i \in 1 .. Len(<<n>>) : head[i] = <<n>>[i]
    BY <1>6 DEF Joined
  <2> QED
    BY <1>3, <2>1, <2>2
<1>8. Joined(w, head, v)
  BY <1>4, <1>5, <1>6, JoinedTwice
<1>9. /\ ReadWords(c, Len(head)) = Took(TRUE, head, c + Len(head))
      /\ ReadWords(c + Len(head), Len(v)) = Took(TRUE, v, c + Len(w))
  <2>1. Lies(c, w)
    BY <1>1
  <2>2. /\ Taken(c, Len(head), head) /\ Taken(c + Len(head), Len(v), v)
        /\ (c + Len(head)) + Len(v) = c + Len(w)
    BY <1>8, <2>1, HeadAndBody
  <2> QED
    BY <2>2 DEF Taken
<1>10. ReadManagerIntSequence(c) = Took(TRUE, v, c + Len(w))
  <2> DEFINE r == Took(TRUE, head, c + 3)
  <2>1. r.ok /\ r.v[1] = Len(v) /\ r.cur = c + 3
    BY <1>7 DEF Took, n
  <2>2. r = ReadWords(c, 3) /\ ReadWords(c + 3, Len(v)) = Took(TRUE, v, c + Len(w))
    BY <1>7, <1>9
  <2> HIDE DEF r
  <2> QED
    BY <2>1, <2>2 DEF ReadManagerIntSequence
<1>11. Read(it, c).ok /\ Read(it, c).v = v /\ Read(it, c).cur = c + Len(w)
  BY <1>2, <1>10 DEF Took
<1>12. Given(it, Read(it, c).ok, Read(it, c).v)
  BY <1>11 DEF Given, v
<1> QED
  BY <1>1, <1>11, <1>12 DEF ReadsBack

LEMMA BufferBack ==
  ASSUME ChunkTypes, NEW it \in ItemKinds, it.k = "buf", NEW c, Lies(c, Contents(bound, it))
  PROVE  ReadsBack(it, c)
<1> DEFINE n == it.n
           p == Payload(n)
           head == <<n>>
           w == head \o p
<1>1. Contents(bound, it) = w /\ n \in Nat
  BY ItemType DEF Contents
<1>2. Read(it, c) = ReadBuffer(c)
  BY DEF Read
<1> HIDE DEF n
<1>3. p \in Seq(Int) /\ Len(p) = GetCeilDwordSize(n)
  BY <1>1, PayloadType
<1>4. head \in Seq(Int) /\ Len(head) = 1 /\ head[1] = n
  BY <1>1
<1> HIDE DEF head, p
<1>5. Joined(w, head, p)
  BY <1>3, <1>4, JoinedIs
<1> HIDE DEF w
<1>6. /\ ReadWords(c, Len(head)) = Took(TRUE, head, c + Len(head))
      /\ ReadWords(c + Len(head), Len(p)) = Took(TRUE, p, c + Len(w))
  <2>1. Lies(c, w)
    BY <1>1
  <2>2. /\ Taken(c, Len(head), head) /\ Taken(c + Len(head), Len(p), p)
        /\ (c + Len(head)) + Len(p) = c + Len(w)
    BY <1>5, <2>1, HeadAndBody
  <2> QED
    BY <2>2 DEF Taken
<1>7. ReadBuffer(c) = Took(TRUE, p, c + Len(w))
  <2> DEFINE r == Took(TRUE, head, c + 1)
  <2>1. r.ok /\ r.v[1] = n /\ r.cur = c + 1
    BY <1>4 DEF Took
  <2>2. r = ReadWords(c, 1) /\ ReadWords(c + 1, GetCeilDwordSize(n)) = Took(TRUE, p, c + Len(w))
    BY <1>3, <1>4, <1>6
  <2> HIDE DEF r
  <2> QED
    BY <2>1, <2>2 DEF ReadBuffer
<1>8. Read(it, c).ok /\ Read(it, c).v = p /\ Read(it, c).cur = c + Len(w)
  BY <1>2, <1>7 DEF Took
<1>9. Given(it, Read(it, c).ok, Read(it, c).v)
  BY <1>8 DEF Given, p, n
<1> QED
  BY <1>1, <1>8, <1>9 DEF ReadsBack

LEMMA RawBack ==
  ASSUME ChunkTypes, NEW it \in ItemKinds, it.k = "raw", NEW c, Lies(c, Contents(bound, it))
  PROVE  ReadsBack(it, c)
<1> DEFINE n == it.n
           p == Payload(n)
<1>1. Contents(bound, it) = p /\ n \in Nat
  BY ItemType DEF Contents
<1>2. Read(it, c) = ReadWords(c, GetCeilDwordSize(n))
  BY DEF Read
<1> HIDE DEF n
<1>3. p \in Seq(Int) /\ Len(p) = GetCeilDwordSize(n)
  BY <1>1, PayloadType
<1> HIDE DEF p
<1>4. Read(it, c) = Took(TRUE, p, c + Len(p))
  BY <1>1, <1>2, <1>3, WordsTaken
<1>5. Read(it, c).ok /\ Read(it, c).v = p /\ Read(it, c).cur = c + Len(p)
  BY <1>4 DEF Took
<1>6. Given(it, Read(it, c).ok, Read(it, c).v)
  BY <1>5 DEF Given, p, n
<1> QED
  BY <1>1, <1>5, <1>6 DEF ReadsBack

LEMMA VerticesBack ==
  ASSUME ChunkTypes, NEW it \in ItemKinds, it.k = "vtx", NEW c, Lies(c, Contents(bound, it))
  PROVE  ReadsBack(it, c)
<1> DEFINE n == it.n
           mask == it.mask
           block == VertexBlock(n, mask)
           m == VertexWords(n, mask)
           body == Tail(block)
           size == <<m + 1>>
           flags == <<mask>>
           g == flags \o block
           w == <<n>> \o g
           top == flags \o size
           head == <<n>> \o top
<1>1. Contents(bound, it) = w /\ n \in Nat /\ mask \in Nat
  BY ItemType DEF Contents
<1>2. Read(it, c) = ReadVertices(c)
  BY DEF Read
<1>3. Given(it, TRUE, body)
  BY DEF Given
<1> HIDE DEF n, mask
<1>4. block \in Seq(Int) /\ Len(block) = m + 1 /\ block[1] = m + 1 /\ m \in Nat
  BY <1>1, BlockType
<1> HIDE DEF block, m
<1>5. body \in Seq(Int) /\ Len(body) = m /\ \A i \in 1 .. m : body[i] = block[i + 1]
  BY <1>4
<1>6. /\ size \in Seq(Int) /\ Len(size) = 1 /\ size[1] = m + 1
      /\ flags \in Seq(Int) /\ Len(flags) = 1
      /\ <<n>> \in Seq(Int)
  BY <1>1, <1>4
<1> HIDE DEF body
<1>7. Joined(block, size, body)
  <2>1. Len(block) = Len(size) + Len(body) /\ \A i \in 1 .. Len(size) : block[i] = size[i]
    BY <1>4, <1>5, <1>6
  <2>2. \A i \in 1 .. Len(body) : block[Len(size) + i] = body[i]
    BY <1>4, <1>5, <1>6
  <2> QED
    BY <1>5, <1>6, <2>1, <2>2 DEF Joined
<1> HIDE DEF size, flags
<1>8. Joined(g, flags, block) /\ Joined(top, flags, size) /\ g \in Seq(Int) /\ top \in Seq(Int)
  BY <1>4, <1>6, JoinedIs
<1> HIDE DEF g, top
<1>9. Len(top) = 2 /\ top[2] = m + 1
  <2>1. /\ Len(top) = Len(flags) + Len(size)
        /\ \A i \in 1 .. Len(size) : top[Len(flags) + i] = size[i]
    BY <1>8 DEF Joined
  <2> QED
    BY <1>6, <2>1
<1>10. Joined(g, top, body)
  BY <1>7, <1>8, JoinedTwice
<1>11. Joined(w, <<n>>, g) /\ Joined(head, <<n>>, top) /\ head \in Seq(Int)
  BY <1>6, <1>8, JoinedIs
<1> HIDE DEF w, head
<1>12. Len(head) = 3 /\ head[3] = m + 1
  <2>1. Len(<<n>>) = 1
    OBVIOUS
  <2>2. /\ Len(head) = Len(<<n>>) + Len(top)
        /\ \A i \in 1 .. Len(top) : head[Len(<<n>>) + i] = top[i]
    BY <1>11 DEF Joined
  <2> QED
    BY <1>9, <2>1, <2>2
<1>13. Joined(w, head, body)
  BY <1>10, <1>11, JoinedTwice
<1>14. /\ ReadWords(c, Len(head)) = Took(TRUE, head, c + Len(head))
       /\ ReadWords(c + Len(head), Len(body)) = Took(TRUE, body, c + Len(w))
  <2>1. Lies(c, w)
    BY <1>1
  <2>2. /\ Taken(c, Len(head), head) /\ Taken(c + Len(head), Len(body), body)
        /\ (c + Len(head)) + Len(body) = c + Len(w)
    BY <1>13, <2>1, HeadAndBody
  <2> QED
    BY <2>2 DEF Taken
<1>15. ReadVertices(c) = Took(TRUE, body, c + Len(w))
  <2> DEFINE r == Took(TRUE, head, c + 3)
  <2>1. r.ok /\ r.v[3] - 1 = m /\ r.cur = c + 3
    BY <1>4, <1>12 DEF Took
  <2>2. r = ReadWords(c, 3) /\ ReadWords(c + 3, m) = Took(TRUE, body, c + Len(w))
    BY <1>5, <1>12, <1>14
  <2> HIDE DEF r
  <2> QED
    BY <2>1, <2>2 DEF ReadVertices
<1>16. Read(it, c).ok = TRUE /\ Read(it, c).v = body /\ Read(it, c).cur = c + Len(w)
  BY <1>2, <1>15 DEF Took
<1> QED
  BY <1>1, <1>3, <1>16 DEF ReadsBack

LEMMA ItemBack ==
  ASSUME ChunkTypes, NEW it \in ItemKinds, NEW c, Lies(c, Contents(bound, it))
  PROVE  ReadsBack(it, c)
<1>1. it.k \in {"struct", "id", "ids", "idseq", "man", "mans", "buf", "raw", "vtx"}
  BY ItemType
<1>2. it.k = "struct" => ReadsBack(it, c)
  BY StructBack
<1>3. it.k = "id" => ReadsBack(it, c)
  BY IdBack
<1>4. it.k = "ids" => ReadsBack(it, c)
  BY IdsBack
<1>5. it.k = "idseq" => ReadsBack(it, c)
  BY SequenceBack
<1>6. it.k = "man" => ReadsBack(it, c)
  BY ManagerBack
<1>7. it.k = "mans" => ReadsBack(it, c)
  BY ManagersBack
<1>8. it.k = "buf" => ReadsBack(it, c)
  BY BufferBack
<1>9. it.k = "raw" => ReadsBack(it, c)
  BY RawBack
<1>10. it.k = "vtx" => ReadsBack(it, c)
  BY VerticesBack
<1> QED
  BY <1>1, <1>2, <1>3, <1>4, <1>5, <1>6, <1>7, <1>8, <1>9, <1>10

\* Every item lies where ItemStart says.
LEMMA ItemLies ==
  ASSUME ChunkInv, ~ overrun,
         NEW s \in 1 .. Len(log), NEW j \in 1 .. Len(log[s].items)
  PROVE  Lies(At(bound, log, s, j), Contents(bound, log[s].items[j]))
<1> DEFINE w == ItemWords(bound, log[s].items[j])
           c == At(bound, log, s, j)
<1>1. log \in Sections /\ Len(buf.data) \in Nat
  BY LenProperties DEF ChunkInv, ChunkTypes
<1>2. c \in Nat /\ w \in Seq(Int) /\ Len(w) \in Nat /\ c + Len(w) <= Len(buf.data)
  <2>1. c \in Nat /\ w \in Seq(Int) /\ Len(w) \in Nat /\ c + Len(w) <= EndOf(bound, log)
    BY <1>1, ItemInside
  <2>2. EndOf(bound, log) <= Len(buf.data) /\ EndOf(bound, log) \in Nat
    <3>1. CASE status = "WRITE"
      BY <3>1 DEF ChunkInv, Phases, Buffer
    <3>2. CASE status # "WRITE"
      BY <1>1, <3>2 DEF ChunkInv, Phases
    <3> QED
      BY <3>1, <3>2
  <2> HIDE DEF c, w
  <2> QED
    BY <1>1, <2>1, <2>2
<1>3. \A i \in 1 .. Len(w) : buf.data[c + i] = w[i]
  BY DEF ChunkInv, Holds
<1>4. w = Contents(bound, log[s].items[j])
  BY <1>1, SectionParts, ContentsAre
<1> HIDE DEF w, c
<1>5. Lies(c, w)
  BY <1>1, <1>2, <1>3 DEF Lies
<1> QED
  BY <1>4, <1>5 DEF c

\* The reader takes the item it has come to and comes to the next one.
LEMMA ReadItemKeeps ==
  ASSUME ChunkInv, ReadItem
  PROVE  /\ ChunkInv'
         /\ ~ overrun => Given(last'[1], last'[2], last'[3])
<1> DEFINE s == place[1]
           j == place[2] + 1
           it == log[s].items[j]
           r == Read(it, buf.cur)
           refused == it.k = "idseq" /\ ~ r.ok
<1>1. /\ status = "READ" /\ s # 0 /\ place[2] < Len(log[s].items)
      /\ buf' = [buf EXCEPT !.cur = r.cur]
      /\ last' = <<it, r.ok, r.v>>
      /\ place' = IF refused THEN <<0, 0>> ELSE <<s, j>>
      /\ UNCHANGED <<status, prev, dwSize, objectList, managerList, bound, wire, loading, log, overrun>>
  BY DEF ReadItem
<1>2. /\ s \in 1 .. Len(log) /\ place[2] \in 0 .. Len(log[s].items)
      /\ ~ overrun => buf.cur = At(bound, log, s, j)
  BY <1>1 DEF ChunkInv, ReaderPlaced
<1>3. log \in Sections
  BY DEF ChunkInv, ChunkTypes
<1>4. /\ Len(log[s].items) \in Nat
      /\ j \in 1 .. Len(log[s].items) /\ j \in 0 .. Len(log[s].items) /\ it \in ItemKinds
  <2>1. Len(log[s].items) \in Nat /\ \A i \in 1 .. Len(log[s].items) : log[s].items[i] \in ItemKinds
    BY <1>2, <1>3, SectionParts
  <2>2. j \in 1 .. Len(log[s].items) /\ j \in 0 .. Len(log[s].items)
    BY <1>1, <1>2, <2>1
  <2> HIDE DEF j
  <2> QED
    BY <2>1, <2>2
<1> HIDE DEF s, j, r, it
<1>5. buf' = [data |-> buf.data, cur |-> r.cur]
  BY <1>1 DEF ChunkInv, ChunkTypes
<1>6. ASSUME ~ overrun
      PROVE  /\ Given(it, r.ok, r.v)
             /\ ~ refused => r.cur = At(bound, log, s, j + 1)
  <2>1. Lies(buf.cur, Contents(bound, it))
    BY <1>1, <1>2, <1>4, <1>6, ItemLies DEF it
  <2>2. ChunkTypes
    BY DEF ChunkInv
  <2>3. ReadsBack(it, buf.cur)
    BY <1>4, <2>1, <2>2, ItemBack
  <2>4. At(bound, log, s, j + 1) = At(bound, log, s, j) + Len(ItemWords(bound, it))
    BY <1>2, <1>3, <1>4, AtNext DEF it
  <2>5. ItemWords(bound, it) = Contents(bound, it)
    BY <1>4, ContentsAre
  <2> QED
    BY <1>2, <1>6, <2>3, <2>4, <2>5 DEF ReadsBack, r
<1>7. ChunkTypes' /\ ListsLead'
  BY <1>1, <1>5 DEF ChunkInv, ChunkTypes, ListsLead
<1>8. Holds(buf.data, bound, log, ~ overrun, 0)'
  BY <1>1, <1>5 DEF ChunkInv
<1>9. Phases'
  BY <1>1, <1>5 DEF ChunkInv, Phases
<1>10. ReaderPlaced'
  <2>1. CASE refused
    BY <1>1, <2>1 DEF ReaderPlaced
  <2>2. CASE ~ refused
    <3>1. place' = <<s, j>> /\ place'[1] = s /\ place'[2] = j
      BY <1>1, <2>2
    <3>2. ~ overrun' => buf'.cur = At(bound, log, s, j + 1)
      BY <1>1, <1>5, <1>6, <2>2
    <3> QED
      BY <1>1, <1>2, <1>4, <3>1, <3>2 DEF ReaderPlaced
  <2> QED
    BY <2>1, <2>2
<1>11. last'[1] = it /\ last'[2] = r.ok /\ last'[3] = r.v
  BY <1>1
<1> QED
  BY <1>6, <1>7, <1>8, <1>9, <1>10, <1>11 DEF ChunkInv

-----------------------------------------------------------------------------
(* The theorems.                                                            *)

\* Only ReadItem changes what was read last, and no step ends an overrun.
LEMMA LastKept ==
  ASSUME ChunkInv, [Next]_vars
  PROVE  /\ overrun => overrun'
         /\ ReadItem \/ (bound' = bound /\ last' = last)
<1>1. CASE StartWrite
  BY <1>1 DEF StartWrite, clientVars
<1>2. CASE \E ident \in Ident : WriteIdentifierDword(ident)
  BY <1>2 DEF WriteIdentifierDword
<1>3. CASE \E it \in Item : WriteItem(it)
  BY <1>3 DEF WriteItem
<1>4. CASE StopWrite
  BY <1>4 DEF StopWrite, clientVars
<1>5. CASE ConvertToBuffer
  BY <1>5 DEF ConvertToBuffer, chunkVars, clientVars
<1>6. CASE ConvertFromBuffer
  BY <1>6, ConvertFromKeeps
<1>7. CASE StartRead
  BY <1>7 DEF StartRead, clientVars
<1>8. CASE \E ident \in Ident : Seek(ident)
  BY <1>8 DEF Seek
<1>9. CASE ReadItem
  BY <1>9 DEF ReadItem
<1>10. CASE StopRead
  BY <1>10 DEF StopRead
<1>11. CASE UNCHANGED vars
  BY <1>11 DEF vars, chunkVars, clientVars
<1> QED
  BY <1>1, <1>2, <1>3, <1>4, <1>5, <1>6, <1>7, <1>8, <1>9, <1>10, <1>11 DEF Next

LEMMA ChunkStutter ==
  ASSUME ChunkInv, UNCHANGED vars
  PROVE  ChunkInv'
<1>1. /\ status' = status /\ buf' = buf /\ prev' = prev /\ dwSize' = dwSize
      /\ objectList' = objectList /\ managerList' = managerList /\ bound' = bound
      /\ wire' = wire /\ loading' = loading /\ log' = log /\ place' = place /\ overrun' = overrun
  BY DEF vars, chunkVars, clientVars
<1>2. ChunkTypes' /\ ListsLead'
  BY <1>1 DEF ChunkInv, ChunkTypes, ListsLead
<1>3. Holds(buf.data, bound, log, ~ overrun, 0)'
  BY <1>1 DEF ChunkInv
<1>4. Phases'
  BY <1>1 DEF ChunkInv, Phases, Carried
<1>5. ReaderPlaced'
  BY <1>1 DEF ChunkInv, ReaderPlaced
<1> QED
  BY <1>2, <1>3, <1>4, <1>5 DEF ChunkInv

LEMMA ChunkNext ==
  ASSUME ChunkInv, [Next]_vars
  PROVE  ChunkInv'
<1>1. CASE StartWrite
  BY <1>1, StartWriteKeeps
<1>2. ASSUME NEW ident \in Ident, WriteIdentifierDword(ident)
      PROVE  ChunkInv'
  BY <1>2, WriteIdentifierKeeps
<1>3. ASSUME NEW it \in Item, WriteItem(it)
      PROVE  ChunkInv'
  BY <1>3, WriteItemKeeps
<1>4. CASE StopWrite
  BY <1>4, StopWriteKeeps
<1>5. CASE ConvertToBuffer
  BY <1>5, ConvertToKeeps
<1>6. CASE ConvertFromBuffer
  BY <1>6, ConvertFromKeeps
<1>7. CASE StartRead
  BY <1>7, StartReadKeeps
<1>8. ASSUME NEW ident \in Ident, Seek(ident)
      PROVE  ChunkInv'
  BY <1>8, SeekKeeps
<1>9. CASE ReadItem
  BY <1>9, ReadItemKeeps
<1>10. CASE StopRead
  BY <1>10, StopReadKeeps
<1>11. CASE UNCHANGED vars
  BY <1>11, ChunkStutter
<1> QED
  BY <1>1, <1>2, <1>3, <1>4, <1>5, <1>6, <1>7, <1>8, <1>9, <1>10, <1>11 DEF Next

\* The buffer, the lists and the position of the reader agree with what was
\* written, through the growth and the shrinking of the buffer, the way through
\* the file, and every order of seeking and reading.
THEOREM ChunkInvariant == Spec => []ChunkInv
<1>1. ChunkInv /\ [Next]_vars => ChunkInv'
  BY ChunkNext
<1> QED
  BY <1>1, ChunkInit, PTL DEF Spec

LEMMA SectionsFound ==
  ASSUME ChunkInv, ~ overrun
  PROVE  SectionsKept
<1>1. log \in Sections /\ Len(log) \in Nat /\ DOMAIN log = 1 .. Len(log) /\ ChunkTypes
  BY LengthOf DEF ChunkInv, ChunkTypes
<1>2. ASSUME NEW s \in DOMAIN log
      PROVE  /\ buf.data[Start(s) + 1] = log[s].ident
             /\ buf.data[Start(s) + 2] = IF s = Len(log) THEN 0 ELSE Start(s + 1)
             /\ \A j \in DOMAIN log[s].items :
                  LET ws == ItemWords(bound, log[s].items[j])
                  IN SubSeq(buf.data, ItemStart(s, j) + 1, ItemStart(s, j) + Len(ws)) = ws
  <2>1. s \in 1 .. Len(log) /\ DOMAIN log[s].items = 1 .. Len(log[s].items)
    BY <1>1, SectionParts
  <2>2. /\ buf.data[HeadAt(bound, log, s) + 1] = log[s].ident
        /\ buf.data[HeadAt(bound, log, s) + 2] = IF s = Len(log) THEN 0 ELSE HeadAt(bound, log, s + 1)
    BY <2>1 DEF ChunkInv, Holds
  <2>3. ASSUME NEW j \in DOMAIN log[s].items
        PROVE  LET ws == ItemWords(bound, log[s].items[j])
               IN SubSeq(buf.data, ItemStart(s, j) + 1, ItemStart(s, j) + Len(ws)) = ws
    <3> DEFINE w == ItemWords(bound, log[s].items[j])
               c == At(bound, log, s, j)
    <3>1. w = Contents(bound, log[s].items[j])
      BY <1>1, <2>1, SectionParts, ContentsAre
    <3>2. Lies(c, w)
      BY <2>1, <3>1, ItemLies
    <3>3. c = ItemStart(s, j)
      BY ItemStartIs
    <3> HIDE DEF c, w
    <3>4. ReadWords(c, Len(w)) = Took(TRUE, w, c + Len(w))
      BY <1>1, <3>2, WordsTaken
    <3>5. ReadWords(c, Len(w)) = Took(TRUE, SubSeq(buf.data, c + 1, c + Len(w)), c + Len(w))
      BY <3>2 DEF Lies, ReadWords, EnsureReadSpace
    <3>6. SubSeq(buf.data, c + 1, c + Len(w)) = w
      BY <3>4, <3>5 DEF Took
    <3> QED
      BY <3>3, <3>6 DEF w
  <2> QED
    BY <2>2, <2>3, ItemStartIs
<1>3. /\ status = "WRITE" => buf.cur = End
      /\ status # "WRITE" => Len(buf.data) = End /\ dwSize = End
  BY ItemStartIs DEF ChunkInv, Phases
<1> QED
  BY <1>2, <1>3 DEF SectionsKept

\* As long as no write went past a locked buffer, everything written is in its
\* place, linked to the next section, and the finished chunk holds nothing else.
THEOREM SectionsAreKept == Spec => [](ReserveCovers => SectionsKept)
<1>1. ChunkInv => (ReserveCovers => SectionsKept)
  BY SectionsFound DEF ReserveCovers
<1> QED
  BY <1>1, ChunkInvariant, PTL

\* SeekIdentifierDword finds a section exactly when one of that name was
\* written, and then the first of them, even after an overrun.
THEOREM SeekIsExact == Spec => []SeekFinds
<1>1. ChunkInv => SeekFinds
  <2> SUFFICES ASSUME ChunkInv, status = "READ", NEW ident \in Ident
               PROVE  IF SectionsOf(ident) = {} THEN Matches(buf.data, ident) = {}
                      ELSE /\ Matches(buf.data, ident) # {}
                           /\ FirstMatch(buf.data, ident) =
                                Start(CHOOSE s \in SectionsOf(ident) : \A t \in SectionsOf(ident) : s <= t)
    BY DEF SeekFinds
  <2>1. Start(First(ident)) = HeadAt(bound, log, First(ident))
    BY ItemStartIs
  <2> QED
    BY <2>1, Found DEF First
<1> QED
  BY <1>1, ChunkInvariant, PTL

\* As long as no write went past a locked buffer, each reading call gives back
\* what the writing call at that place was given, references renumbered.
THEOREM ItemsReadBack == Spec => [](ReserveCovers => ReadBack)
<1> DEFINE BackInv == ChunkInv /\ (~ overrun => ReadBack)
<1>1. Init => BackInv
  BY ChunkInit DEF Init, ReadBack
<1>2. BackInv /\ [Next]_vars => BackInv'
  <2> SUFFICES ASSUME ChunkInv, ~ overrun => ReadBack, [Next]_vars, ~ overrun'
               PROVE  ReadBack'
    BY ChunkNext
  <2>1. ~ overrun
    BY LastKept
  <2>2. CASE ReadItem
    <3>1. Given(last'[1], last'[2], last'[3]) /\ bound' = bound
      BY <2>1, <2>2, ReadItemKeeps DEF ReadItem
    <3>2. Given(last[1], last[2], last[3])'
      BY <3>1 DEF Given, Renumbered, Known
    <3> QED
      BY <3>2, ReadBackIs, PTL
  <2>3. CASE bound' = bound /\ last' = last
    <3>1. last' # <<>> => Given(last'[1], last'[2], last'[3])
      BY <2>1, <2>3, ReadBackIs
    <3>2. (last # <<>> => Given(last[1], last[2], last[3]))'
      BY <2>3, <3>1 DEF Given, Renumbered, Known
    <3> QED
      BY <3>2, ReadBackIs, PTL
  <2> QED
    BY <2>2, <2>3, LastKept
<1>3. BackInv => (ReserveCovers => ReadBack)
  BY DEF ReserveCovers
<1> QED
  BY <1>1, <1>2, <1>3, PTL DEF Spec

\* The number of a sequence comes before its values.
LEMMA NumberFirst ==
  ASSUME NEW it \in ItemKinds, it.k \in {"ids", "idseq", "mans"}, NEW f
  PROVE  /\ ItemWords(f, it)[1] = Len(it.v) /\ 1 \in 1 .. Len(ItemWords(f, it))
         /\ Len(it.v) \in Nat /\ (it.v = <<>> <=> Len(it.v) = 0)
<1> DEFINE n == Len(it.v)
           rest == IF it.k = "mans" THEN Guid \o it.v ELSE References(f, it.v)
           w == ItemWords(f, it)
<1>1. n \in Nat /\ (it.v = <<>> <=> n = 0)
  <2>1. it.v \in Seq(Nat) \/ it.v \in Seq(Int)
    BY ItemType
  <2> QED
    BY <2>1, LenProperties, EmptySeq
<1>2. rest \in Seq(Int)
  <2>1. CASE it.k = "mans"
    <3>1. it.v \in Seq(Int) /\ Guid \in Seq(Int)
      BY <2>1, ItemType DEF Guid
    <3>2. Guid \o it.v \in Seq(Int)
      BY <3>1, JoinedIs
    <3> QED
      BY <2>1, <3>2
  <2>2. CASE it.k # "mans"
    BY <2>2, ItemType, ReferencesType
  <2> QED
    BY <2>1, <2>2
<1>3. w = <<n>> \o rest
  BY ContentsAre DEF Contents
<1> HIDE DEF n, rest
<1>4. Joined(<<n>> \o rest, <<n>>, rest)
  <2>1. <<n>> \in Seq(Int)
    BY <1>1
  <2> QED
    BY <1>2, <2>1, JoinedIs
<1> HIDE DEF w
<1>5. Len(<<n>>) = 1 /\ <<n>>[1] = n
  OBVIOUS
<1>6. w[1] = n /\ Len(w) = 1 + Len(rest) /\ Len(rest) \in Nat
  BY <1>2, <1>3, <1>4, <1>5, LenProperties DEF Joined
<1> QED
  BY <1>1, <1>6 DEF n, w

\* What an entry of a list stands for, and what an item asks of a list.
Entry(list, i, gap) ==
  IF list[i] = -1 THEN {}
  ELSE IF Announced(list, i)
    THEN (list[i] + 1 + gap) .. (list[i] + gap + buf.data[list[i] + 1])
    ELSE {list[i] + gap}

Values(it, at, one, many, gap) ==
  CASE it.k = one    -> {at + gap}
    [] it.k \in many -> (at + 1 + gap) .. (at + gap + Len(it.v))
    [] OTHER         -> {}

LEMMA ListLeads ==
  ASSUME ChunkInv, NEW list, NEW one, NEW many \in SUBSET {"ids", "idseq", "mans"}, one \notin many,
         NEW gap \in Nat, Leads(list, bound, log, one, many)
  PROVE  Listed(list, gap) = Positions(one, many, gap)
<1> DEFINE Thing(s, j) == log[s].items[j]
           Place(s, j) == At(bound, log, s, j)
<1>1. log \in Sections /\ DOMAIN log = 1 .. Len(log)
  BY LengthOf DEF ChunkInv, ChunkTypes
<1>2. \A s \in 1 .. Len(log) : DOMAIN log[s].items = 1 .. Len(log[s].items)
  BY <1>1, SectionParts
<1>3. list \in Seq(Int) /\ DOMAIN list = 1 .. Len(list)
  BY LenProperties DEF Leads
<1>4. ASSUME NEW s \in 1 .. Len(log), NEW j \in 1 .. Len(log[s].items)
      PROVE  /\ Thing(s, j).k = one => Values(Thing(s, j), Place(s, j), one, many, gap) = {Place(s, j) + gap}
             /\ Thing(s, j).k \in many =>
                  /\ Values(Thing(s, j), Place(s, j), one, many, gap) =
                       (Place(s, j) + 1 + gap) .. (Place(s, j) + gap + buf.data[Place(s, j) + 1])
                  /\ Thing(s, j).v = <<>> => Values(Thing(s, j), Place(s, j), one, many, gap) = {}
             /\ Thing(s, j).k # one /\ Thing(s, j).k \notin many =>
                  Values(Thing(s, j), Place(s, j), one, many, gap) = {}
             /\ Place(s, j) # -1
  <2> DEFINE it == log[s].items[j]
             c == At(bound, log, s, j)
  <2>1. c \in Nat /\ it \in ItemKinds
    BY <1>1, ItemInside, SectionParts
  <2>2. it.k \in many => Len(it.v) \in Nat /\ (it.v = <<>> <=> Len(it.v) = 0) /\ buf.data[c + 1] = Len(it.v)
    <3> SUFFICES ASSUME it.k \in many
                 PROVE  Len(it.v) \in Nat /\ (it.v = <<>> <=> Len(it.v) = 0) /\ buf.data[c + 1] = Len(it.v)
      OBVIOUS
    <3>1. it.k # "vtx"
      OBVIOUS
    <3>2. \A i \in 1 .. Len(ItemWords(bound, it)) : buf.data[c + i] = ItemWords(bound, it)[i]
      BY <3>1 DEF ChunkInv, Holds
    <3>3. /\ ItemWords(bound, it)[1] = Len(it.v) /\ 1 \in 1 .. Len(ItemWords(bound, it))
          /\ Len(it.v) \in Nat /\ (it.v = <<>> <=> Len(it.v) = 0)
      BY <2>1, NumberFirst
    <3> QED
      BY <3>2, <3>3
  <2> HIDE DEF it, c
  <2>3. it.k = one => Values(it, c, one, many, gap) = {c + gap}
    BY DEF Values
  <2>4. it.k \in many => Values(it, c, one, many, gap) = (c + 1 + gap) .. (c + gap + Len(it.v))
    BY DEF Values
  <2>5. it.k # one /\ it.k \notin many => Values(it, c, one, many, gap) = {}
    BY DEF Values
  <2>6. it.k \in many /\ it.v = <<>> => (c + 1 + gap) .. (c + gap + Len(it.v)) = {}
    BY <2>1, <2>2
  <2> QED
    BY <2>1, <2>2, <2>3, <2>4, <2>5, <2>6 DEF it, c
<1>5. Listed(list, gap) = UNION {Entry(list, i, gap) : i \in 1 .. Len(list)}
  BY <1>3 DEF Listed, Entry, Announced
<1>6. Positions(one, many, gap) =
        UNION {UNION {Values(Thing(s, j), Place(s, j), one, many, gap) : j \in 1 .. Len(log[s].items)} :
               s \in 1 .. Len(log)}
  BY <1>1, <1>2, ItemStartIs DEF Positions, Values
<1>7. ASSUME NEW i \in 1 .. Len(list), NEW p \in Entry(list, i, gap)
      PROVE  \E s \in 1 .. Len(log) : \E j \in 1 .. Len(log[s].items) :
               p \in Values(Thing(s, j), Place(s, j), one, many, gap)
  <2>1. list[i] # -1
    BY <1>7 DEF Entry
  <2>2. PICK s \in 1 .. Len(log) : \E j \in 1 .. Len(log[s].items) :
               list[i] = Place(s, j) /\ Thing(s, j).k \in (IF Announced(list, i) THEN many ELSE {one})
    BY <2>1 DEF Leads
  <2>3. PICK j \in 1 .. Len(log[s].items) :
               list[i] = Place(s, j) /\ Thing(s, j).k \in (IF Announced(list, i) THEN many ELSE {one})
    BY <2>2
  <2> HIDE DEF Thing, Place
  <2>4. Entry(list, i, gap) = Values(Thing(s, j), Place(s, j), one, many, gap)
    BY <1>4, <2>1, <2>3 DEF Entry
  <2> QED
    BY <1>7, <2>4
<1>8. ASSUME NEW s \in 1 .. Len(log), NEW j \in 1 .. Len(log[s].items),
             NEW p \in Values(Thing(s, j), Place(s, j), one, many, gap)
      PROVE  \E i \in 1 .. Len(list) : p \in Entry(list, i, gap)
  <2>1. /\ Thing(s, j).k = one =>
             \E i \in 1 .. Len(list) : list[i] = Place(s, j) /\ ~ Announced(list, i)
        /\ Thing(s, j).k \in many /\ Thing(s, j).v # <<>> =>
             \E i \in 1 .. Len(list) : list[i] = Place(s, j) /\ Announced(list, i)
    BY DEF Leads
  <2> HIDE DEF Thing, Place
  <2>2. CASE Thing(s, j).k = one
    <3>1. PICK i \in 1 .. Len(list) : list[i] = Place(s, j) /\ ~ Announced(list, i)
      BY <2>1, <2>2
    <3>2. Entry(list, i, gap) = Values(Thing(s, j), Place(s, j), one, many, gap)
      BY <1>4, <2>2, <3>1 DEF Entry
    <3> QED
      BY <1>8, <3>2
  <2>3. CASE Thing(s, j).k \in many
    <3>1. Thing(s, j).v # <<>>
      BY <1>4, <1>8, <2>3
    <3>2. PICK i \in 1 .. Len(list) : list[i] = Place(s, j) /\ Announced(list, i)
      BY <2>1, <2>3, <3>1
    <3>3. Entry(list, i, gap) = Values(Thing(s, j), Place(s, j), one, many, gap)
      BY <1>4, <2>3, <3>2 DEF Entry
    <3> QED
      BY <1>8, <3>3
  <2>4. CASE Thing(s, j).k # one /\ Thing(s, j).k \notin many
    BY <1>4, <1>8, <2>4
  <2> QED
    BY <2>2, <2>3, <2>4
<1> HIDE DEF Thing, Place
<1>9. \A p : p \in Listed(list, gap) <=> p \in Positions(one, many, gap)
  BY <1>5, <1>6, <1>7, <1>8
<1> QED
  BY <1>9

\* The object list of a chunk without a file leads to every reference and to
\* nothing else, that of a chunk of a file is empty, and the manager list leads
\* to every manager integer, even after an overrun.
THEOREM ReferencesAreListed == Spec => []ReferencesListed
<1>1. ChunkInv => ReferencesListed
  <2> SUFFICES ASSUME ChunkInv
               PROVE  ReferencesListed
    OBVIOUS
  <2>1. Listed(managerList, 2) = Positions("man", {"mans"}, 2)
    BY ListLeads DEF ChunkInv, ListsLead
  <2>2. CASE bound
    <3>1. objectList = <<>>
      BY <2>2 DEF ChunkInv, ListsLead
    <3>2. Listed(objectList, 0) = {}
      BY <3>1 DEF Listed
    <3> QED
      BY <2>1, <2>2, <3>2 DEF ReferencesListed
  <2>3. CASE ~ bound
    <3>1. Listed(objectList, 0) = Positions("id", {"ids", "idseq"}, 0)
      BY <2>3, ListLeads DEF ChunkInv, ListsLead
    <3> QED
      BY <2>1, <2>3, <3>1 DEF ReferencesListed
  <2> QED
    BY <2>2, <2>3
<1> QED
  BY <1>1, ChunkInvariant, PTL

\* When no block of vertices is longer than what CKMesh::Save reserves for it,
\* no write goes past a locked buffer, so everything is kept and read back
\* without a condition; ReserveCovers fails only for blocks that are longer.
THEOREM ReservationSuffices ==
  ASSUME \A it \in Item : it.k = "vtx" => Len(VertexBlock(it.n, it.mask)) <= Reserved(it.n)
  PROVE  Spec => [](SectionsKept /\ ReadBack)
<1>1. Init => ReserveCovers
  BY DEF Init, ReserveCovers
<1>2. ChunkInv /\ ReserveCovers /\ [Next]_vars => ReserveCovers'
  <2> SUFFICES ASSUME ChunkInv, ~ overrun, [Next]_vars
               PROVE  ~ overrun'
    BY DEF ReserveCovers
  <2>1. ASSUME NEW it \in Item, WriteItem(it)
        PROVE  ~ overrun'
    <3>1. buf \in Buffer /\ it \in ItemKinds
      BY <2>1, ChunkAssumption DEF WriteItem, ChunkInv, Phases
    <3>2. CASE it.k = "vtx"
      <4>1. ~ WithVertices(buf, it).beyond
        BY <3>1, <3>2, VerticesWritten
      <4> QED
        BY <2>1, <3>2, <4>1 DEF WriteItem
    <3>3. CASE it.k # "vtx"
      BY <2>1, <3>3 DEF WriteItem
    <3> QED
      BY <3>2, <3>3
  <2>2. CASE ~ (\E it \in Item : WriteItem(it))
    <3>1. StartWrite \/ StopWrite \/ ConvertToBuffer \/ StartRead \/ UNCHANGED vars => overrun' = overrun
      BY DEF StartWrite, StopWrite, ConvertToBuffer, StartRead, vars
    <3>2. ConvertFromBuffer \/ ReadItem \/ StopRead => overrun' = overrun
      BY DEF ConvertFromBuffer, ReadItem, StopRead
    <3>3. \A ident : WriteIdentifierDword(ident) \/ Seek(ident) => overrun' = overrun
      BY DEF WriteIdentifierDword, Seek
    <3> QED
      BY <2>2, <3>1, <3>2, <3>3 DEF Next
  <2> QED
    BY <2>1, <2>2
<1> QED
  BY <1>1, <1>2, ChunkInvariant, SectionsAreKept, ItemsReadBack, PTL DEF Spec
=============================================================================
