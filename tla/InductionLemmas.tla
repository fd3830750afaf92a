-------------------------- MODULE InductionLemmas --------------------------
(***************************************************************************)
(* Induction on the natural numbers with a set for the predicate, and      *)
(* recursion with a function for the step: the theorems of the library     *)
(* take operators, these can be cited.  With them, what the recursion in   *)
(* FlattenSeq and in the folds of the community modules computes.          *)
(***************************************************************************)
EXTENDS Integers, SequencesExt, SequenceTheorems, FiniteSetTheorems, WellFoundedInduction, TLAPS

LEMMA Least ==
  ASSUME NEW S \in SUBSET Nat, S # {}
  PROVE  \E m \in S : \A n \in S : m <= n
<1> DEFINE R == OpToRel(<, Nat)
<1>1. IsWellFoundedOn(R, Nat)
  BY NatLessThanWellFounded
<1>2. \A x, y \in Nat : x < y => <<x, y>> \in R
  BY DEF OpToRel
<1> HIDE DEF R
<1>3. PICK m \in S : \A n \in S : ~ (<<n, m>> \in R)
  BY <1>1, WFMin
<1>4. \A n \in S : ~ (n < m)
  BY <1>2, <1>3
<1> QED
  BY <1>4

LEMMA Induction ==
  ASSUME NEW S \in SUBSET Nat, 0 \in S, \A n \in S : n + 1 \in S
  PROVE  S = Nat
<1>1. SUFFICES ASSUME Nat \ S # {}
               PROVE  FALSE
  OBVIOUS
<1>2. PICK m \in Nat \ S : \A n \in Nat \ S : m <= n
  BY <1>1, Least
<1>3. m - 1 \in Nat
  OBVIOUS
<1>4. m - 1 \in S
  BY <1>2, <1>3
<1> QED
  BY <1>4

\* A function that starts with `first` and goes on by `step` ...
Recurs(f, first, n, step) == f[0] = first /\ \A i \in 1 .. n : f[i] = step[i][f[i - 1]]

\* ... exists, in every set the step does not leave.
LEMMA Recursion ==
  ASSUME NEW S, NEW first \in S, NEW n \in Nat, NEW step \in [1 .. n -> [S -> S]]
  PROVE  \E f \in [0 .. n -> S] : Recurs(f, first, n, step)
<1> DEFINE M == {m \in Nat : m <= n => \E f \in [0 .. m -> S] : Recurs(f, first, m, step)}
<1>1. 0 \in M
  <2> DEFINE f == [i \in 0 .. 0 |-> first]
  <2>1. f \in [0 .. 0 -> S] /\ Recurs(f, first, 0, step)
    BY DEF Recurs
  <2> QED
    BY <2>1
<1>2. ASSUME NEW m \in M
      PROVE  m + 1 \in M
  <2> SUFFICES ASSUME m + 1 <= n
               PROVE  \E f \in [0 .. m + 1 -> S] : Recurs(f, first, m + 1, step)
    OBVIOUS
  <2>1. PICK g \in [0 .. m -> S] : Recurs(g, first, m, step)
    OBVIOUS
  <2> DEFINE next == step[m + 1][g[m]]
             f == [i \in 0 .. m + 1 |-> IF i = m + 1 THEN next ELSE g[i]]
  <2>2. next \in S
    BY <2>1
  <2>3. /\ f \in [0 .. m + 1 -> S] /\ f[m + 1] = next
        /\ \A i \in 0 .. m : f[i] = g[i]
    <3> HIDE DEF next
    <3> QED
      BY <2>2
  <2> HIDE DEF f
  <2>4. ASSUME NEW i \in 1 .. m + 1
        PROVE  f[i] = step[i][f[i - 1]]
    <3>1. CASE i = m + 1
      <4>1. f[i - 1] = g[m]
        BY <2>3, <3>1
      <4> QED
        BY <2>3, <3>1, <4>1
    <3>2. CASE i # m + 1
      <4>1. i \in 1 .. m /\ i \in 0 .. m /\ i - 1 \in 0 .. m
        BY <3>2
      <4> QED
        BY <2>1, <2>3, <4>1 DEF Recurs
    <3> QED
      BY <3>1, <3>2
  <2>5. f[0] = first
    BY <2>1, <2>3 DEF Recurs
  <2> QED
    BY <2>3, <2>4, <2>5 DEF Recurs
<1> HIDE DEF M
<1>3. M = Nat
  <2>1. M \in SUBSET Nat
    BY DEF M
  <2> QED
    BY <1>1, <1>2, <2>1, Induction
<1>4. n \in M
  BY <1>3
<1> QED
  BY <1>4 DEF M

-----------------------------------------------------------------------------
(* FlattenSeq goes from one sequence to the next.                           *)

Joins(f, seqs, n) ==
  /\ f[0] = <<>> /\ f[n] = FlattenSeq(seqs)
  /\ \A m \in Nat : m < n => f[m + 1] = f[m] \o seqs[m + 1]

LEMMA Flattening ==
  ASSUME NEW T, NEW n \in Nat, NEW seqs \in [1 .. n -> Seq(T)]
  PROVE  \E f \in [0 .. n -> Seq(T)] : Joins(f, seqs, n)
<1> DEFINE step == [i \in 1 .. n |-> [s \in Seq(T) |-> s \o seqs[i]]]
           Walk(f) == [i \in 1 .. Len(seqs) |-> IF i = 1 THEN seqs[i] ELSE f[i - 1] \o seqs[i]]
           flatten == CHOOSE f : f = Walk(f)
<1>1. <<>> \in Seq(T) /\ step \in [1 .. n -> [Seq(T) -> Seq(T)]]
  BY ConcatProperties, EmptySeq
<1>2. \A i \in 1 .. n, s \in Seq(T) : step[i][s] = s \o seqs[i]
  OBVIOUS
<1>3. Len(seqs) = n /\ DOMAIN seqs = 1 .. n
  OBVIOUS
<1> HIDE DEF step
<1>4. PICK g \in [0 .. n -> Seq(T)] : Recurs(g, <<>>, n, step)
  BY <1>1, Recursion
<1>5. /\ g[0] = <<>>
      /\ \A i \in 1 .. n : i - 1 \in 0 .. n /\ g[i - 1] \in Seq(T) /\ g[i] = g[i - 1] \o seqs[i]
      /\ \A m \in Nat : m < n => g[m + 1] = g[m] \o seqs[m + 1]
  <2>1. \A i \in 1 .. n : i - 1 \in 0 .. n
    OBVIOUS
  <2>2. \A i \in 1 .. n : g[i - 1] \in Seq(T)
    BY <2>1
  <2>3. g[0] = <<>> /\ \A i \in 1 .. n : g[i] = step[i][g[i - 1]]
    BY <1>4 DEF Recurs
  <2>4. \A i \in 1 .. n : g[i] = g[i - 1] \o seqs[i]
    BY <1>2, <2>2, <2>3
  <2>5. ASSUME NEW m \in Nat, m < n
        PROVE  g[m + 1] = g[m] \o seqs[m + 1]
    <3> DEFINE i == m + 1
    <3>1. i \in 1 .. n /\ i - 1 = m
      BY <2>5
    <3> HIDE DEF i
    <3>2. g[i] = g[m] \o seqs[i]
      BY <2>4, <3>1
    <3> QED
      BY <3>2 DEF i
  <2> QED
    BY <2>1, <2>2, <2>3, <2>4, <2>5
<1>6. flatten = Walk(flatten)
  <2> DEFINE f == [i \in 1 .. n |-> g[i]]
  <2>1. ASSUME NEW i \in 1 .. n
        PROVE  f[i] = IF i = 1 THEN seqs[i] ELSE f[i - 1] \o seqs[i]
    <3>1. f[i] = g[i - 1] \o seqs[i]
      BY <1>5
    <3>2. CASE i = 1
      <4>1. <<>> \o seqs[1] = seqs[1]
        BY <3>2, ConcatEmptySeq
      <4>2. g[i - 1] = <<>>
        BY <1>5, <3>2
      <4> HIDE DEF f
      <4> QED
        BY <3>1, <3>2, <4>1, <4>2
    <3>3. CASE i # 1
      <4>1. i - 1 \in 1 .. n
        BY <3>3
      <4> QED
        BY <3>1, <3>3, <4>1
    <3> QED
      BY <3>2, <3>3
  <2>2. f = [i \in 1 .. n |-> f[i]]
    OBVIOUS
  <2> HIDE DEF f
  <2>3. f = Walk(f)
    BY <1>3, <2>1, <2>2
  <2> HIDE DEF Walk
  <2> QED
    BY <2>3
<1>7. \A i \in 1 .. n : flatten[i] = IF i = 1 THEN seqs[i] ELSE flatten[i - 1] \o seqs[i]
  <2> HIDE DEF flatten
  <2> QED
    BY <1>3, <1>6
<1>8. FlattenSeq(seqs) = IF n = 0 THEN seqs ELSE flatten[n]
  BY <1>3 DEF FlattenSeq
<1> HIDE DEF flatten, Walk
<1> DEFINE M == {m \in Nat : m <= n /\ m # 0 => flatten[m] = g[m]}
<1>9. 0 \in M
  OBVIOUS
<1>10. ASSUME NEW m \in M
       PROVE  m + 1 \in M
  <2> SUFFICES ASSUME m + 1 <= n
               PROVE  flatten[m + 1] = g[m + 1]
    OBVIOUS
  <2>1. m \in Nat /\ m + 1 \in 1 .. n /\ m + 1 - 1 = m
    OBVIOUS
  <2>2. g[m + 1] = g[m] \o seqs[m + 1]
    <3>1. m < n
      BY <2>1
    <3> QED
      BY <1>5, <2>1, <3>1
  <2>3. flatten[m + 1] = IF m + 1 = 1 THEN seqs[m + 1] ELSE flatten[m] \o seqs[m + 1]
    BY <1>7, <2>1
  <2>4. CASE m = 0
    <3>1. m + 1 = 1 /\ 1 \in 1 .. n
      BY <2>1, <2>4
    <3>2. <<>> \o seqs[1] = seqs[1]
      BY <3>1, ConcatEmptySeq
    <3> QED
      BY <1>5, <2>2, <2>3, <2>4, <3>1, <3>2
  <2>5. CASE m # 0
    <3>1. m + 1 # 1 /\ flatten[m] = g[m]
      BY <2>1, <2>5
    <3> QED
      BY <2>2, <2>3, <3>1
  <2> QED
    BY <2>4, <2>5
<1> HIDE DEF M
<1>11. M = Nat
  <2>1. M \in SUBSET Nat
    BY DEF M
  <2> QED
    BY <1>9, <1>10, <2>1, Induction
<1>12. n # 0 => flatten[n] = g[n]
  <2>1. n \in M
    BY <1>11
  <2> QED
    BY <2>1 DEF M
<1>13. n = 0 => seqs = <<>>
  OBVIOUS
<1>14. g[n] = FlattenSeq(seqs)
  BY <1>5, <1>8, <1>12, <1>13
<1> QED
  BY <1>5, <1>14 DEF Joins

LEMMA FlattenCons ==
  ASSUME NEW T, NEW a \in Seq(T), NEW rest \in Seq(Seq(T))
  PROVE  FlattenSeq(<<a>> \o rest) = a \o FlattenSeq(rest)
<1> DEFINE n == Len(rest)
           seqs == <<a>> \o rest
<1>1. n \in Nat /\ rest \in [1 .. n -> Seq(T)]
  BY LenProperties
<1>2. /\ seqs \in [1 .. n + 1 -> Seq(T)] /\ seqs[1] = a
      /\ \A m \in 1 .. n : seqs[m + 1] = rest[m]
  <2>1. <<a>> \in Seq(Seq(T)) /\ Len(<<a>>) = 1 /\ <<a>>[1] = a
    OBVIOUS
  <2>2. /\ seqs \in Seq(Seq(T)) /\ Len(seqs) = 1 + n
        /\ \A i \in 1 .. 1 + n : seqs[i] = IF i <= 1 THEN <<a>>[i] ELSE rest[i - 1]
    BY <2>1, ConcatProperties
  <2> HIDE DEF seqs, n
  <2>3. seqs[1] = a
    BY <1>1, <2>1, <2>2
  <2>4. ASSUME NEW m \in 1 .. n
        PROVE  seqs[m + 1] = rest[m]
    <3>1. m + 1 \in 1 .. 1 + n /\ ~ (m + 1 <= 1) /\ m + 1 - 1 = m
      BY <1>1
    <3> QED
      BY <2>2, <3>1
  <2>5. 1 + n = n + 1
    BY <1>1
  <2>6. seqs \in [1 .. n + 1 -> Seq(T)]
    BY <2>2, <2>5, LenProperties
  <2> QED
    BY <2>3, <2>4, <2>6
<1> HIDE DEF seqs, n
<1>3. PICK f \in [0 .. n -> Seq(T)] : Joins(f, rest, n)
  BY <1>1, Flattening
<1>4. PICK g \in [0 .. n + 1 -> Seq(T)] : Joins(g, seqs, n + 1)
  <2>1. n + 1 \in Nat
    BY <1>1
  <2> QED
    BY <1>2, <2>1, Flattening
<1> DEFINE M == {m \in Nat : m <= n => g[m + 1] = a \o f[m]}
<1>5. 0 \in M
  <2>1. g[0 + 1] = g[0] \o seqs[0 + 1] /\ g[0] = <<>> /\ f[0] = <<>>
    <3>1. 0 \in Nat /\ 0 < n + 1
      BY <1>1
    <3> HIDE DEF M
    <3> QED
      BY <1>3, <1>4, <3>1 DEF Joins
  <2>2. <<>> \o a = a /\ a \o <<>> = a
    BY ConcatEmptySeq
  <2> QED
    BY <1>2, <2>1, <2>2
<1>6. ASSUME NEW m \in M
      PROVE  m + 1 \in M
  <2> SUFFICES ASSUME m + 1 <= n
               PROVE  g[(m + 1) + 1] = a \o f[m + 1]
    OBVIOUS
  <2>1. m \in Nat /\ m < n /\ m + 1 < n + 1 /\ m + 1 \in Nat /\ m + 1 \in 1 .. n /\ m \in 0 .. n
    BY <1>1
  <2>2. g[(m + 1) + 1] = g[m + 1] \o seqs[(m + 1) + 1]
    BY <1>4, <2>1 DEF Joins
  <2>3. f[m + 1] = f[m] \o rest[m + 1]
    BY <1>3, <2>1 DEF Joins
  <2>4. g[m + 1] = a \o f[m] /\ seqs[(m + 1) + 1] = rest[m + 1]
    BY <1>2, <2>1
  <2>5. f[m] \in Seq(T) /\ rest[m + 1] \in Seq(T)
    BY <1>1, <2>1
  <2>6. (a \o f[m]) \o rest[m + 1] = a \o (f[m] \o rest[m + 1])
    <3> DEFINE b == f[m]
               c == rest[m + 1]
    <3>1. b \in Seq(T) /\ c \in Seq(T)
      BY <2>5
    <3> HIDE DEF b, c, M
    <3>2. (a \o b) \o c = a \o (b \o c)
      BY <3>1, ConcatAssociative
    <3> QED
      BY <3>2 DEF b, c
  <2> QED
    BY <2>2, <2>3, <2>4, <2>6
<1> HIDE DEF M
<1>7. M = Nat
  <2>1. M \in SUBSET Nat
    BY DEF M
  <2> QED
    BY <1>5, <1>6, <2>1, Induction
<1>8. g[n + 1] = a \o f[n]
  <2>1. n \in M
    BY <1>1, <1>7
  <2> QED
    BY <2>1 DEF M
<1> QED
  BY <1>3, <1>4, <1>8 DEF Joins, seqs

LEMMA FlattenEmpty == FlattenSeq(<<>>) = <<>>
<1>1. <<>> \in [1 .. 0 -> Seq({})]
  OBVIOUS
<1>2. PICK f \in [0 .. 0 -> Seq({})] : Joins(f, <<>>, 0)
  BY <1>1, Flattening
<1> QED
  BY <1>2 DEF Joins

LEMMA FlattenOne ==
  ASSUME NEW T, NEW a \in Seq(T)
  PROVE  FlattenSeq(<<a>>) = a
<1>1. <<>> \in Seq(Seq(T)) /\ <<a>> \in Seq(Seq(T))
  BY EmptySeq
<1>2. <<a>> \o <<>> = <<a>> /\ a \o <<>> = a
  BY <1>1, ConcatEmptySeq
<1> QED
  BY <1>1, <1>2, FlattenCons, FlattenEmpty
-----------------------------------------------------------------------------
(* The folds of the community modules recur over the subsets of a set, from  *)
(* which they take one element after another.                                *)

\* What a fold does with the values of `step`: `pick` names the element that
\* is taken from a subset of D.
FoldsSet(g, first, D, pick, step) ==
  /\ g[{}] = first
  /\ \A T \in SUBSET D : T # {} => g[T] = step[pick[T]][g[T \ {pick[T]}]]

LEMMA SetRecursion ==
  ASSUME NEW S, NEW first \in S, NEW D, IsFiniteSet(D),
         NEW pick, \A T \in SUBSET D : T # {} => pick[T] \in T,
         NEW step \in [D -> [S -> S]]
  PROVE  \E g \in [SUBSET D -> S] : FoldsSet(g, first, D, pick, step)
<1> DEFINE P == SUBSET D
           size(T) == Cardinality(T)
           rest(T) == T \ {pick[T]}
           Right(g, k) ==
             /\ g[{}] = first
             /\ \A T \in P : T # {} /\ size(T) <= k => g[T] = step[pick[T]][g[rest(T)]]
           M == {k \in Nat : \E g \in [P -> S] : Right(g, k)}
<1>1. {} \in P /\ D \in P
  OBVIOUS
<1>2. ASSUME NEW T \in P
      PROVE  size(T) \in Nat /\ (size(T) = 0 <=> T = {}) /\ size(T) <= size(D)
  <2>1. IsFiniteSet(T)
    BY FS_Subset
  <2> QED
    BY <2>1, FS_Subset, FS_CardinalityType, FS_EmptySet
<1>3. ASSUME NEW T \in P, T # {}
      PROVE  pick[T] \in D /\ rest(T) \in P /\ size(rest(T)) = size(T) - 1
  <2>1. pick[T] \in T
    BY <1>3
  <2>2. IsFiniteSet(T)
    BY FS_Subset
  <2>3. Cardinality(T \ {pick[T]}) = Cardinality(T) - 1
    BY <2>1, <2>2, FS_RemoveElement
  <2> QED
    BY <2>1, <2>3
<1> HIDE DEF P, size, rest
<1>4. 0 \in M
  <2> DEFINE g == [T \in P |-> first]
  <2>1. g \in [P -> S] /\ g[{}] = first
    BY <1>1
  <2>2. \A T \in P : ~ (T # {} /\ size(T) <= 0)
    BY <1>2
  <2> HIDE DEF g
  <2> QED
    BY <2>1, <2>2
<1>5. ASSUME NEW k \in M
      PROVE  k + 1 \in M
  <2>1. k \in Nat
    OBVIOUS
  <2>2. PICK h \in [P -> S] : Right(h, k)
    OBVIOUS
  <2> DEFINE next(T) == step[pick[T]][h[rest(T)]]
             g == [T \in P |-> IF size(T) <= k THEN h[T] ELSE next(T)]
  <2>3. \A T \in P : T # {} => next(T) \in S
    BY <1>3
  <2>4. \A T \in P : T = {} => size(T) <= k
    BY <1>2, <2>1
  <2>5. /\ g \in [P -> S]
        /\ \A T \in P : size(T) <= k => g[T] = h[T]
        /\ \A T \in P : ~ (size(T) <= k) => g[T] = next(T)
    <3> HIDE DEF next
    <3> QED
      BY <2>3, <2>4
  <2> HIDE DEF g
  <2>6. ASSUME NEW T \in P, T # {}, size(T) <= k + 1
        PROVE  g[T] = step[pick[T]][g[rest(T)]]
    <3>1. rest(T) \in P /\ size(rest(T)) <= k
      BY <1>2, <1>3, <2>1, <2>6
    <3>2. g[rest(T)] = h[rest(T)]
      BY <2>5, <3>1
    <3>3. g[T] = next(T)
      <4>1. CASE size(T) <= k
        <5>1. h[T] = next(T)
          BY <2>2, <2>6, <4>1
        <5> HIDE DEF next
        <5> QED
          BY <2>5, <4>1, <5>1
      <4>2. CASE ~ (size(T) <= k)
        <5> HIDE DEF next
        <5> QED
          BY <2>5, <4>2
      <4> QED
        BY <4>1, <4>2
    <3> QED
      BY <3>2, <3>3
  <2>7. g[{}] = first
    BY <1>1, <2>2, <2>4, <2>5
  <2>8. Right(g, k + 1)
    BY <2>6, <2>7
  <2> HIDE DEF Right
  <2> QED
    BY <2>1, <2>5, <2>8
<1>6. M = Nat
  <2>1. M \in SUBSET Nat
    OBVIOUS
  <2> HIDE DEF M
  <2> QED
    BY <1>4, <1>5, <2>1, Induction
<1>7. size(D) \in M
  <2>1. size(D) \in Nat
    BY <1>1, <1>2
  <2> HIDE DEF M
  <2> QED
    BY <1>6, <2>1
<1>8. PICK g \in [P -> S] : Right(g, size(D))
  BY <1>7
<1>9. \A T \in P : T # {} => g[T] = step[pick[T]][g[rest(T)]]
  BY <1>2, <1>8
<1>10. FoldsSet(g, first, D, pick, step)
  BY <1>8, <1>9 DEF FoldsSet, P, rest
<1> QED
  BY <1>10 DEF P

\* Two functions that go the same way are the same.
SameWay(g, h, D, pick) ==
  /\ g[{}] = h[{}]
  /\ \A T \in SUBSET D : T # {} =>
       pick[T] \in T /\ (g[T \ {pick[T]}] = h[T \ {pick[T]}] => g[T] = h[T])

LEMMA SameFold ==
  ASSUME NEW D, IsFiniteSet(D), NEW g, NEW h, NEW pick, SameWay(g, h, D, pick)
  PROVE  \A T \in SUBSET D : g[T] = h[T]
<1> DEFINE P == SUBSET D
           size(T) == Cardinality(T)
           rest(T) == T \ {pick[T]}
           M == {k \in Nat : \A T \in P : size(T) = k => g[T] = h[T]}
<1>1. ASSUME NEW T \in P
      PROVE  /\ size(T) \in Nat /\ (size(T) = 0 <=> T = {})
             /\ T # {} /\ g[rest(T)] = h[rest(T)] => g[T] = h[T]
  <2>1. IsFiniteSet(T)
    BY FS_Subset
  <2> QED
    BY <2>1, FS_CardinalityType, FS_EmptySet DEF SameWay
<1>2. ASSUME NEW T \in P, T # {}
      PROVE  rest(T) \in P /\ size(rest(T)) = size(T) - 1
  <2>1. pick[T] \in T
    BY <1>2 DEF SameWay
  <2>2. IsFiniteSet(T)
    BY FS_Subset
  <2>3. Cardinality(T \ {pick[T]}) = Cardinality(T) - 1
    BY <2>1, <2>2, FS_RemoveElement
  <2> QED
    BY <2>1, <2>3
<1> HIDE DEF P, size, rest
<1>3. 0 \in M
  BY <1>1 DEF SameWay
<1>4. ASSUME NEW k \in M
      PROVE  k + 1 \in M
  <2>1. k \in Nat /\ k + 1 \in Nat /\ k + 1 # 0 /\ (k + 1) - 1 = k
    OBVIOUS
  <2>2. ASSUME NEW T \in P, size(T) = k + 1
        PROVE  g[T] = h[T]
    <3>1. T # {}
      BY <1>1, <2>1, <2>2
    <3>2. rest(T) \in P /\ size(rest(T)) = k
      BY <1>2, <2>1, <2>2, <3>1
    <3>3. g[rest(T)] = h[rest(T)]
      BY <3>2
    <3> QED
      BY <1>1, <3>1, <3>3
  <2> QED
    BY <2>1, <2>2
<1>5. M = Nat
  <2>1. M \in SUBSET Nat
    OBVIOUS
  <2> HIDE DEF M
  <2> QED
    BY <1>3, <1>4, <2>1, Induction
<1>6. ASSUME NEW T \in P
      PROVE  g[T] = h[T]
  <2>1. size(T) \in M
    <3> HIDE DEF M
    <3> QED
      BY <1>1, <1>5
  <2> QED
    BY <2>1
<1> QED
  BY <1>6 DEF P

LEMMA MaxIs ==
  ASSUME NEW n \in Nat
  PROVE  /\ \A T \in SUBSET (1 .. n) : T # {} => Max(T) \in T
         /\ \A m \in 1 .. n : Max(1 .. m) = m
<1>1. ASSUME NEW T \in SUBSET (1 .. n), T # {}
      PROVE  Max(T) \in T
  <2> DEFINE far == {n - x : x \in T}
  <2>1. \A x \in T : x \in 1 .. n
    OBVIOUS
  <2>2. \A x \in T : n - x \in Nat /\ n - x \in far
    BY <2>1
  <2>3. far \in SUBSET Nat /\ far # {}
    BY <1>1, <2>2
  <2>4. PICK d \in far : \A e \in far : d <= e
    <3> HIDE DEF far
    <3> QED
      BY <2>3, Least
  <2>5. PICK x \in T : d = n - x
    OBVIOUS
  <2>6. \A y \in T : x >= y
    <3> HIDE DEF far
    <3>1. \A y \in T : n - x <= n - y
      BY <2>2, <2>4, <2>5
    <3> QED
      BY <2>1, <3>1
  <2> QED
    BY <2>6 DEF Max
<1>2. ASSUME NEW m \in 1 .. n
      PROVE  Max(1 .. m) = m
  <2>1. m \in 1 .. m /\ \A y \in 1 .. m : m >= y
    OBVIOUS
  <2>2. \A x \in 1 .. m : (\A y \in 1 .. m : x >= y) => x = m
    BY <2>1
  <2> QED
    BY <2>1, <2>2 DEF Max
<1> QED
  BY <1>1, <1>2

\* A fold over the places of a sequence takes the last place first.
FoldsLeft(g, first, n, step) ==
  /\ g[{}] = first
  /\ \A T \in SUBSET (1 .. n) :
       T # {} => Max(T) \in T /\ g[T] = step[Max(T)][g[T \ {Max(T)}]]

Steps(S, n) == [1 .. n -> [S -> S]]

Folds(S, first, n, step) ==
  \E g \in [SUBSET (1 .. n) -> S], f \in [0 .. n -> S] :
    /\ FoldsLeft(g, first, n, step) /\ Recurs(f, first, n, step)
    /\ f[n] = g[1 .. n]

LEMMA Folding ==
  ASSUME NEW S, NEW first \in S, NEW n \in Nat, NEW step \in Steps(S, n)
  PROVE  Folds(S, first, n, step)
<1> DEFINE D == 1 .. n
           pick == [T \in SUBSET D |-> Max(T)]
<1>1. \A T \in SUBSET D : pick[T] = Max(T) /\ (T # {} => pick[T] \in T)
  BY MaxIs
<1>2. IsFiniteSet(D)
  BY FS_Interval
<1> HIDE DEF pick, D
<1>3. step \in [D -> [S -> S]]
  BY DEF D, Steps
<1>4. PICK g \in [SUBSET D -> S] : FoldsSet(g, first, D, pick, step)
  BY <1>1, <1>2, <1>3, SetRecursion
<1>5. FoldsLeft(g, first, n, step)
  BY <1>1, <1>4 DEF FoldsSet, FoldsLeft, D
<1> DEFINE prefix(m) == 1 .. m
           f == [m \in 0 .. n |-> g[prefix(m)]]
<1>6. ASSUME NEW m \in 0 .. n
      PROVE  prefix(m) \in SUBSET D /\ g[prefix(m)] \in S
  BY DEF D
<1>7. prefix(0) = {} /\ prefix(n) = 1 .. n /\ n \in 0 .. n /\ 0 \in 0 .. n
  OBVIOUS
<1>8. ASSUME NEW i \in 1 .. n
      PROVE  /\ prefix(i) \in SUBSET (1 .. n) /\ prefix(i) # {} /\ Max(prefix(i)) = i
             /\ prefix(i) \ {i} = prefix(i - 1) /\ i \in 0 .. n /\ i - 1 \in 0 .. n
  <2>1. Max(1 .. i) = i
    BY MaxIs
  <2>2. (1 .. i) \ {i} = 1 .. i - 1
    OBVIOUS
  <2>3. 1 .. i \in SUBSET (1 .. n) /\ i \in 1 .. i /\ i \in 0 .. n /\ i - 1 \in 0 .. n
    OBVIOUS
  <2> QED
    BY <2>1, <2>2, <2>3
<1> HIDE DEF prefix
<1>9. f \in [0 .. n -> S] /\ \A m \in 0 .. n : f[m] = g[prefix(m)]
  BY <1>6
<1> HIDE DEF f
<1>10. ASSUME NEW i \in 1 .. n
       PROVE  f[i] = step[i][f[i - 1]]
  <2>1. f[i] = g[prefix(i)] /\ f[i - 1] = g[prefix(i - 1)]
    BY <1>8, <1>9
  <2>2. g[prefix(i)] = step[Max(prefix(i))][g[prefix(i) \ {Max(prefix(i))}]]
    BY <1>5, <1>8 DEF FoldsLeft
  <2> QED
    BY <1>8, <2>1, <2>2
<1>11. f[0] = first /\ f[n] = g[1 .. n]
  BY <1>5, <1>7, <1>9 DEF FoldsLeft
<1>12. Recurs(f, first, n, step)
  BY <1>10, <1>11 DEF Recurs
<1> QED
  BY <1>5, <1>9, <1>11, <1>12 DEF D, Folds

\* What a fold of the modules computes, when it goes the way of `g`.
LEMMA FoldedSame ==
  ASSUME NEW n \in Nat, NEW g, NEW h, NEW first, NEW step,
         FoldsLeft(g, first, n, step), h[{}] = first,
         \A T \in SUBSET (1 .. n) :
           T # {} /\ g[T \ {Max(T)}] = h[T \ {Max(T)}] => g[T] = h[T]
  PROVE  g[1 .. n] = h[1 .. n]
<1> DEFINE D == 1 .. n
           pick == [T \in SUBSET D |-> Max(T)]
<1>1. \A T \in SUBSET D : pick[T] = Max(T) /\ (T # {} => pick[T] \in T)
  BY MaxIs
<1>2. IsFiniteSet(D) /\ D \in SUBSET D
  BY FS_Interval
<1>3. g[{}] = h[{}]
  BY DEF FoldsLeft
<1>4. SameWay(g, h, D, pick)
  BY <1>1, <1>3 DEF SameWay
<1> HIDE DEF pick, D
<1>5. \A T \in SUBSET D : g[T] = h[T]
  BY <1>2, <1>4, SameFold
<1> QED
  BY <1>2, <1>5 DEF D

\* A function that goes by `step` while it stays in S.
GoesBy(h, S, first, n, step) ==
  /\ h[{}] = first
  /\ \A D \in SUBSET (1 .. n) :
       D # {} /\ h[D \ {Max(D)}] \in S => h[D] = step[Max(D)][h[D \ {Max(D)}]]

LEMMA Folded ==
  ASSUME NEW S, NEW first \in S, NEW n \in Nat, NEW step \in Steps(S, n),
         NEW h, GoesBy(h, S, first, n, step)
  PROVE  \E f \in [0 .. n -> S] : Recurs(f, first, n, step) /\ f[n] = h[1 .. n]
<1>0. Folds(S, first, n, step)
  BY Folding
<1>1. PICK g \in [SUBSET (1 .. n) -> S], f \in [0 .. n -> S] :
        /\ FoldsLeft(g, first, n, step) /\ Recurs(f, first, n, step)
        /\ f[n] = g[1 .. n]
  BY <1>0 DEF Folds
<1>2. ASSUME NEW D \in SUBSET (1 .. n), D # {}, g[D \ {Max(D)}] = h[D \ {Max(D)}]
      PROVE  g[D] = h[D]
  <2>1. g[D] = step[Max(D)][g[D \ {Max(D)}]]
    BY <1>1, <1>2 DEF FoldsLeft
  <2>2. D \ {Max(D)} \in SUBSET (1 .. n)
    OBVIOUS
  <2>3. h[D \ {Max(D)}] \in S
    BY <1>1, <1>2, <2>2
  <2> QED
    BY <1>2, <2>1, <2>3 DEF GoesBy
<1>3. h[{}] = first
  BY DEF GoesBy
<1>4. g[1 .. n] = h[1 .. n]
  BY <1>1, <1>2, <1>3, FoldedSame
<1> QED
  BY <1>1, <1>4
=============================================================================
