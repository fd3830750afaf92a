CONSTANTS
  Lines <- MCLines
  Path = {"p1", "p2", "out"}
  Folder = {"t1", "t2"}
  TempFolder = "t1"
  Name = {"ball", "floor", "lamp"}
  FileName = {"f"}
  Body = {"one", "two", EMPTY}
  NumberOf <- MCNumberOf
  Matches <- MCMatches
  ValidEncoding = {"latin"}
  Originals <- MCOriginals
  ABSENT = ABSENT
  BROKEN = BROKEN
  EMPTY = EMPTY
SPECIFICATION Spec
INVARIANTS
  PagesShowAll
  ResultsCurrent

  
CHECK_DEADLOCK FALSE
