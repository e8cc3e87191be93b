CONSTANTS
  NINUM = 2
  E = 2
  N1 = 1
  N2 = 1
  NB = 5
  W = 16
  Lens = {0, 3}
  Seeks <- MCSeeks
  MaxCalls = 4
SPECIFICATION Spec
CHECK_DEADLOCK FALSE
INVARIANTS
  TypeOK
  TreesDisjoint
  BitsExact
  ContentAsWritten
  TooLargeOnlyOnWrap
