SPECIFICATION FairSpec
CONSTANTS
  p1 = p1
  p2 = p2
  p3 = p3
  Procs = {p1, p2}
  NUM = 6
  IntrHarts = {0}
PROPERTY RequestsReturn
CHECK_DEADLOCK FALSE
