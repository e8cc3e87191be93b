SPECIFICATION Spec
CONSTANTS
  p1 = p1
  p2 = p2
  p3 = p3
  Procs = {p1, p2, p3}
  NUM = 8
  IntrHarts = {0, 1}
INVARIANTS
  TypeOK
  DescsConserved
  CompletionsHaveOwner
  ServedBeforeReturn
  NoLostFreeWakeup
  NoStrandedRequest
SYMMETRY ProcSymmetry
CHECK_DEADLOCK FALSE
