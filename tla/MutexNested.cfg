CONSTANTS
  a = a
  b = b
  c = c
  d = d
  Thread = {a, b}
  Mutexes = {m1, m2}
  Nobody = Nobody
  InitPrio <- MCInitPrio
  Flag = "PRIO"
  HoldWidth = 256
  Depth = 1
SPECIFICATION Spec
INVARIANTS
  PriorityRestored
CHECK_DEADLOCK FALSE
