CONSTANTS
  a = a
  b = b
  c = c
  d = d
  Thread = {a, b, c, d}
  Mutexes = {m1}
  Nobody = Nobody
  InitPrio <- MCInitPrio
  Flag = "PRIO"
  HoldWidth = 256
  Depth = 2
SPECIFICATION Spec
INVARIANTS
  TypeOK
  TakenMeansOwned
  WaitersHaveOwner
  PriorityInherited
  PriorityRestored
SYMMETRY MutexSymmetry
