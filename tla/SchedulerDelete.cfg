CONSTANTS
  a = a
  b = b
  c = c
  idle = idle
  Thread = {a, b, c, idle}
  Garbage = Garbage
  Lowest = 2
  InitPrio <- MCInitPrio
  Static = {}
  Timed = {c}
  Waits = {c}
  Exits = {}
  Deletes <- MCDeletes
  Manages <- None
  Boosts <- None
  MaxNest = 0
SPECIFICATION Spec
INVARIANT ClosedThreadsAreOut
CHECK_DEADLOCK FALSE
