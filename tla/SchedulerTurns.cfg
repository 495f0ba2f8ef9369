CONSTANTS
  a = a
  b = b
  c = c
  idle = idle
  Thread = {a, b, c, idle}
  Garbage = Garbage
  Lowest = 2
  InitPrio <- MCInitPrio
  Static = {a}
  Timed = {a}
  Waits = {a, c}
  Exits = {a, c}
  Deletes <- MCDeletes
  Manages <- MCManages
  Boosts <- MCBoosts
  MaxNest = 2
SPECIFICATION FairSpec
INVARIANTS
  TypeOK
  ReadyTableExact
  RunningIsHighest
  SuspendedCanWake
  ClosedThreadsAreOut
PROPERTY
  EqualsTakeTurns
CHECK_DEADLOCK FALSE
