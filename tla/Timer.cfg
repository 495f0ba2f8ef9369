CONSTANTS
  x = x
  y = y
  z = z
  a = a
  b = b
  Timer = {x, y, z}
  NoTimer = NoTimer
  Thread = {a, b}
  Uses <- MCUses
  Touches <- MCTouches
  Controlled = {x}
  InitTime <- MCTime
  InitFlag <- MCFlag
  Width = 12
  Times = {1, 3}
  MaxTime = 3
  Delay = 1
SPECIFICATION FairSpec
INVARIANTS
  TypeOK
  ListSorted
  StoppedStaysQuiet
PROPERTIES
  FiresOnTime
  EqualsInOrderOfStart
  PendingKeepsFlag
  CheckEnds
