CONSTANTS
  a = a
  b = b
  c = c
  Thread = {a, b, c}
  Flag <- MCFlag
  Prio <- MCPrio
  Limits = {"none", "finite", "forever"}
  Scenes <- MCScenes
  InitValue = 1
  Width = 3
  Bits = {1, 2}
  Options <- MCOptions
  MaxMsgs = 2
  MaxBlocks = 2
  MaxCount = 4
  Msg = {m1, m2}
  NoMsg = NoMsg
SPECIFICATION Spec
INVARIANTS
  TypeOK
  SuspendedInOneList
  CountMeansNoWaiter
  PermitsConserved
  NoWaiterIsSatisfied
  StoreIsWhole
  NothingIsMissed
PROPERTIES
  ClearedBitsGoToOne
  ImplementsMsgQueue
CHECK_DEADLOCK FALSE
