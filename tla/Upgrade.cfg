CONSTANTS
  N = 2
  EraseCap = 3
  ServerVer = ServerVer
  VerSoft = VerSoft
  OldVer = OldVer
  NoCfg = NoCfg
  Garbles = {"version", "count", "number"}
  MaxSum = 3
  MaxBoot = 2
  MaxFault = 1
SPECIFICATION FairSpec
INVARIANTS
  TypeOK
  CountedPacksAreInFlash
  SuccessMeansInstalled
PROPERTIES
  HandsOver
  FlagCoversTornApp
CHECK_DEADLOCK FALSE
