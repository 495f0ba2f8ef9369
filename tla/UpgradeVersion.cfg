CONSTANTS
  N = 2
  EraseCap = 2
  ServerVer = ServerVer
  VerSoft = VerSoft
  OldVer = OldVer
  NoCfg = NoCfg
  Garbles = {}
  MaxSum = 2
  MaxBoot = 2
  MaxFault = 0
SPECIFICATION Spec
INVARIANTS
  SameVersionIsRecognised
CHECK_DEADLOCK FALSE
