CONSTANTS
  BufSize = 3
  SemWidth = 9
  MaxBytes = 8
  MaxLength = 3
  RxLen = 5
  DealLen = 3
  MaxChars = 9
SPECIFICATION FairSpec
INVARIANTS
  TypeOK
PROPERTIES
  ImplementsByteQueue
  NothingIsStuck
CHECK_DEADLOCK FALSE
