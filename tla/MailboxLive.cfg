CONSTANTS
  a = a
  b = b
  c = c
  Thread = {a, b, c}
  Mail = {m1}
  NoMail = NoMail
  Size = 1
  Flag = "FIFO"
  Prio <- MCEqual
  Sends <- MCSendsToo
  Receives <- MCReceives
SPECIFICATION FairSpec
PROPERTIES
  WaitersAreServed
CHECK_DEADLOCK FALSE
