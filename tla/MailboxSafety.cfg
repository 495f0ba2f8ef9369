CONSTANTS
  a = a
  b = b
  c = c
  Thread = {a, b, c}
  Mail = {m1, m2}
  NoMail = NoMail
  Size = 2
  Flag = "PRIO"
  Prio <- MCPrio
  Sends <- MCSends
  Receives <- MCReceives
SPECIFICATION Spec
INVARIANTS
  TypeOK
  NoLostWakeup
  TimerHasWaiter
PROPERTIES
  ImplementsMailQueue
SYMMETRY MailSymmetry
CHECK_DEADLOCK FALSE
