CONSTANTS
  a = a
  b = b
  c = c
  Thread = {a, b, c}
  Mail = {m1}
  NoMail = NoMail
  Size = 1
  Flag = "PRIO"
  Prio <- MCPrio
  Sends <- MCSends
  Receives <- MCReceives
SPECIFICATION Spec
INVARIANTS
  DetachResumesThreads
CHECK_DEADLOCK FALSE
