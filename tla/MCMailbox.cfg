SPECIFICATION FairSpec
CONSTANTS
  a = a
  b = b
  c = c
  NoMail = NoMail
  Thread = {a, b, c}
  Prio <- MCPrio
  Flag = "PRIO"
  Mail = {"x", "y"}
  Size = 2
  Timed = {a}
INVARIANTS
  WaitersExact
  NoLostWakeup
PROPERTIES
  ImplementsFifo
  MailMoves
