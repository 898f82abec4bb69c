SPECIFICATION Spec
CONSTANTS
  a = a
  b = b
  c = c
  NoMail = NoMail
  Null = Null
  Thread = {a, b, c}
  Prio <- MCPrio
  Flag = "PRIO"
  Timed = {a}
  EventUser = {a, c}
  Bit = {1, 2}
  EventCall <- MCEventCall
  MqUser = {a, b}
  Slot = {s1, s2}
  Mail = {x, y}
  Waiter = a
  WqUser = {a, b, c}
SYMMETRY MCSymmetry
INVARIANTS
  WaitersExact
  NoLostWakeups
  SlotsPartitioned
PROPERTIES
  EventsServedInOrder
  ImplementsMessageFifo
