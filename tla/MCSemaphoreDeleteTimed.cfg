SPECIFICATION Spec
CONSTANTS
  a = a
  b = b
  c = c
  Thread = {a, b, c}
  MaxPrio = 2
  InitPrio <- MCPrio
  Lent = {}
  Flag = "FIFO"
  ValueMod = 3
  Timed = {c}
  Deleter = {a, b}
INVARIANT
  ResumesThread
