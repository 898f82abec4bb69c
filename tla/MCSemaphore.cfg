SPECIFICATION FairSpec
CONSTANTS
  a = a
  b = b
  c = c
  Thread = {a, b, c}
  MaxPrio = 3
  InitPrio <- MCPrio
  Lent = {a, b, c}
  Flag = "PRIO"
  ValueMod = 3
  Timed = {a, b}
  Deleter = {c}
INVARIANTS
  WaitersExact
  TokensConserved
PROPERTIES
  GrantsMostUrgent
  ImplementsCounting
  WaitsEnd
CHECK_DEADLOCK FALSE
