SPECIFICATION Spec
CONSTANTS
  a = a
  b = b
  c = c
  Timers = {a, b, c}
  TickMod = 10
  Times = {1, 2}
  MaxLate = 1
  Periodic = {b}
  User = {a}
  Touches <- MCTouches
  FirstTime <- MCFirstTime
INVARIANTS
  FlagsExact
  SortedByTime
PROPERTIES
  Timely
  CheckShrinks
