SPECIFICATION Spec
CONSTANTS
  low = low
  mid = mid
  high = high
  A = A
  B = B
  Null = Null
  Thread = {low, high}
  Mutexes = {A, B}
  InitPrio <- MCInitPrio
  MaxPrio = 4
  Flag = "FIFO"
  HoldMod = 3
  MaxHold = 2
  Timed = {}
INVARIANT
  PriorityRestored
CHECK_DEADLOCK FALSE
