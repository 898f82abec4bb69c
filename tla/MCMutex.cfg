SPECIFICATION FairSpec
CONSTANTS
  low = low
  mid = mid
  high = high
  A = A
  B = B
  Null = Null
  Thread = {low, mid, high}
  Mutexes = {A}
  InitPrio <- MCInitPrio
  MaxPrio = 4
  Flag = "FIFO"
  HoldMod = 4
  MaxHold = 2
  Timed = {mid}
INVARIANTS
  WaitersExact
  OwnershipExact
  OwnerInherits
  PriorityRestored
PROPERTIES
  WaiterGetsMutex
