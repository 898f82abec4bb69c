SPECIFICATION FairSpec
CONSTANTS
  a = a
  b = b
  w = w
  d1 = d1
  d2 = d2
  None = None
  End = End
  Work = {w, d1}
  Timers = {d1}
  Client = {a, b}
  Submits <- MCUses
  Cancels <- MCCancelsIrq
  Locking = {b}
  Mixed = {}
  Irq = {a}
  Rank <- MCRankIrq
PROPERTIES
  WorkIsDone
