SPECIFICATION FairSpec
CONSTANTS
  a = a
  b = b
  w = w
  d1 = d1
  d2 = d2
  None = None
  End = End
  Work = {w, d1, d2}
  Timers = {d1, d2}
  Client = {a, b}
  Submits <- MCUses
  Cancels <- MCUses
  Locking = {b}
  Mixed = {}
  Irq = {}
  Rank <- MCRank
INVARIANTS
  FlagsExact
  PointersLive
  SleepsOnlyIdle
PROPERTIES
  CancelledGone
  WorkIsDone
