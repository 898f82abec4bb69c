SPECIFICATION FairSpec
CONSTANTS
  idle = idle
  main = main
  work = work
  tick = tick
  Thread = {idle, main, tick}
  Idle = idle
  Boot = {idle, main, tick}
  MaxPrio = 2
  InitPrio <- MCInitPrio
  Slice = 1
  MaxLevel = 1
  MaxIrq = 1
  Static = {idle, tick}
  Cleanup = {tick}
  Timed = {tick}
  Ending = {main, tick}
  Kept = {"resume_unblocked", "exit_unlocked", "delete_unlent"}
  Manages <- MCNoManages
PROPERTIES
  TopReadyRuns
  DefunctReclaimed
