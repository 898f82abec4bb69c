SPECIFICATION Spec
CONSTANTS
  idle = idle
  main = main
  work = work
  tick = tick
  Thread = {idle, main, work, tick}
  Idle = idle
  Boot = {idle, main}
  MaxPrio = 2
  InitPrio <- MCInitPrio
  Slice = 1
  MaxLevel = 2
  MaxIrq = 2
  Static = {idle, work}
  Cleanup = {}
  Timed = {main}
  Ending = {main}
  Kept = {"resume_unblocked", "exit_unlocked", "delete_unlent"}
  Manages <- MCManagesBoth
INVARIANTS
  TypeOK
  QueuesExact
  BitmapExact
  SelectsHighest
  PreemptCountOwned
  CurrentRunnable
  TargetHeld
  TimerOnlySuspended
  DefunctExact
PROPERTIES
  DeathIsFinal
