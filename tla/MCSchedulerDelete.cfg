SPECIFICATION Spec
CONSTANTS
  idle = idle
  main = main
  work = work
  tick = tick
  Thread = {idle, main, work, tick}
  Idle = idle
  Boot = {idle, main, tick}
  MaxPrio = 3
  InitPrio <- MCInitPrio
  Slice = 1
  MaxLevel = 1
  MaxIrq = 1
  Static = {idle}
  Cleanup = {}
  Timed = {work}
  Ending = {}
  Kept = {"resume_unblocked", "exit_unlocked", "delete_unlent"}
  Manages <- MCManages
INVARIANTS
  DeletedUnlinked
