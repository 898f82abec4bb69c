---------------------------- MODULE MCScheduler ----------------------------
(* Small instances: the idle thread, a main thread started at boot, and    *)
(* two more, managed by main or started at boot themselves.                *)
EXTENDS Scheduler

CONSTANTS idle, main, work, tick

MCInitPrio == [t \in Thread |-> CASE t = Idle -> MaxPrio - 1
                                  [] t = main -> MaxPrio - 2
                                  [] OTHER    -> 0]
MCNoManages == {}
MCManages == {<<main, work>>}
MCManagesBoth == {<<main, work>>, <<main, tick>>}
=============================================================================
