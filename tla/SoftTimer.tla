----------------------------- MODULE SoftTimer -----------------------------
(***************************************************************************)
(* Soft timers (timer.c): a sorted list of running timers and the timer    *)
(* thread, which sleeps until the first of them is due, or without limit   *)
(* when there is none, and calls the timeout functions.                    *)
(*                                                                         *)
(* Time is abstract: late holds the timers whose time has come, and a new  *)
(* timer may be sorted anywhere behind those.  All timers are one-shot.    *)
(***************************************************************************)
EXTENDS Integers, Sequences, FiniteSets, SequencesExt

CONSTANTS
  Timers,
  End         \* the head of rt_soft_timer_list, where a walk ends

ASSUME SoftTimerAssumption == End \notin Timers

VARIABLES
  soft,       \* rt_soft_timer_list
  active,     \* timers with RT_TIMER_FLAG_ACTIVATED
  late,       \* timers whose timeout_tick has been reached
  tpc,        \* where the timer thread is
  n,          \* the next node of the walk in rt_soft_timer_check
  reached,    \* timers whose timeout_tick its current_tick has reached
  t           \* the timer of the callback

softvars == <<soft, active, late, tpc, n, reached, t>>

-----------------------------------------------------------------------------
FirstNode == IF soft = <<>> THEN End ELSE Head(soft)

(* Mutant of NextNode: the node is read after the timer left the list.     *)
NextNodeRemoved(m) == m

(* node->next; a node that has left the list points to itself.             *)
NextNode(m) ==
  LET i == SelectInSeq(soft, LAMBDA u : u = m)
  IN  IF i = 0 THEN m ELSE IF i = Len(soft) THEN End ELSE soft[i + 1]

(* rt_thread_resume of the timer thread; it goes on to check the list.     *)
TimerThreadResumed == IF tpc \in {"asleep", "delay"} THEN "enter" ELSE tpc

(* Mutant of SoftStart: the timer thread is not resumed.                   *)
SoftStartSilently(u) ==
  /\ LET s == RemoveFirst(soft, u)
     IN  \E i \in 1 .. Len(s) + 1 :
           /\ \A j \in 1 .. Len(s) : s[j] \in late => j < i
           /\ soft' = InsertAt(s, i, u)
  /\ active' = active \cup {u}
  /\ late' = late \ {u} /\ reached' = reached \ {u}
  /\ UNCHANGED <<tpc, n, t>>

(* rt_timer_start of a soft timer, in one step; Timer has its sections.    *)
SoftStart(u) ==
  /\ LET s == RemoveFirst(soft, u)
     IN  \E i \in 1 .. Len(s) + 1 :
           /\ \A j \in 1 .. Len(s) : s[j] \in late => j < i
           /\ soft' = InsertAt(s, i, u)
  /\ active' = active \cup {u}
  /\ late' = late \ {u} /\ reached' = reached \ {u}
  /\ tpc'  = TimerThreadResumed
  /\ UNCHANGED <<n, t>>

(* rt_timer_stop, rt_timer_detach                                          *)
SoftStop(u) ==
  /\ soft'   = RemoveFirst(soft, u)
  /\ active' = active \ {u}
  /\ UNCHANGED <<late, tpc, n, reached, t>>

(* The clock: the time of the first timer that is not yet due has come.    *)
Elapse ==
  /\ \E i \in DOMAIN soft :
       /\ soft[i] \notin late
       /\ \A j \in 1 .. i - 1 : soft[j] \in late
       /\ late' = late \cup {soft[i]}
  /\ UNCHANGED <<soft, active, tpc, n, reached, t>>

(* The clock ends rt_thread_delay.  The timer it waited for may be gone.   *)
DelayEnds ==
  /\ tpc = "delay"
  /\ tpc' = "enter"
  /\ UNCHANGED <<soft, active, late, n, reached, t>>

-----------------------------------------------------------------------------
(* rt_thread_timer_entry: rt_timer_list_next_timeout tells what to do next. *)
(* For a timer that is due at this very tick the thread delays, too.       *)
TimerLook ==
  /\ tpc = "look"
  /\ \/ soft = <<>> /\ tpc' = "suspend"
     \/ soft # <<>> /\ tpc' = "delay"
     \/ soft # <<>> /\ Head(soft) \in late /\ tpc' = "enter"
  /\ UNCHANGED <<soft, active, late, n, reached, t>>

(* rt_thread_suspend and rt_schedule, whatever the list holds by now       *)
TimerSuspend ==
  /\ tpc = "suspend"
  /\ tpc' = "asleep"
  /\ UNCHANGED <<soft, active, late, n, reached, t>>

(* rt_soft_timer_check: the walk begins.                                   *)
CheckEnter ==
  /\ tpc = "enter"
  /\ tpc' = "check"
  /\ n' = FirstNode
  /\ reached' = late
  /\ UNCHANGED <<soft, active, late, t>>

(* A timer is due: its node is left for the next one, the timer removed    *)
(* and its timeout function called with the scheduler unlocked.  The tick  *)
(* is read again after it.                                                 *)
CheckPick ==
  /\ tpc = "check" /\ n \in reached
  /\ tpc' = "callback"
  /\ t' = n
  /\ n' = NextNode(n)
  /\ soft' = RemoveFirst(soft, n)
  /\ reached' = {}
  /\ UNCHANGED <<active, late>>

(* After the timeout function the timer counts as stopped, and the walk    *)
(* goes on with the node it left for.                                      *)
CheckNext ==
  /\ tpc = "called"
  /\ tpc' = "check"
  /\ active' = active \ {t}
  /\ reached' = late
  /\ t' = End
  /\ UNCHANGED <<soft, late, n>>

CheckLeave ==
  /\ tpc = "check" /\ n \notin reached
  /\ tpc' = "look"
  /\ n' = End /\ reached' = {}
  /\ UNCHANGED <<soft, active, late, t>>

TimerThread ==
  TimerLook \/ TimerSuspend \/ CheckEnter \/ CheckPick \/ CheckNext \/ CheckLeave

TimerThreadReady == tpc \notin {"asleep", "delay"}

SoftInit ==
  /\ soft = <<>> /\ active = {} /\ late = {}
  /\ tpc = "look" /\ n = End /\ reached = {} /\ t = End

-----------------------------------------------------------------------------
SoftTypeOK ==
  /\ soft \in Seq(Timers) /\ IsInjective(soft)
  /\ active \subseteq Timers /\ late \subseteq Timers /\ reached \subseteq Timers
  /\ tpc \in {"look", "suspend", "asleep", "delay", "enter", "check", "callback",
              "submit", "called"}
  /\ n \in Timers \cup {End} /\ t \in Timers \cup {End}

(* The node that rt_soft_timer_check kept over a timeout function is still *)
(* in the list: a node that left it points to itself, and the walk would   *)
(* call a stopped timer, without end.                                      *)
WalkInList == tpc \in {"callback", "submit", "called", "check"} => n = End \/ Contains(soft, n)
=============================================================================
