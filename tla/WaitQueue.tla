----------------------------- MODULE WaitQueue -----------------------------
(***************************************************************************)
(* A wait queue (waitqueue.c): a flag and a list of nodes.  A node is a    *)
(* local variable of the thread that waits.  The thread itself is in no    *)
(* list while it is suspended: a wake-up reaches it through its node only, *)
(* and a thread that timed out takes its own node off the list later.      *)
(***************************************************************************)
EXTENDS IpcThreads

CONSTANTS WqUser    \* threads that wait

ASSUME WaitQueueAssumption == WqUser \subseteq Thread

VARIABLES
  wakeup,         \* queue->flag = RT_WQ_FLAG_WAKEUP
  waiting_list,   \* the threads of the nodes in queue->waiting_list
  polling         \* threads that are suspended in rt_wqueue_wait

wqueuevars == <<wakeup, waiting_list, polling>>

(* rt_wqueue_wait returns at once when its condition holds, without        *)
(* waiting time, or, clearing it, when the flag is set.                    *)
WqueueWait(t) ==
  /\ pc[t] = "run"
  /\ \/ wakeup /\ wakeup' = FALSE /\ UNCHANGED <<waiting_list, polling, threads>>
     \/ /\ ~wakeup
        /\ \E w \in WaitsOf(t) : Blocks(t, "wqueue_wait", w)
        /\ waiting_list' = Append(waiting_list, t)
        /\ polling' = polling \cup {t}
        /\ UNCHANGED wakeup

(* Mutant of WqueueResumed: the node is left to the wake-up.               *)
WqueueResumedListed(t) ==
  /\ pc[t] = "wqueue_wait" /\ t \notin polling
  /\ Returns(t)
  /\ wakeup' = FALSE
  /\ UNCHANGED <<waiting_list, polling, timer>>

(* Mutant of WqueueResumed: the flag is cleared with a node only.          *)
WqueueResumedFlag(t) ==
  /\ pc[t] = "wqueue_wait" /\ t \notin polling
  /\ Returns(t)
  /\ wakeup' = (wakeup /\ ~Contains(waiting_list, t))
  /\ waiting_list' = RemoveFirst(waiting_list, t)
  /\ UNCHANGED <<polling, timer>>

(* The rest of rt_wqueue_wait, whether the thread was woken or timed out   *)
WqueueResumed(t) ==
  /\ pc[t] = "wqueue_wait" /\ t \notin polling
  /\ Returns(t)
  /\ wakeup' = FALSE
  /\ waiting_list' = RemoveFirst(waiting_list, t)
  /\ UNCHANGED <<polling, timer>>

(* rt_wqueue_wakeup, by a thread or an interrupt handler.  The first node  *)
(* takes the wake-up, even when its thread is ready because it timed out.  *)
WqueueWakeup ==
  /\ wakeup' = TRUE
  /\ waiting_list' = Shortened(waiting_list)
  /\ polling' = polling \ First(waiting_list)
  /\ Resume(First(waiting_list))
  /\ UNCHANGED <<error, pc, wait>>

WqueueInit == wakeup = FALSE /\ waiting_list = <<>> /\ polling = {}

WqueueTypeOK ==
  /\ wakeup \in BOOLEAN
  /\ waiting_list \in Seq(WqUser)
  /\ polling \subseteq WqUser

(* A node in the list is one node of a thread that is still in its call:   *)
(* the list never points into a stack frame that is gone.  And a suspended *)
(* thread has its node there, or nothing could wake it.                    *)
NodesLive ==
  /\ IsInjective(waiting_list)
  /\ \A i \in DOMAIN waiting_list : pc[waiting_list[i]] = "wqueue_wait"
  /\ \A t \in polling : Contains(waiting_list, t)

(* A thread sleeps beside a set flag only while another one, woken or      *)
(* timed out, is still to leave its call and clear the flag: no wake-up is *)
(* noted in the flag and then slept through.                               *)
FlagFresh ==
  wakeup /\ polling # {} => \E t \in WqUser \ polling : pc[t] = "wqueue_wait"
=============================================================================
