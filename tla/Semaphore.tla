----------------------------- MODULE Semaphore -----------------------------
(***************************************************************************)
(* A semaphore (ipc.c): take with and without a timeout, release from a    *)
(* thread or an interrupt handler, reset, and deletion, whose loop enables *)
(* interrupts between looking at the suspend list and resuming its head.   *)
(*                                                                         *)
(* A step is one section with interrupts disabled.  Any thread that is not *)
(* suspended may take the next step: an interrupt can make a thread ready  *)
(* and preempt another one between any two sections.  The priority of a    *)
(* thread can change at any time, also while it waits: then it keeps its   *)
(* place in the list, which is no longer ordered.                          *)
(***************************************************************************)
EXTENDS Ipc, FiniteSets

CONSTANTS
  Thread,
  MaxPrio,    \* RT_THREAD_PRIORITY_MAX; 0 is the most urgent priority
  InitPrio,   \* the priority each thread starts with
  Lent,       \* threads whose priority changes
  Flag,       \* "FIFO" or "PRIO", the flag the semaphore was made with
  ValueMod,   \* 2^16: sem->value is a rt_uint16_t
  Timed,      \* threads that pass a timeout
  Deleter     \* threads that delete the semaphore

ASSUME SemAssumption ==
  /\ IsFiniteSet(Thread)
  /\ MaxPrio \in Nat \ {0}
  /\ InitPrio \in [Thread -> 0 .. MaxPrio - 1] /\ Lent \subseteq Thread
  /\ Flag \in {"FIFO", "PRIO"}
  /\ ValueMod \in Nat \ {0, 1}
  /\ Timed \subseteq Thread /\ Deleter \subseteq Thread

VARIABLES
  value,      \* sem->value
  suspend,    \* sem->parent.suspend_thread
  live,       \* the semaphore exists and nobody has begun to delete it
  timer,      \* threads whose thread_timer is running
  error,      \* thread->error
  pc,         \* where the thread is
  prio,       \* thread->current_priority
  balance,    \* ghost: the initial value, plus every release, minus every
              \* take that has returned RT_EOK, modulo ValueMod
  disturbed   \* ghost: the priority of a thread in the list has been changed
              \* since the list was last empty

vars == <<value, suspend, live, timer, error, pc, prio, balance, disturbed>>

Values == 0 .. ValueMod - 1

Prio == 0 .. MaxPrio - 1

(* Mutant of Wrap: a value wider than 16 bits.                             *)
WrapNever(n) == n

Wrap(n) == n % ValueMod

Labels == {"run", "wait",         \* wait: in the rt_schedule of rt_sem_take
           "check", "resume"}     \* rt_ipc_list_resume_all of rt_sem_delete

(* Threads that have been given a token and have not returned with it yet. *)
InFlight == {t \in Thread : /\ pc[t] = "wait" /\ ~Contains(suspend, t)
                            /\ error[t] = "EOK"}

-----------------------------------------------------------------------------
(* Mutant of Resumed: rt_timer_stop is forgotten.                          *)
ResumedTimed(u) ==
  /\ suspend'   = RemoveFirst(suspend, u)
  /\ disturbed' = (disturbed /\ suspend' # <<>>)
  /\ UNCHANGED timer

(* rt_thread_resume and rt_thread_timeout: u leaves the list, its timer    *)
(* is stopped.                                                             *)
Resumed(u) ==
  /\ suspend'   = RemoveFirst(suspend, u)
  /\ disturbed' = (disturbed /\ suspend' # <<>>)
  /\ timer'     = timer \ {u}

(* Mutant of Take: rt_sem_take does not look at the value again.           *)
TakeBlindly(t) ==
  /\ pc[t] = "run" /\ live
  /\ \/ /\ value > 0
        /\ value'   = value - 1
        /\ balance' = Wrap(balance - 1)
        /\ UNCHANGED <<suspend, timer, error, pc>>
     \/ /\ error'   = [error EXCEPT ![t] = "EOK"]
        /\ suspend' = ListSuspend(suspend, t, Flag, prio)
        /\ timer'   = IF t \in Timed THEN timer \cup {t} ELSE timer
        /\ pc'      = [pc EXCEPT ![t] = "wait"]
        /\ UNCHANGED <<value, balance>>
  /\ UNCHANGED <<live, prio, disturbed>>

(* rt_sem_take.  With no token and no waiting time it returns at once and  *)
(* changes nothing.                                                        *)
Take(t) ==
  /\ pc[t] = "run" /\ live
  /\ \/ /\ value > 0
        /\ value'   = value - 1
        /\ balance' = Wrap(balance - 1)
        /\ UNCHANGED <<suspend, timer, error, pc>>
     \/ /\ value = 0
        /\ error'   = [error EXCEPT ![t] = "EOK"]
        /\ suspend' = ListSuspend(suspend, t, Flag, prio)
        /\ \/ timer' = timer
           \/ t \in Timed /\ timer' = timer \cup {t}
        /\ pc'      = [pc EXCEPT ![t] = "wait"]
        /\ UNCHANGED <<value, balance>>
  /\ UNCHANGED <<live, prio, disturbed>>

(* The rest of rt_sem_take, once the thread has been resumed.              *)
TakeReturn(t) ==
  /\ pc[t] = "wait" /\ ~Contains(suspend, t)
  /\ pc'      = [pc EXCEPT ![t] = "run"]
  /\ balance' = IF error[t] = "EOK" THEN Wrap(balance - 1) ELSE balance
  /\ UNCHANGED <<value, suspend, live, timer, error, prio, disturbed>>

(* Mutant of Release: the value is increased although the token was given. *)
ReleaseTwice ==
  /\ live
  /\ balance' = Wrap(balance + 1)
  /\ value'   = Wrap(value + 1)
  /\ IF suspend # <<>> THEN Resumed(Head(suspend)) ELSE UNCHANGED <<suspend, timer, disturbed>>
  /\ UNCHANGED <<live, error, pc, prio>>

(* rt_sem_release, by any thread or interrupt handler                      *)
Release ==
  /\ live
  /\ balance' = Wrap(balance + 1)
  /\ IF suspend # <<>>
     THEN Resumed(Head(suspend)) /\ UNCHANGED value
     ELSE value' = Wrap(value + 1) /\ UNCHANGED <<suspend, timer, disturbed>>
  /\ UNCHANGED <<live, error, pc, prio>>

(* Mutant of Timeout: the thread stays in the list.                        *)
TimeoutOnly(u) ==
  /\ u \in timer
  /\ error' = [error EXCEPT ![u] = "ETIMEOUT"]
  /\ timer' = timer \ {u}
  /\ UNCHANGED <<value, suspend, live, pc, prio, balance, disturbed>>

(* The clock interrupt finds the waiter's timer expired.                   *)
Timeout(u) ==
  /\ u \in timer
  /\ error' = [error EXCEPT ![u] = "ETIMEOUT"]
  /\ Resumed(u)
  /\ UNCHANGED <<value, live, pc, prio, balance>>

(* Mutant of Reset: waiters keep RT_EOK.                                   *)
ResetSilently(v) ==
  /\ live
  /\ suspend' = <<>> /\ disturbed' = FALSE
  /\ timer'   = timer \ Range(suspend)
  /\ value'   = v
  /\ balance' = Wrap(v + Cardinality(InFlight))
  /\ UNCHANGED <<live, error, pc, prio>>

(* rt_sem_control(RT_IPC_CMD_RESET): rt_ipc_list_resume_all within one     *)
(* section, and a new value.                                               *)
Reset(v) ==
  /\ live
  /\ error'   = [t \in Thread |-> IF Contains(suspend, t) THEN "ERROR" ELSE error[t]]
  /\ suspend' = <<>> /\ disturbed' = FALSE
  /\ timer'   = timer \ Range(suspend)
  /\ value'   = v
  /\ balance' = Wrap(v + Cardinality(InFlight))
  /\ UNCHANGED <<live, pc, prio>>

(* rt_thread_control(RT_THREAD_CTRL_CHANGE_PRIORITY) on a thread that need *)
(* not be the caller, as rt_mutex_take does to lend the owner a priority:  *)
(* a waiter keeps its place in the list.                                   *)
ChangePriority(u, p) ==
  /\ u \in Lent /\ p # prio[u]
  /\ prio'      = [prio EXCEPT ![u] = p]
  /\ disturbed' = (disturbed \/ Contains(suspend, u))
  /\ UNCHANGED <<value, suspend, live, timer, error, pc, balance>>

-----------------------------------------------------------------------------
(***************************************************************************)
(* rt_sem_delete, rt_sem_detach.  Its caller sees to it that nobody calls  *)
(* the semaphore any more; those that wait are still there.                *)
(***************************************************************************)
Delete(t) ==
  /\ pc[t] = "run" /\ live /\ t \in Deleter
  /\ live' = FALSE
  /\ pc'   = [pc EXCEPT ![t] = "check"]
  /\ UNCHANGED <<value, suspend, timer, error, prio, balance, disturbed>>

(* The while condition of rt_ipc_list_resume_all, interrupts enabled.      *)
DeleteCheck(t) ==
  /\ pc[t] = "check"
  /\ pc' = [pc EXCEPT ![t] = IF suspend = <<>> THEN "run" ELSE "resume"]
  /\ UNCHANGED <<value, suspend, live, timer, error, prio, balance, disturbed>>

(* Mutant of DeleteResume: the loop ends after one thread.                 *)
DeleteOne(t) ==
  /\ pc[t] = "resume"
  /\ suspend # <<>>
  /\ error' = [error EXCEPT ![Head(suspend)] = "ERROR"]
  /\ Resumed(Head(suspend))
  /\ pc' = [pc EXCEPT ![t] = "run"]
  /\ UNCHANGED <<value, live, prio, balance>>

(* Its body, which takes the head of the list for a thread unseen; with an *)
(* empty list rt_thread_resume's assertion stops the system.               *)
DeleteResume(t) ==
  /\ pc[t] = "resume"
  /\ suspend # <<>>
  /\ error' = [error EXCEPT ![Head(suspend)] = "ERROR"]
  /\ Resumed(Head(suspend))
  /\ pc' = [pc EXCEPT ![t] = "check"]
  /\ UNCHANGED <<value, live, prio, balance>>

(* rt_sem_create, rt_sem_init, once the old one is gone                    *)
Create(v) ==
  /\ ~live /\ \A t \in Thread : pc[t] \notin {"check", "resume"}
  /\ live'    = TRUE
  /\ value'   = v
  /\ suspend' = <<>> /\ disturbed' = FALSE
  /\ balance' = Wrap(v + Cardinality(InFlight))
  /\ UNCHANGED <<timer, error, pc, prio>>

-----------------------------------------------------------------------------
Init ==
  /\ value \in Values
  /\ suspend = <<>>
  /\ live    = TRUE
  /\ timer   = {}
  /\ error   = [t \in Thread |-> "EOK"]
  /\ pc      = [t \in Thread |-> "run"]
  /\ prio    = InitPrio
  /\ balance = value
  /\ disturbed = FALSE

ThreadNext(t) ==
  \/ Take(t)
  \/ TakeReturn(t)
  \/ Timeout(t)
  \/ Delete(t)
  \/ DeleteCheck(t)
  \/ DeleteResume(t)
  \/ \E p \in Prio : ChangePriority(t, p)

Next ==
  \/ \E t \in Thread : ThreadNext(t)
  \/ Release
  \/ \E v \in Values : Reset(v) \/ Create(v)

Spec == Init /\ [][Next]_vars

(* The clock keeps ticking, and a ready thread carries on with its call.   *)
Fairness ==
  \A t \in Thread : /\ WF_vars(Timeout(t)) /\ WF_vars(TakeReturn(t))
                    /\ WF_vars(DeleteCheck(t)) /\ WF_vars(DeleteResume(t))

FairSpec == Spec /\ Fairness

-----------------------------------------------------------------------------
TypeOK ==
  /\ value \in Values
  /\ suspend \in Seq(Thread) /\ IsInjective(suspend)
  /\ live \in BOOLEAN
  /\ timer \subseteq Thread
  /\ error \in [Thread -> {"EOK", "ETIMEOUT", "ERROR"}]
  /\ pc \in [Thread -> Labels]
  /\ prio \in [Thread -> Prio]
  /\ balance \in Values
  /\ disturbed \in BOOLEAN

(* No token is lost and none is made: the value is what was released minus *)
(* what has been taken, the tokens of resumed threads that have not yet    *)
(* returned included, although a timeout, a reset or a delete may race     *)
(* with the release that resumes a waiter.  And no thread sleeps beside a  *)
(* free token.                                                             *)
TokensConserved ==
  live => /\ value = Wrap(balance - Cardinality(InFlight))
          /\ value > 0 => suspend = <<>>

(* A thread timer only runs for a thread in the suspend list: a timer left *)
(* running by a resume would end some later wait of the thread, or set its *)
(* error after it was given a token.                                       *)
TimersOfWaiters == \A t \in timer : pc[t] = "wait" /\ Contains(suspend, t)

(* The state has its type, with no thread twice in the list and the value  *)
(* within its 16 bits, and timers run only for threads that wait.          *)
WaitersExact == TypeOK /\ TimersOfWaiters

GrantStep ==
  \A t \in Thread :
    /\ Flag = "PRIO" /\ ~disturbed
    /\ Contains(suspend, t) /\ ~Contains(suspend', t) /\ error'[t] = "EOK"
    => \A u \in Thread : Contains(suspend', u) => prio[t] <= prio[u]

(* With RT_IPC_FLAG_PRIO a release never passes over a waiter that is more *)
(* urgent now, as long as no thread had its priority changed while it was  *)
(* in the list, since the list was last empty.  Priorities that change     *)
(* before a thread waits, or after it was resumed, do not matter.  Without *)
(* the condition it is false: a waiter whose priority is raised keeps its  *)
(* place behind less urgent ones, and a later waiter is placed by the      *)
(* first less urgent one of a list that is not sorted.                     *)
GrantsMostUrgent == [][GrantStep]_vars

(* A take with a timeout returns.                                          *)
TimedTakeReturns == \A t \in Thread : t \in timer ~> pc[t] = "run"

(* Deleting a semaphore ends every wait for it.                            *)
DeleteEndsWaits ==
  \A t \in Thread : (pc[t] = "wait" /\ ~live) ~> (pc[t] = "run")

(* Every wait ends that should: the timed ones, and all when the semaphore *)
(* is deleted.                                                             *)
WaitsEnd == TimedTakeReturns /\ DeleteEndsWaits

(* rt_ipc_list_resume_all only resumes threads: the assertion of           *)
(* rt_thread_resume that its argument is one.                              *)
ResumesThread == \A t \in Thread : pc[t] = "resume" => suspend # <<>>

(* The semaphore implements the abstract counting semaphore.               *)
Request(t) ==
  IF pc[t] # "wait" THEN "none"
  ELSE IF Contains(suspend, t) THEN "asking"
  ELSE IF error[t] = "EOK" THEN "granted" ELSE "failed"

Abstract == INSTANCE CountingSemaphore
  WITH Modulus <- ValueMod, tokens <- value,
       request <- [t \in Thread |-> Request(t)]

ImplementsCounting == Abstract!AbsSpec
=============================================================================
