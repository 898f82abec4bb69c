----------------------------- MODULE WorkQueue -----------------------------
(***************************************************************************)
(* A work queue (workqueue.c): a list of works, the worker thread that     *)
(* runs them one after the other, and delayed works, which the timer       *)
(* thread submits.                                                         *)
(*                                                                         *)
(* A step is one section with interrupts disabled, or one unprotected      *)
(* look at the work.  Threads run by rank: a thread steps only while no    *)
(* more urgent one is ready, or alone while it has the scheduler locked.  A *)
(* client in Irq is an interrupt handler, which no thread holds up.        *)
(***************************************************************************)
EXTENDS SoftTimer

CONSTANTS
  Work,
  Client,     \* who submits and cancels
  Submits,    \* the works of each client
  Cancels,    \* the works each client cancels
  Mixed,      \* works submitted with a delay and without
  Locking,    \* clients that lock the scheduler around the calls for delayed works
  Irq,        \* clients that are interrupt handlers
  Rank,       \* urgency of the clients, the "worker" and the "timer" thread
  None

(* Timers are the works that are submitted with a delay.                   *)
ASSUME WorkQueueAssumption ==
  /\ Timers \subseteq Work /\ Mixed \subseteq Timers
  /\ Submits \in [Client -> SUBSET Work] /\ Cancels \in [Client -> SUBSET Work]
  /\ Locking \subseteq Client
  /\ Irq \subseteq Client
  /\ \A c \in Irq : Submits[c] \cap Timers = {} /\ Cancels[c] = {}
  /\ Rank \in [Client \cup {"worker", "timer"} -> Nat]
  /\ None \notin Work /\ {"worker", "timer"} \cap Client = {}

VARIABLES
  work_list, work_current,
  pending,      \* works with RT_WORK_STATE_PENDING
  submitting,   \* works with RT_WORK_STATE_SUBMITTING
  delayed,      \* works with RT_WORK_TYPE_DELAYED
  workqueue,    \* works whose workqueue points to the queue
  wpc,          \* where the worker is
  pc,           \* where each client is
  work,         \* the work a client's call is about
  again,        \* clients whose cancel is part of a submit
  ticks         \* clients whose submit has a delay

queuevars  == <<work_list, work_current, pending, submitting, delayed, workqueue>>
clientvars == <<pc, work, again, ticks>>
vars       == <<softvars, queuevars, wpc, clientvars>>

-----------------------------------------------------------------------------
WorkerReady    == wpc \notin {"asleep", "blocked"}
ClientReady(c) == pc[c] \notin {"run", "sync"}

(* Who has the scheduler locked; rt_soft_timer_check does for its walk.    *)
LockedBy ==
  {c \in Locking : ClientReady(c) /\ pc[c] # "synced"}
    \cup (IF tpc = "check" THEN {"timer"} ELSE {})

MoreUrgent(x) ==
  \/ WorkerReady /\ Rank["worker"] < Rank[x]
  \/ TimerThreadReady /\ Rank["timer"] < Rank[x]
  \/ \E c \in Client : ClientReady(c) /\ Rank[c] < Rank[x]

(* x is the thread, or one of the equally urgent threads, that runs.       *)
MayRun(x) ==
  \/ x \in Irq
  \/ IF LockedBy # {} THEN x \in LockedBy ELSE ~MoreUrgent(x)

(* rt_thread_resume(queue->work_thread): the worker takes a work next.     *)
WorkerResumed == IF wpc = "asleep" THEN "take" ELSE wpc

(* Mutant of Submit: a pending work is queued again, at the end.           *)
SubmitAgain(w) ==
  /\ work_list' = Append(work_list, w)
  /\ pending' = pending \cup {w}
  /\ wpc' = IF work_current = None THEN WorkerResumed ELSE wpc
  /\ UNCHANGED <<work_current, submitting, delayed, workqueue>>

(* Mutant of Submit: the worker is not resumed.                            *)
SubmitSilently(w) ==
  IF w \in pending \/ work_current = w THEN UNCHANGED <<queuevars, wpc>>
  ELSE /\ work_list' = Append(RemoveFirst(work_list, w), w)
       /\ pending' = pending \cup {w}
       /\ UNCHANGED <<work_current, submitting, delayed, workqueue, wpc>>

(* _workqueue_submit_work; -RT_EBUSY for a work that is pending or runs    *)
Submit(w) ==
  IF w \in pending \/ work_current = w THEN UNCHANGED <<queuevars, wpc>>
  ELSE /\ work_list' = Append(RemoveFirst(work_list, w), w)
       /\ pending' = pending \cup {w}
       /\ wpc' = IF work_current = None THEN WorkerResumed ELSE wpc
       /\ UNCHANGED <<work_current, submitting, delayed, workqueue>>

(* The part of _workqueue_cancel_work for a work that does not run         *)
Unqueue(w) ==
  /\ work_list' = RemoveFirst(work_list, w)
  /\ pending' = pending \ {w}
  /\ UNCHANGED <<work_current, submitting, delayed, workqueue>>

-----------------------------------------------------------------------------
(* Mutant of WorkerLook: the list is not looked at.                        *)
WorkerLookNever ==
  /\ wpc = "look"
  /\ wpc' = "take"
  /\ UNCHANGED <<queuevars, clientvars>>

(* _workqueue_thread_entry                                                 *)
WorkerLook ==
  /\ wpc = "look"
  /\ wpc' = IF work_list = <<>> THEN "suspend" ELSE "take"
  /\ UNCHANGED <<queuevars, clientvars>>

(* rt_thread_suspend and rt_schedule, whatever the list holds by now       *)
WorkerSuspend ==
  /\ wpc = "suspend"
  /\ wpc' = "asleep"
  /\ UNCHANGED <<queuevars, clientvars>>

(* Mutant of WorkerTake: the work stays marked as pending.                 *)
WorkerTakePending ==
  /\ wpc = "take" /\ work_list # <<>>
  /\ wpc' = "work_func"
  /\ work_current' = Head(work_list)
  /\ work_list' = Tail(work_list)
  /\ workqueue' = workqueue \ {Head(work_list)}
  /\ UNCHANGED <<pending, submitting, delayed, clientvars>>

(* The first work of the list; a worker that was resumed does not look     *)
(* again whether there is one, see TakesWork.                              *)
WorkerTake ==
  /\ wpc = "take" /\ work_list # <<>>
  /\ wpc' = "work_func"
  /\ work_current' = Head(work_list)
  /\ work_list' = Tail(work_list)
  /\ pending' = pending \ {Head(work_list)}
  /\ workqueue' = workqueue \ {Head(work_list)}
  /\ UNCHANGED <<submitting, delayed, clientvars>>

(* work_func may wait for something, once; then it returns.                *)
WorkFunc ==
  /\ wpc = "work_func"
  /\ wpc' \in {"blocked", "done"}
  /\ UNCHANGED <<queuevars, clientvars>>

Unblock ==
  /\ wpc = "blocked"
  /\ wpc' = "done"
  /\ UNCHANGED <<softvars, queuevars, clientvars>>

WorkerClean ==
  /\ wpc = "done"
  /\ wpc' = "ack"
  /\ work_current' = None
  /\ UNCHANGED <<work_list, pending, submitting, delayed, workqueue, clientvars>>

(* Mutant of WorkerAck: one thread is released.                            *)
WorkerAckOne ==
  /\ wpc = "ack"
  /\ wpc' = "look"
  /\ LET waiting == {c \in Client : pc[c] = "sync"}
     IN  IF waiting = {} THEN UNCHANGED pc
         ELSE \E c \in waiting : pc' = [pc EXCEPT ![c] = "synced"]
  /\ UNCHANGED <<queuevars, work, again, ticks>>

(* _workqueue_work_completion releases the semaphore until its value, and  *)
(* not a waiting thread, takes the token: all are woken, the value is 0.   *)
WorkerAck ==
  /\ wpc = "ack"
  /\ wpc' = "look"
  /\ pc' = [c \in Client |-> IF pc[c] = "sync" THEN "synced" ELSE pc[c]]
  /\ UNCHANGED <<queuevars, work, again, ticks>>

Worker ==
  /\ MayRun("worker")
  /\ \/ WorkerLook \/ WorkerSuspend \/ WorkerTake \/ WorkFunc \/ WorkerClean
     \/ WorkerAck
  /\ UNCHANGED softvars

-----------------------------------------------------------------------------
(* Mutant of HandlerStop: the work is detached from the queue too early.   *)
HandlerDetach ==
  /\ tpc = "callback"
  /\ tpc' = "submit"
  /\ active' = active \ {t} /\ soft' = RemoveFirst(soft, t)
  /\ submitting' = submitting \ {t} /\ delayed' = delayed \ {t}
  /\ workqueue' = workqueue \ {t}
  /\ UNCHANGED <<late, n, reached, t, work_list, work_current, pending, wpc, clientvars>>

(* _delayed_work_timeout_handler, called by the timer thread               *)
HandlerStop ==
  /\ tpc = "callback"
  /\ tpc' = "submit"
  /\ active' = active \ {t}
  /\ soft' = RemoveFirst(soft, t)
  /\ submitting' = submitting \ {t}
  /\ delayed' = delayed \ {t}
  /\ UNCHANGED <<late, n, reached, t, work_list, work_current, pending, workqueue, wpc, clientvars>>

(* It submits to work->workqueue and ignores the answer; see               *)
(* HandlerHasQueue for a work that has none.                               *)
HandlerSubmit ==
  /\ tpc = "submit" /\ t \in workqueue \cup pending
  /\ Submit(t)
  /\ tpc' = "called"
  /\ UNCHANGED <<soft, active, late, n, reached, t, clientvars>>

TimerStep ==
  /\ MayRun("timer")
  /\ \/ TimerThread /\ UNCHANGED <<queuevars, wpc, clientvars>>
     \/ HandlerStop
     \/ HandlerSubmit

-----------------------------------------------------------------------------
Goes(c, at) == pc' = [pc EXCEPT ![c] = at]

Return(c) ==
  /\ Goes(c, "run")
  /\ work'  = [work EXCEPT ![c] = None]
  /\ again' = again \ {c}
  /\ ticks' = ticks \ {c}

Call(c, w, at) ==
  /\ Goes(c, at)
  /\ work' = [work EXCEPT ![c] = w]

(* rt_workqueue_dowork, and rt_workqueue_submit_work without delay of a    *)
(* work that is not marked as delayed.  The mark is tested before the      *)
(* section.  It cannot change in between: a work outside Timers never has  *)
(* it, and for the others the scheduler is locked (Locking).               *)
SubmitWork(c, w) ==
  /\ pc[c] = "run" /\ w \in Submits[c] \ (delayed \cup (Timers \ Mixed))
  /\ Submit(w)
  /\ UNCHANGED <<softvars, clientvars>>

(* rt_workqueue_cancel_work of a work that is not marked as delayed, with  *)
(* the test before the section as in SubmitWork                            *)
CancelWork(c, w) ==
  /\ pc[c] = "run" /\ w \in Cancels[c] \ delayed /\ work_current # w
  /\ Unqueue(w)
  /\ UNCHANGED <<softvars, wpc, clientvars>>

(* rt_workqueue_cancel_work_sync: waits while the work runs                *)
CancelSync(c, w) ==
  /\ pc[c] = "run" /\ w \in Cancels[c] \ Timers
  /\ IF work_current = w
     THEN Call(c, w, "sync") /\ UNCHANGED <<queuevars, again, ticks>>
     ELSE Unqueue(w) /\ UNCHANGED clientvars
  /\ UNCHANGED <<softvars, wpc>>

CancelSynced(c) ==
  /\ pc[c] = "synced"
  /\ pending' = pending \ {work[c]}
  /\ Return(c)
  /\ UNCHANGED <<softvars, work_list, work_current, submitting, delayed, workqueue, wpc>>

(* rt_workqueue_submit_work with a delay, which marks the work, or of a    *)
(* work that is marked; one that has a queue is cancelled first.           *)
SubmitDelayed(c, w) ==
  /\ pc[c] = "run" /\ w \in Submits[c] \cap Timers
  /\ \/ delayed' = delayed \cup {w} /\ ticks' = ticks \cup {c}
     \/ w \in delayed /\ UNCHANGED <<delayed, ticks>>
  /\ IF w \in workqueue THEN Call(c, w, "cancel") /\ again' = again \cup {c}
                        ELSE Call(c, w, "attach") /\ UNCHANGED again
  /\ UNCHANGED <<softvars, work_list, work_current, pending, submitting, workqueue, wpc>>

(* rt_workqueue_cancel_work of a delayed work                              *)
CancelDelayed(c, w) ==
  /\ pc[c] = "run" /\ w \in Cancels[c] \cap delayed
  /\ Call(c, w, "cancel")
  /\ UNCHANGED <<softvars, queuevars, wpc, again, ticks>>

(* _workqueue_cancel_delayed_work looks for the queue, then at the flags.  *)
CancelLook(c) ==
  /\ \/ /\ pc[c] = "cancel"
        /\ IF work[c] \in workqueue THEN Goes(c, "pending?") /\ UNCHANGED <<work, again, ticks>>
                                    ELSE Return(c)
     \/ /\ pc[c] = "pending?"
        /\ Goes(c, IF work[c] \in pending THEN "unqueue" ELSE "submitting?")
        /\ UNCHANGED <<work, again, ticks>>
     \/ /\ pc[c] = "submitting?"
        /\ Goes(c, IF work[c] \in submitting THEN "stop" ELSE "detach")
        /\ UNCHANGED <<work, again, ticks>>
  /\ UNCHANGED <<softvars, queuevars, wpc>>

(* Mutant of CancelUnqueue: the work is only unmarked.                     *)
CancelUnmark(c) ==
  /\ pc[c] = "unqueue"
  /\ pending' = pending \ {work[c]}
  /\ Goes(c, "detach")
  /\ UNCHANGED <<softvars, work_list, work_current, submitting, delayed, workqueue, wpc,
                 work, again, ticks>>

(* A work that runs by now is not cancelled: -RT_EBUSY.                    *)
CancelUnqueue(c) ==
  /\ pc[c] = "unqueue"
  /\ IF work_current = work[c]
     THEN Return(c) /\ UNCHANGED queuevars
     ELSE Unqueue(work[c]) /\ Goes(c, "detach") /\ UNCHANGED <<work, again, ticks>>
  /\ UNCHANGED <<softvars, wpc>>

CancelStop(c) ==
  /\ pc[c] = "stop"
  /\ SoftStop(work[c])
  /\ submitting' = submitting \ {work[c]}
  /\ Goes(c, "detach")
  /\ UNCHANGED <<work_list, work_current, pending, delayed, workqueue, wpc, work, again, ticks>>

CancelDetach(c) ==
  /\ pc[c] = "detach"
  /\ workqueue' = workqueue \ {work[c]}
  /\ pending' = pending \ {work[c]}
  /\ IF c \in again THEN Goes(c, "attach") /\ again' = again \ {c} /\ UNCHANGED <<work, ticks>>
                    ELSE Return(c)
  /\ UNCHANGED <<softvars, work_list, work_current, submitting, delayed, wpc>>

(* _workqueue_submit_delayed_work goes on: without ticks the work is       *)
(* submitted, else its timer is started.                                   *)
Attach(c) ==
  /\ pc[c] = "attach"
  /\ workqueue' = workqueue \cup {work[c]}
  /\ Goes(c, IF c \in ticks THEN "arm" ELSE "submit")
  /\ UNCHANGED <<softvars, work_list, work_current, pending, submitting, delayed, wpc,
                 work, again, ticks>>

SubmitNow(c) ==
  /\ pc[c] = "submit"
  /\ Submit(work[c])
  /\ Return(c)
  /\ UNCHANGED softvars

(* rt_timer_init, and rt_timer_start in a later section.  A work that has  *)
(* no queue has no timer in the list (Marks in WorkQueueProofs), so the    *)
(* links that rt_timer_init overwrites are those of an unlisted node.      *)
Arm(c) ==
  /\ pc[c] = "arm"
  /\ submitting' = submitting \cup {work[c]}
  /\ active' = active \ {work[c]}
  /\ Goes(c, "start")
  /\ UNCHANGED <<soft, late, tpc, n, reached, t, work_list, work_current, pending, delayed,
                 workqueue, wpc, work, again, ticks>>

StartTimer(c) ==
  /\ pc[c] = "start"
  /\ SoftStart(work[c])
  /\ Return(c)
  /\ UNCHANGED <<queuevars, wpc>>

GoOn(c) ==
  /\ MayRun(c)
  /\ \/ CancelSynced(c) \/ CancelLook(c) \/ CancelUnqueue(c) \/ CancelStop(c)
     \/ CancelDetach(c) \/ Attach(c) \/ SubmitNow(c) \/ Arm(c) \/ StartTimer(c)

Begin(c) ==
  /\ MayRun(c)
  /\ \E w \in Work : \/ SubmitWork(c, w) \/ CancelWork(c, w) \/ CancelSync(c, w)
                     \/ SubmitDelayed(c, w) \/ CancelDelayed(c, w)

-----------------------------------------------------------------------------
(* rt_workqueue_create, rt_work_init                                       *)
Init ==
  /\ SoftInit
  /\ work_list = <<>> /\ work_current = None
  /\ pending = {} /\ submitting = {} /\ delayed = {} /\ workqueue = {}
  /\ wpc = "look"
  /\ pc = [c \in Client |-> "run"]
  /\ work = [c \in Client |-> None]
  /\ again = {} /\ ticks = {}

Clock == (Elapse \/ DelayEnds) /\ UNCHANGED <<queuevars, wpc, clientvars>>

Next ==
  \/ Worker \/ TimerStep \/ Unblock \/ Clock
  \/ \E c \in Client : Begin(c) \/ GoOn(c)

Spec == Init /\ [][Next]_vars

(* The worker and the timer thread run when they may, work functions       *)
(* return, the clock goes on, and clients finish the calls they began.     *)
Fairness ==
  /\ WF_vars(Worker) /\ WF_vars(TimerStep) /\ WF_vars(Unblock)
  /\ WF_vars(Elapse /\ UNCHANGED <<queuevars, wpc, clientvars>>)
  /\ WF_vars(DelayEnds /\ UNCHANGED <<queuevars, wpc, clientvars>>)
  /\ \A c \in Client : WF_vars(GoOn(c))

FairSpec == Spec /\ Fairness

-----------------------------------------------------------------------------
TypeOK ==
  /\ SoftTypeOK
  /\ work_list \in Seq(Work) /\ IsInjective(work_list)
  /\ work_current \in Work \cup {None}
  /\ {pending, delayed, workqueue} \subseteq SUBSET Work /\ submitting \subseteq Timers
  /\ wpc \in {"look", "suspend", "asleep", "take", "work_func", "blocked", "done", "ack"}
  /\ pc \in [Client -> {"run", "sync", "synced", "cancel", "pending?", "submitting?",
                        "unqueue", "stop", "detach", "attach", "submit", "arm", "start"}]
  /\ work \in [Client -> Work \cup {None}]
  /\ again \subseteq Client /\ ticks \subseteq Client

(* The worker never takes the head of an empty list for a work: "we have   *)
(* work to do with", however submits, cancels and its own sleep mix.       *)
TakesWork == wpc = "take" /\ MayRun("worker") => work_list # <<>>

(* A thread that suspended itself because there was nothing to do does not *)
(* sleep beside a work or a timer that came since.                         *)
SleepsOnlyIdle ==
  /\ wpc = "asleep" => work_list = <<>>
  /\ tpc = "asleep" => soft = <<>>

(* When the timeout handler submits a work it still has the queue that was *)
(* attached for it; the handler would follow a null pointer otherwise.     *)
HandlerHasQueue == tpc = "submit" /\ MayRun("timer") => t \in workqueue \cup pending

(* A work marked as pending is in the list.  Otherwise every later submit  *)
(* is refused as busy and the work never runs again.                       *)
PendingListed == \A w \in pending : Contains(work_list, w)

(* The state has its type, with no work twice in the list, and the marks   *)
(* on the works agree with the list.                                       *)
FlagsExact == TypeOK /\ PendingListed

(* The worker, the timeout handler and the walk over the soft timers find  *)
(* what they follow: a work, a queue and a timer that are still there.     *)
PointersLive == TakesWork /\ HandlerHasQueue /\ WalkInList

(* A cancel that succeeds leaves the work out of the list: it does not run *)
(* after its owner was told that it would not.                             *)
CancelledGone ==
  [][\A c \in Client : pc[c] = "detach" /\ pc'[c] = "run" => ~Contains(work_list', work[c])]_vars

(* Every work in the list is taken or cancelled, every timer whose time    *)
(* has come is called or stopped, and every synchronous cancel is woken.   *)
WorkIsDone ==
  /\ \A w \in Work : Contains(work_list, w) ~> ~Contains(work_list, w)
  /\ \A u \in Timers : (Contains(soft, u) /\ u \in late) ~> ~Contains(soft, u)
  /\ \A c \in Client : pc[c] = "sync" ~> pc[c] # "sync"
=============================================================================
