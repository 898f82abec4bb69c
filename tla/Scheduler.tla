----------------------------- MODULE Scheduler -----------------------------
(***************************************************************************)
(* The scheduling core of the Melis kernel: the priority scheduler         *)
(* (scheduler.c), the life of a thread (thread.c, idle.c), the per-thread  *)
(* preempt_count (preempt.h), interrupt entry and exit (irq.c, port.c) and *)
(* the clock tick's time slice (clock.c).                                  *)
(*                                                                         *)
(* There is one CPU.  A step of this specification is one section of code  *)
(* that runs with interrupts disabled; whatever the code does after it     *)
(* re-enables them is a later step of the same thread, held in pc[t], so   *)
(* that an interrupt, and through it any other thread, can come between.   *)
(*                                                                         *)
(* Kernel objects appear only through what they do to threads: `waiting'   *)
(* is the set of threads blocked where a kernel object will find them and  *)
(* resume them with interrupts disabled (an IPC suspend list, a            *)
(* completion, an idle work queue).                                        *)
(***************************************************************************)
EXTENDS Integers, Sequences, SequencesExt

CONSTANTS
  Thread,     \* the thread control blocks of the system
  Idle,       \* the idle thread
  Boot,       \* the threads started before the scheduler starts
  MaxPrio,    \* RT_THREAD_PRIORITY_MAX; 0 is the most urgent priority
  InitPrio,   \* init_priority of every thread
  Slice,      \* init_tick, the time slice
  MaxLevel,   \* bound on the nesting of rt_enter_critical
  MaxIrq,     \* bound on the nesting of interrupts
  Static,     \* threads that are system objects (rt_thread_init)
  Cleanup,    \* threads with a cleanup function
  Timed,      \* threads that use rt_thread_sleep and timed waits
  Ending,     \* threads whose entry function may return
  Manages,    \* <<t, u>>: t creates, starts, suspends, resumes, deletes u
  Kept        \* the caller rules that are kept, of those in Rules

Prio == 0 .. MaxPrio - 1

(* What callers must not do although thread.c does not check it:           *)
(*   resume_unblocked  rt_thread_resume is not called for a thread that    *)
(*                     waits for a kernel object (it checks SUSPEND only,  *)
(*                     thread.c:793, with interrupts enabled);             *)
(*   exit_unlocked     no entry function returns with the scheduler locked *)
(*                     (rt_thread_exit does not unlock it);                *)
(*   delete_unlent     no thread is deleted while it owns a mutex, for     *)
(*                     which any taker may change its priority.            *)
Rules == {"resume_unblocked", "exit_unlocked", "delete_unlent"}

ASSUME ThreadAssumption ==
  /\ Idle \in Boot /\ Boot \subseteq Thread /\ IsFiniteSet(Boot)
  /\ Static \subseteq Thread /\ Cleanup \subseteq Thread
  /\ Timed \subseteq Thread
  /\ Ending \subseteq Thread \ {Idle}   \* idle's entry is an endless loop
  /\ Kept \subseteq Rules
  /\ Manages \subseteq Thread \X Thread

ASSUME PrioAssumption ==
  /\ MaxPrio \in Nat \ {0}
  /\ InitPrio \in [Thread -> Prio]
  /\ InitPrio[Idle] = MaxPrio - 1

ASSUME BoundAssumption ==
  /\ Slice \in Nat \ {0}
  /\ MaxLevel \in Nat
  /\ MaxIrq \in Nat

Managed == {u \in Thread : \E t \in Thread : <<t, u>> \in Manages}

VARIABLES
  cur,        \* rt_current_thread
  stat,       \* thread->stat
  prio,       \* thread->current_priority
  ready,      \* rt_thread_priority_table: the ready queue of each priority
  group,      \* rt_thread_ready_priority_group, as the set of its bits
  waiting,    \* threads linked on the wait list of a kernel object
  timer,      \* threads whose thread_timer is in the timer list
  defunct,    \* rt_thread_defunct
  remaining,  \* thread->remaining_tick
  level,      \* PREEMPT_MASK of thread->preempt_count: scheduler locks held
  hardirq,    \* HARDIRQ_MASK of thread->preempt_count: interrupt nesting
  resched,    \* PREEMPT_NEED_RESCHED of thread->preempt_count
  pc,         \* what the thread does next
  obj         \* the thread that pc[t] is about

vars == <<cur, stat, prio, ready, group, waiting, timer, defunct, remaining,
          level, hardirq, resched, pc, obj>>

lists  == <<stat, ready, group, waiting, timer, defunct>>
counts == <<level, hardirq, resched>>

Stats  == {"FREE", "INIT", "READY", "SUSPEND", "CLOSE"}

Labels == {"run", "schedule",            \* between calls; rt_schedule() due
           "start1", "start2",           \* rt_thread_startup of obj[t]
           "resume1", "resume2",         \* rt_thread_resume of obj[t]
           "suspend",                    \* rt_thread_suspend of obj[t]
           "delete1", "delete2",         \* rt_thread_delete of obj[t]
           "detach",                     \* rt_thread_detach of obj[t]
           "free"}                       \* the idle thread frees obj[t]

-----------------------------------------------------------------------------
(***************************************************************************)
(* Lists.  A thread's tlist node links it into one list at a time, so      *)
(* removing it takes it out of whatever list it is in.                     *)
(***************************************************************************)

Unlinked(rdy, u) == [p \in Prio |-> RemoveFirst(rdy[p], u)]

(* Mutants of GroupWithout: the bit is never cleared; it is cleared while  *)
(* the queue still holds a thread.                                         *)
GroupKept(rdy, grp, u)    == grp
GroupCleared(rdy, grp, u) == grp \ {prio[u]}

(* rt_schedule_remove_thread: the bit of u's priority is cleared when its  *)
(* ready queue is empty afterwards, whatever list u was in.                *)
GroupWithout(rdy, grp, u) ==
  IF Unlinked(rdy, u)[prio[u]] = <<>> THEN grp \ {prio[u]} ELSE grp

RemoveThread(u) ==
  /\ ready'   = Unlinked(ready, u)
  /\ group'   = GroupWithout(ready, group, u)
  /\ waiting' = waiting \ {u}
  /\ defunct' = RemoveFirst(defunct, u)

(* rt_schedule_insert_thread: READY, at the tail of its priority's queue.  *)
Inserted(rdy, u) == [rdy EXCEPT ![prio[u]] = Append(@, u)]

InsertThread(rdy, u) ==
  /\ stat'  = [stat EXCEPT ![u] = "READY"]
  /\ ready' = Inserted(rdy, u)
  /\ group' = group \cup {prio[u]}

(* Mutant of MakeReady: rt_timer_stop is forgotten.                        *)
MakeReadyTimed(u) ==
  /\ InsertThread(Unlinked(ready, u), u)
  /\ waiting' = waiting \ {u}
  /\ defunct' = RemoveFirst(defunct, u)
  /\ UNCHANGED timer

(* rt_thread_resume inside a section with interrupts disabled, and the     *)
(* body of rt_thread_timeout.                                              *)
MakeReady(u) ==
  /\ InsertThread(Unlinked(ready, u), u)
  /\ waiting' = waiting \ {u}
  /\ timer'   = timer \ {u}
  /\ defunct' = RemoveFirst(defunct, u)

-----------------------------------------------------------------------------
(***************************************************************************)
(* rt_schedule, given the ready table, the bitmap and the counts that its  *)
(* caller has left.  With the scheduler locked, or inside an interrupt, it *)
(* only notes in the current thread that a reschedule is due.              *)
(***************************************************************************)
HighestReady(grp) == CHOOSE p \in grp : \A q \in grp : p <= q

ToThread(rdy, grp) == Head(rdy[HighestReady(grp)])

(* Mutant of RtSchedule: it switches inside an interrupt handler.          *)
ScheduleInIrq(rdy, grp, lvl, irq) ==
  LET defer == lvl[cur] > 0
  IN  /\ resched' = [resched EXCEPT ![cur] = defer]
      /\ cur' = IF defer THEN cur ELSE ToThread(rdy, grp)

RtSchedule(rdy, grp, lvl, irq) ==
  LET to     == ToThread(rdy, grp)
      defer  == lvl[cur] > 0 \/ (to # cur /\ irq[cur] > 0)
  IN  /\ resched' = [resched EXCEPT ![cur] = defer]
      /\ cur' = IF defer THEN cur ELSE to

(* The CPU executes thread t, outside any interrupt, at label l.           *)
At(t, l) == cur = t /\ hardirq[t] = 0 /\ pc[t] = l

GotoOn(t, l, u) == /\ pc'  = [pc EXCEPT ![t] = l]
                   /\ obj' = [obj EXCEPT ![t] = u]

Goto(t, l) == GotoOn(t, l, t)

(* The rt_schedule() at the end of a call.                                 *)
Schedule(t) ==
  /\ At(t, "schedule")
  /\ RtSchedule(ready, group, level, hardirq)
  /\ Goto(t, "run")
  /\ UNCHANGED <<lists, prio, remaining, level, hardirq>>

EnterCritical(t) ==
  /\ At(t, "run")
  /\ level[t] < MaxLevel
  /\ level' = [level EXCEPT ![t] = @ + 1]
  /\ UNCHANGED <<cur, lists, prio, remaining, hardirq, resched, pc, obj>>

(* Mutants of ExitCritical: one unlock too many; no rt_schedule after it.  *)
ExitTwice(t) ==
  /\ At(t, "run")
  /\ level' = [level EXCEPT ![t] = @ - 1]
  /\ Goto(t, IF level[t] <= 1 THEN "schedule" ELSE "run")
  /\ UNCHANGED <<cur, lists, prio, remaining, hardirq, resched>>

ExitSilently(t) ==
  /\ At(t, "run")
  /\ level[t] > 0
  /\ level' = [level EXCEPT ![t] = @ - 1]
  /\ UNCHANGED <<cur, lists, prio, remaining, hardirq, resched, pc, obj>>

(* The last rt_exit_critical goes on to rt_schedule.                       *)
ExitCritical(t) ==
  /\ At(t, "run")
  /\ level[t] > 0
  /\ level' = [level EXCEPT ![t] = @ - 1]
  /\ Goto(t, IF level[t] = 1 THEN "schedule" ELSE "run")
  /\ UNCHANGED <<cur, lists, prio, remaining, hardirq, resched>>

-----------------------------------------------------------------------------
(***************************************************************************)
(* Creating, starting and resuming a thread.                               *)
(***************************************************************************)

(* rt_thread_init, rt_thread_create                                        *)
Create(t, u) ==
  /\ At(t, "run") /\ <<t, u>> \in Manages
  /\ stat[u] = "FREE"
  /\ stat'      = [stat EXCEPT ![u] = "INIT"]
  /\ prio'      = [prio EXCEPT ![u] = InitPrio[u]]
  /\ remaining' = [remaining EXCEPT ![u] = Slice]
  /\ level'     = [level EXCEPT ![u] = 0]
  /\ hardirq'   = [hardirq EXCEPT ![u] = 0]
  /\ resched'   = [resched EXCEPT ![u] = FALSE]
  /\ Goto(u, "run")
  /\ UNCHANGED <<cur, ready, group, waiting, timer, defunct>>

(* rt_thread_startup up to its call of rt_thread_resume                    *)
Startup(t, u) ==
  /\ At(t, "run") /\ <<t, u>> \in Manages
  /\ stat[u] = "INIT"
  /\ prio' = [prio EXCEPT ![u] = InitPrio[u]]
  /\ stat' = [stat EXCEPT ![u] = "SUSPEND"]
  /\ GotoOn(t, "start1", u)
  /\ UNCHANGED <<cur, ready, group, waiting, timer, defunct, remaining, counts>>

(* The check of rt_thread_resume, called with interrupts enabled by the    *)
(* thread that manages u.  The second conjunct is the caller's rule.       *)
Resume(t, u) ==
  /\ At(t, "run") /\ <<t, u>> \in Manages
  /\ stat[u] = "SUSPEND"
  /\ "resume_unblocked" \in Kept => u \notin waiting
  /\ GotoOn(t, "resume1", u)
  /\ UNCHANGED <<cur, lists, prio, remaining, counts>>

(* Its first section: out of the suspend list, thread timer stopped.       *)
ResumeUnlink(t) ==
  /\ \/ At(t, "start1")  /\ GotoOn(t, "start2", obj[t])
     \/ At(t, "resume1") /\ GotoOn(t, "resume2", obj[t])
  /\ ready'   = Unlinked(ready, obj[t])
  /\ waiting' = waiting \ {obj[t]}
  /\ timer'   = timer \ {obj[t]}
  /\ defunct' = RemoveFirst(defunct, obj[t])
  /\ UNCHANGED <<cur, stat, prio, group, remaining, counts>>

(* preemptible(): the whole preempt_count is zero, NEED_RESCHED included.  *)
Preemptible(t) == level[t] = 0 /\ hardirq[t] = 0 /\ ~resched[t]

(* Its second section, rt_schedule_insert_thread.  Only rt_thread_startup  *)
(* goes on to rt_schedule, and only when preemptible.                      *)
ResumeInsert(t) ==
  /\ \/ At(t, "start2")  /\ Goto(t, IF Preemptible(t) THEN "schedule" ELSE "run")
     \/ At(t, "resume2") /\ Goto(t, "run")
  /\ InsertThread(ready, obj[t])
  /\ UNCHANGED <<cur, prio, waiting, timer, defunct, remaining, counts>>

-----------------------------------------------------------------------------
(***************************************************************************)
(* Suspending, sleeping, blocking, waking.                                 *)
(***************************************************************************)

(* rt_thread_suspend's check of another thread's state ...                 *)
Suspend(t, u) ==
  /\ At(t, "run") /\ <<t, u>> \in Manages
  /\ stat[u] = "READY"
  /\ GotoOn(t, "suspend", u)
  /\ UNCHANGED <<cur, lists, prio, remaining, counts>>

(* The section of rt_thread_suspend, which acts on what was checked before *)
SuspendThread(u) ==
  /\ stat' = [stat EXCEPT ![u] = "SUSPEND"]
  /\ RemoveThread(u)

SuspendDo(t) ==
  /\ At(t, "suspend")
  /\ SuspendThread(obj[t])
  /\ timer' = timer \ {obj[t]}
  /\ Goto(t, "run")
  /\ UNCHANGED <<cur, prio, remaining, counts>>

(* A managed thread suspends itself and calls rt_schedule.                 *)
SuspendSelf(t) ==
  /\ At(t, "run") /\ t \in Managed
  /\ stat[t] = "READY"
  /\ SuspendThread(t)
  /\ timer' = timer \ {t}
  /\ Goto(t, "schedule")
  /\ UNCHANGED <<cur, prio, remaining, counts>>

(* rt_thread_sleep.  Nothing forbids it with the scheduler locked: the     *)
(* thread then runs on, suspended, until it unlocks the scheduler.         *)
Sleep(t) ==
  /\ At(t, "run") /\ t \in Timed /\ t # Idle
  /\ IF stat[t] = "READY" THEN SuspendThread(t)
     ELSE UNCHANGED <<stat, ready, group, waiting, defunct>>
  /\ timer' = timer \cup {t}
  /\ Goto(t, "schedule")
  /\ UNCHANGED <<cur, prio, remaining, counts>>

(* A wait on a kernel object (rt_ipc_list_suspend, and the thread timer    *)
(* when the wait has a timeout).  CONFIG_CHECK_PREEMPT_LEVEL_IN_IPC        *)
(* asserts that the scheduler is not locked.                               *)
Block(t) ==
  /\ At(t, "run") /\ t # Idle
  /\ level[t] = 0
  /\ stat[t] = "READY"
  /\ stat'    = [stat EXCEPT ![t] = "SUSPEND"]
  /\ ready'   = Unlinked(ready, t)
  /\ group'   = GroupWithout(ready, group, t)
  /\ waiting' = waiting \cup {t}
  /\ \/ timer' = timer \ {t}
     \/ t \in Timed /\ timer' = timer \cup {t}
  /\ Goto(t, "schedule")
  /\ UNCHANGED <<cur, prio, defunct, remaining, counts>>

(* A thread releases a kernel object that u waits for, then reschedules.   *)
Wake(t, u) ==
  /\ At(t, "run") /\ u \in waiting
  /\ stat[u] = "SUSPEND"
  /\ MakeReady(u)
  /\ Goto(t, "schedule")
  /\ UNCHANGED <<cur, prio, remaining, counts>>

(* Mutant of Yielded: the thread stays at the head of its queue.           *)
NotYielded == ready

(* rt_thread_yield's section: to the tail, when it is not alone there.     *)
Yielded ==
  IF stat[cur] = "READY" /\ Len(ready[prio[cur]]) > 1
  THEN Inserted(Unlinked(ready, cur), cur)
  ELSE ready

Yield(t) ==
  /\ At(t, "run")
  /\ ready' = Yielded
  /\ Goto(t, "schedule")
  /\ UNCHANGED <<cur, stat, prio, group, waiting, timer, defunct, remaining,
                 counts>>

(* The threads that a caller of rt_thread_delete has already taken out of  *)
(* their queue and not yet closed.                                         *)
Dying == {u \in Thread : \E t \in Thread :
                            pc[t] \in {"delete1", "delete2"} /\ obj[t] = u}

(* Who may give u the priority p: u itself, its manager, and, to lend it a *)
(* more urgent one, whoever takes a mutex that u owns (rt_mutex_take,      *)
(* ipc.c:778-784; the taker's wait is Block) or releases one to u          *)
(* (rt_mutex_release, ipc.c:917-921).                                      *)
MayChange(t, u, p) ==
  /\ u # Idle
  /\ stat[u] \in {"READY", "SUSPEND"}
  /\ \/ u = t \/ <<t, u>> \in Manages
     \/ /\ p < prio[u]
        /\ "delete_unlent" \in Kept => u \notin Dying

(* Mutant of ChangePriority: the thread stays in its old queue.            *)
PriorityOnly(t, u, p) ==
  /\ At(t, "run") /\ MayChange(t, u, p)
  /\ prio' = [prio EXCEPT ![u] = p]
  /\ UNCHANGED <<cur, lists, remaining, counts, pc, obj>>

(* rt_thread_control(RT_THREAD_CTRL_CHANGE_PRIORITY), without a reschedule *)
ChangePriority(t, u, p) ==
  /\ At(t, "run") /\ MayChange(t, u, p)
  /\ prio' = [prio EXCEPT ![u] = p]
  /\ IF stat[u] = "READY"
     THEN /\ ready' = [Unlinked(ready, u) EXCEPT ![p] = Append(@, u)]
          /\ group' = GroupWithout(ready, group, u) \cup {p}
     ELSE UNCHANGED <<ready, group>>
  /\ UNCHANGED <<cur, stat, waiting, timer, defunct, remaining, counts, pc, obj>>

-----------------------------------------------------------------------------
(***************************************************************************)
(* The end of a thread.                                                    *)
(***************************************************************************)

(* CLOSE, and the head of the defunct list; a static thread with no        *)
(* cleanup is just detached from the object system.                        *)
Detached == Static \ Cleanup

(* Mutants of Buried: a detached thread is buried too; nobody is.          *)
BuriedAlways(dfn, u) == <<u>> \o dfn
BuriedNever(dfn, u)  == dfn

Buried(dfn, u) == IF u \in Detached THEN dfn ELSE <<u>> \o dfn
DeadStat(u)    == IF u \in Detached THEN "FREE" ELSE "CLOSE"

(* rt_thread_exit, when the thread's entry function returns                *)
Exit(t) ==
  /\ At(t, "run") /\ t \in Ending
  /\ "exit_unlocked" \in Kept => level[t] = 0
  /\ stat'    = [stat EXCEPT ![t] = DeadStat(t)]
  /\ ready'   = Unlinked(ready, t)
  /\ group'   = GroupWithout(ready, group, t)
  /\ waiting' = waiting \ {t}
  /\ timer'   = timer \ {t}
  /\ defunct' = Buried(RemoveFirst(defunct, t), t)
  /\ Goto(t, "schedule")
  /\ UNCHANGED <<cur, prio, remaining, counts>>

(* Mutant of Delete: the thread is left in its queue.                      *)
DeleteQueued(t, u) ==
  /\ At(t, "run") /\ <<t, u>> \in Manages
  /\ stat[u] \in {"INIT", "READY", "SUSPEND"}
  /\ GotoOn(t, "delete1", u)
  /\ UNCHANGED <<cur, lists, prio, remaining, counts>>

(* rt_thread_delete (rt_thread_detach of a static thread) of another       *)
(* thread: out of its queue ...                                            *)
Delete(t, u) ==
  /\ At(t, "run") /\ <<t, u>> \in Manages
  /\ stat[u] \in {"INIT", "READY", "SUSPEND"}
  /\ IF stat[u] = "INIT" THEN UNCHANGED <<ready, group, waiting, defunct>>
     ELSE RemoveThread(u)
  /\ GotoOn(t, "delete1", u)
  /\ UNCHANGED <<cur, stat, prio, timer, remaining, counts>>

(* ... its timer detached ...                                              *)
DeleteTimer(t) ==
  /\ At(t, "delete1")
  /\ timer' = timer \ {obj[t]}
  /\ GotoOn(t, "delete2", obj[t])
  /\ UNCHANGED <<cur, stat, prio, ready, group, waiting, defunct, remaining,
                 counts>>

(* ... closed.  rt_thread_delete leaves it to the idle thread in the same  *)
(* section; rt_thread_detach sets CLOSE with interrupts enabled ...        *)
DeleteClose(t) ==
  /\ At(t, "delete2")
  /\ stat' = [stat EXCEPT ![obj[t]] = "CLOSE"]
  /\ IF obj[t] \in Static
     THEN /\ GotoOn(t, "detach", obj[t])
          /\ UNCHANGED defunct
     ELSE /\ Goto(t, "run")
          /\ defunct' = Buried(defunct, obj[t])
  /\ UNCHANGED <<cur, prio, ready, group, waiting, timer, remaining, counts>>

(* ... and detaches it from the object system, or buries it if it has a    *)
(* cleanup function, in a section of its own.                              *)
DetachBury(t) ==
  /\ At(t, "detach")
  /\ stat'    = [stat EXCEPT ![obj[t]] = DeadStat(obj[t])]
  /\ defunct' = Buried(defunct, obj[t])
  /\ Goto(t, "run")
  /\ UNCHANGED <<cur, prio, ready, group, waiting, timer, remaining, counts>>

(* rt_thread_idle_excute takes the head of the defunct list, under the     *)
(* scheduler lock and with interrupts disabled, and its rt_exit_critical   *)
(* reschedules before they are enabled again.  A system object is detached *)
(* there ...                                                               *)
IdleReap ==
  /\ At(Idle, "run") /\ level[Idle] = 0
  /\ defunct # <<>>
  /\ defunct' = Tail(defunct)
  /\ IF Head(defunct) \in Static
     THEN /\ stat' = [stat EXCEPT ![Head(defunct)] = "FREE"]
          /\ UNCHANGED <<pc, obj>>
     ELSE /\ GotoOn(Idle, "free", Head(defunct))
          /\ UNCHANGED stat
  /\ RtSchedule(ready, group, level, hardirq)
  /\ UNCHANGED <<prio, ready, group, waiting, timer, remaining, level, hardirq>>

(* ... and any other thread's stack and object are freed when idle runs    *)
(* again.                                                                  *)
IdleFree ==
  /\ At(Idle, "free")
  /\ stat' = [stat EXCEPT ![obj[Idle]] = "FREE"]
  /\ Goto(Idle, "run")
  /\ UNCHANGED <<cur, prio, ready, group, waiting, timer, defunct, remaining,
                 counts>>

-----------------------------------------------------------------------------
(***************************************************************************)
(* Interrupts.  The nesting is counted in the thread that was interrupted. *)
(***************************************************************************)
InIrq == hardirq[cur] > 0

IrqEnter ==
  /\ hardirq[cur] < MaxIrq
  /\ hardirq' = [hardirq EXCEPT ![cur] = @ + 1]
  /\ UNCHANGED <<cur, lists, prio, remaining, level, resched, pc, obj>>

(* rt_interrupt_leave, then schedule_preempt_inirq with interrupts still   *)
(* disabled; its loop ends after one rt_schedule, which leaves the thread  *)
(* without NEED_RESCHED.                                                   *)
IrqLeave ==
  /\ InIrq
  /\ hardirq' = [hardirq EXCEPT ![cur] = @ - 1]
  /\ IF level[cur] # 0 \/ hardirq[cur] # 1
     THEN UNCHANGED <<cur, resched>>
     ELSE RtSchedule(ready, group, level, hardirq')
  /\ UNCHANGED <<lists, prio, remaining, level, pc, obj>>

(* A driver's handler releases a kernel object.                            *)
IrqWake(u) ==
  /\ InIrq /\ u \in waiting
  /\ stat[u] = "SUSPEND"
  /\ MakeReady(u)
  /\ RtSchedule(ready', group', level, hardirq)
  /\ UNCHANGED <<prio, remaining, level, hardirq, pc, obj>>

(* rt_tick_increase: the interrupted thread's slice, and its yield.        *)
IrqTick ==
  /\ InIrq
  /\ IF remaining[cur] = 1
     THEN /\ remaining' = [remaining EXCEPT ![cur] = Slice]
          /\ ready' = Yielded
          /\ RtSchedule(ready', group, level, hardirq)
     ELSE /\ remaining' = [remaining EXCEPT ![cur] = @ - 1]
          /\ UNCHANGED <<cur, ready, resched>>
  /\ UNCHANGED <<stat, prio, group, waiting, timer, defunct, level, hardirq,
                 pc, obj>>

(* rt_timer_check finds u's thread timer expired: rt_thread_timeout.       *)
IrqTimeout(u) ==
  /\ InIrq /\ u \in timer
  /\ MakeReady(u)
  /\ RtSchedule(ready', group', level, hardirq)
  /\ UNCHANGED <<prio, remaining, level, hardirq, pc, obj>>

-----------------------------------------------------------------------------
Init ==
  /\ cur       = Idle
  /\ stat      = [t \in Thread |-> IF t \in Boot THEN "READY" ELSE "FREE"]
  /\ prio      = InitPrio
  /\ ready     = [p \in Prio |-> SetToSeq({t \in Boot : InitPrio[t] = p})]
  /\ group     = {InitPrio[t] : t \in Boot}
  /\ waiting   = {}
  /\ timer     = {}
  /\ defunct   = <<>>
  /\ remaining = [t \in Thread |-> Slice]
  /\ level     = [t \in Thread |-> 0]
  /\ hardirq   = [t \in Thread |-> 0]
  /\ resched   = [t \in Thread |-> FALSE]
  /\ pc        = [t \in Thread |-> "run"]
  /\ obj       = [t \in Thread |-> t]

ThreadNext(t) ==
  \/ Schedule(t)
  \/ EnterCritical(t)
  \/ ExitCritical(t)
  \/ ResumeUnlink(t)
  \/ ResumeInsert(t)
  \/ SuspendDo(t)
  \/ SuspendSelf(t)
  \/ Sleep(t)
  \/ Block(t)
  \/ Yield(t)
  \/ Exit(t)
  \/ DeleteTimer(t)
  \/ DeleteClose(t)
  \/ DetachBury(t)
  \/ \E u \in Thread :
        \/ Create(t, u)
        \/ Startup(t, u)
        \/ Resume(t, u)
        \/ Suspend(t, u)
        \/ Wake(t, u)
        \/ Delete(t, u)
        \/ \E p \in Prio : ChangePriority(t, u, p)

IrqNext ==
  \/ IrqEnter
  \/ IrqTick
  \/ IrqLeave
  \/ \E u \in Thread : IrqWake(u) \/ IrqTimeout(u)

Next ==
  \/ \E t \in Thread : ThreadNext(t)
  \/ IdleReap
  \/ IdleFree
  \/ IrqNext

Spec == Init /\ [][Next]_vars

(* The clock interrupt keeps coming and interrupt handlers return; a call  *)
(* under way is carried on, and a scheduler lock released, whenever the    *)
(* thread has the CPU often enough to do it; the idle thread's loop looks  *)
(* at the defunct list again and again while it runs.                      *)
Finish(t) ==
  \/ Schedule(t)
  \/ ResumeUnlink(t)
  \/ ResumeInsert(t)
  \/ SuspendDo(t)
  \/ DeleteTimer(t)
  \/ DeleteClose(t)
  \/ DetachBury(t)

Fairness ==
  /\ WF_vars(IrqEnter) /\ WF_vars(IrqLeave) /\ SF_vars(IrqTick)
  /\ \A t \in Thread : SF_vars(Finish(t)) /\ SF_vars(ExitCritical(t))
  /\ SF_vars(IdleReap) /\ SF_vars(IdleFree)

FairSpec == Spec /\ Fairness

-----------------------------------------------------------------------------
(***************************************************************************)
(* Properties                                                              *)
(***************************************************************************)

TypeOK ==
  /\ cur \in Thread
  /\ stat \in [Thread -> Stats]
  /\ prio \in [Thread -> Prio]
  /\ ready \in [Prio -> Seq(Thread)]
  /\ group \subseteq Prio
  /\ waiting \subseteq Thread
  /\ timer \subseteq Thread
  /\ defunct \in Seq(Thread)
  /\ remaining \in [Thread -> 1 .. Slice]
  /\ level \in [Thread -> 0 .. MaxLevel]
  /\ hardirq \in [Thread -> 0 .. MaxIrq]
  /\ resched \in [Thread -> BOOLEAN]
  /\ pc \in [Thread -> Labels]
  /\ obj \in [Thread -> Thread]

(* The threads closed by rt_thread_detach and not yet detached or buried.  *)
Detaching == {u \in Thread : \E t \in Thread : pc[t] = "detach" /\ obj[t] = u}

(* The discipline the kernel's callers keep: a thread has one manager,     *)
(* which nobody manages, and a managed thread has no timer running that    *)
(* could act on it while its manager does, does not end by itself, and is  *)
(* resumed and deleted as Rules says.                                      *)
Discipline ==
  /\ \A s, t, u \in Thread :
        <<s, u>> \in Manages /\ <<t, u>> \in Manages => s = t
  /\ \A t, u \in Thread : <<t, u>> \in Manages => t \notin Managed
  /\ Idle \notin Managed
  /\ Managed \cap Timed = {}
  /\ Managed \cap Ending = {}
  /\ Kept = Rules

(* Every READY thread is linked exactly once, in the ready queue of its    *)
(* current priority, and the queues hold no other thread: none is lost by  *)
(* an interleaving of suspend, resume, timeout, priority change and        *)
(* delete, and none is left behind (rt_schedule_insert/remove_thread).     *)
QueuesExact ==
  \A p \in Prio :
    /\ IsInjective(ready[p])
    /\ \A t \in Thread :
         Contains(ready[p], t) <=> stat[t] = "READY" /\ prio[t] = p /\ t \notin Dying

(* The bitmap names exactly the priorities with a ready thread, so that    *)
(* rt_schedule never takes the head of an empty queue for a thread and     *)
(* never overlooks one.                                                    *)
BitmapExact == group = {p \in Prio : ready[p] # <<>>}

(* rt_schedule "will select one thread with the highest priority level,    *)
(* then switch to it" (scheduler.c): whatever moment it is called at, the  *)
(* bitmap leads it to a READY thread that no READY thread outranks.        *)
SelectsHighest ==
  /\ group # {}
  /\ ready[HighestReady(group)] # <<>>
  /\ LET to == ToThread(ready, group)
     IN  /\ stat[to] = "READY"
         /\ \A t \in Thread : stat[t] = "READY" /\ t \notin Dying
                                  => prio[to] <= prio[t]

(* preempt_count belongs to the thread that runs: a scheduler lock, an     *)
(* interrupt level or a NEED_RESCHED never stays behind in a thread that   *)
(* has been switched out, and NEED_RESCHED never outlives the lock or the  *)
(* interrupt that deferred the switch (rt_thread_startup would otherwise   *)
(* not reschedule, since preemptible() compares the whole word).           *)
PreemptCountOwned ==
  /\ \A t \in Thread \ {cur} : level[t] = 0 /\ hardirq[t] = 0 /\ ~resched[t]
  /\ resched[cur] => level[cur] > 0 \/ hardirq[cur] > 0 \/ pc[cur] = "schedule"

(* The CPU is never left on a thread that cannot run: a current thread     *)
(* that is not READY sleeps with the scheduler locked or is about to call  *)
(* rt_schedule, and a dead one has released the lock.                      *)
CurrentRunnable ==
  \/ stat[cur] = "READY" /\ cur \notin Dying
  \/ stat[cur] = "SUSPEND" /\ level[cur] > 0
  \/ pc[cur] = "schedule" /\ (stat[cur] = "SUSPEND" \/ level[cur] = 0)

(* The target of a startup, resume or delete under way is in nobody else's *)
(* hands between its sections, although interrupts are enabled there and   *)
(* may run any other thread: it does not run, is on no wait list and has   *)
(* no timer, so that the next section finds what the check before it saw.  *)
(* It needs the rule resume_unblocked: an interrupt that released the      *)
(* object between rt_thread_resume's check and its first section would     *)
(* have that section unlink a READY thread.                                *)
HeldTarget(t) ==
  /\ pc[t] \in {"start1", "start2", "resume1", "resume2"} =>
       stat[obj[t]] = "SUSPEND"
  /\ pc[t] \in {"delete1", "delete2"} =>
       stat[obj[t]] \in {"INIT", "READY", "SUSPEND"}
  /\ pc[t] = "detach" => stat[obj[t]] = "CLOSE"
  /\ pc[t] \in {"start1", "start2", "resume1", "resume2", "delete1", "delete2",
                "detach"} =>
       /\ <<t, obj[t]>> \in Manages
       /\ obj[t] # cur
       /\ obj[t] \notin waiting /\ obj[t] \notin timer
  /\ pc[t] = "suspend" =>
       <<t, obj[t]>> \in Manages /\ stat[obj[t]] \in {"READY", "SUSPEND"}

TargetHeld == \A t \in Thread : HeldTarget(t)

(* A thread timer only runs for a suspended thread: the RT_ASSERT of       *)
(* rt_thread_timeout (thread.c) holds whenever the timer expires, and no   *)
(* dead thread's timer is left in the timer list.                          *)
TimerOnlySuspended == \A t \in timer : stat[t] = "SUSPEND"

(* Every dead thread that is still to be freed is on the defunct list      *)
(* once, in the hands of the idle thread, or about to be put there by      *)
(* rt_thread_detach, and nothing else is.                                  *)
Freeing(t) == pc[Idle] = "free" /\ obj[Idle] = t

DefunctExact ==
  /\ IsInjective(defunct)
  /\ \A t \in Thread :
       /\ Contains(defunct, t) <=> stat[t] = "CLOSE" /\ ~Freeing(t) /\ t \notin Detaching
       /\ Freeing(t) => stat[t] = "CLOSE" /\ t \notin Detaching

(* Death is final: a closed thread is only ever freed, a freed one only    *)
(* ever created again, and the CPU never switches to either.               *)
LifeStep ==
  /\ \A t \in Thread :
       /\ stat[t] = "CLOSE" => stat'[t] \in {"CLOSE", "FREE"}
       /\ stat[t] = "FREE" => stat'[t] \in {"FREE", "INIT"}
  /\ cur' # cur => stat[cur'] = "READY"

DeathIsFinal == [][LifeStep]_vars

(* No starvation among equals and no lost preemption: a READY thread that  *)
(* no READY thread outranks gets the CPU, unless it is suspended, deleted  *)
(* or outranked first.  It may have been made ready with the scheduler     *)
(* locked, in an interrupt, or by a call that does not reschedule.         *)
Top(t) ==
  /\ stat[t] = "READY" /\ t \notin Dying
  /\ \A u \in Thread : stat[u] = "READY" /\ u \notin Dying => prio[t] <= prio[u]

TopReadyRuns == \A t \in Thread : Top(t) ~> (cur = t \/ ~Top(t))

(* A closed thread is freed, provided the idle thread keeps getting the    *)
(* CPU (rt_thread_idle_excute).                                            *)
DefunctReclaimed ==
  []<>(cur = Idle) => \A t \in Thread : stat[t] = "CLOSE" ~> stat[t] = "FREE"

(* What rt_thread_delete says it does: "The thread object will be removed  *)
(* from thread queue" (thread.c).                                          *)
DeletedUnlinked ==
  \A t \in Thread : stat[t] \in {"CLOSE", "FREE"} =>
     \A p \in Prio : ~Contains(ready[p], t)

-----------------------------------------------------------------------------
(***************************************************************************)
(* The inductive invariant behind the theorems of SchedulerProofs.         *)
(***************************************************************************)
WaitersSuspended == \A t \in waiting : stat[t] = "SUSPEND"

TimersOfTimed == timer \subseteq Timed

OnlyIdleFrees == \A t \in Thread : pc[t] = "free" => t = Idle

IdleReady == stat[Idle] = "READY" /\ prio[Idle] = MaxPrio - 1

SchedInv ==
  /\ TypeOK
  /\ QueuesExact
  /\ BitmapExact
  /\ TargetHeld
  /\ PreemptCountOwned
  /\ CurrentRunnable
  /\ WaitersSuspended
  /\ TimersOfTimed
  /\ TimerOnlySuspended
  /\ IdleReady
  /\ OnlyIdleFrees
  /\ DefunctExact
=============================================================================
