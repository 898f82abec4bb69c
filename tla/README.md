# A TLA+ model of the Melis 4.0 kernel

Melis 4.0 is the RTOS of the Lindenis V833 board. Its kernel
(`src/source/ekernel/core/rt-thread`) is a single-CPU, priority-preemptive
kernel derived from RT-Thread, with Melis' own preempt counter, interrupt exit
and wrappers. This project models the part on which everything else rests: the
scheduler, the life of threads, interrupts, and the objects threads wait for.

Everything below is about the configuration of the board
(`src/source/projects/defconfig/v833-lindenis-evb/config_v833-lindenis-evb`):
32 priorities, nested interrupts, `CONFIG_CHECK_PREEMPT_LEVEL_IN_IPC`, one CPU.

## The system

| Part | Source | State | Operations | Hard because |
|---|---|---|---|---|
| Scheduler | `scheduler.c`, `include/preempt.h` | ready queues, bitmap, current thread, per-thread `preempt_count` | schedule, insert, remove, lock, unlock | a switch asked for under a lock or in an interrupt must happen later, and only once |
| Threads | `thread.c`, `idle.c` | `stat`, priority, thread timer, defunct list | create, start, suspend, resume, sleep, yield, change priority, exit, delete, reap | most calls enable interrupts half-way |
| Interrupts, tick | `irq.c`, `clock.c`, `arch/.../port.c` | nesting count, time slice | enter, leave, tick, timeout | they come between any two sections |
| Semaphore | `ipc.c` | value, suspend list | take, release, reset, delete | timeouts race releases; delete's loop is not atomic |
| Mutex | `ipc.c` | owner, hold, original priority, list | take, release | priority inheritance, hand-over |
| Mailbox | `ipc.c` | ring, two suspend lists | send, send_wait, recv, reset | a resumed thread has been promised nothing |
| Event, message queue | `ipc.c` | event set; free list and chain | send, recv, reset | clear-on-receive order; copies outside the section |
| Timers | `timer.c` | two sorted lists, timer thread | start, stop, check | callbacks run between two looks at the list, tick wrap-around |
| Completion, wait queue | `completion.c`, `waitqueue.c` | a flag and a list each | wait, done, wake up | the flag outlives waits; nodes on the waiters' stacks |
| Work queue | `workqueue.c` | list of works, flags of each work, worker thread | submit, delayed submit, cancel, synchronous cancel | check-then-suspend windows; four parties (client, timer thread, worker, interrupt) change one work without a common lock |
| Objects | `object.c` | containers by class | init, allocate, detach, delete, find | life time against use |
| Memory | `mem.c`, `memheap.c`, `slab.c` | free lists | alloc, free | pointer algorithms, sequential |
| Devices, services, start-up | `device.c`, `kservice.c`, `components.c` | driver tables | open, close, read, write | little logic of its own |
| Upper layers | `wrapper/`, `cmsis/`, `libdl/`, `subsys/pthreads` | wrappers of the above | | conditions and rwlocks built from semaphores |
| The rest | drivers, file systems, boot loader, network, Bluetooth, A/V | | | hardware or vendored |

How they interact. All parts call the scheduler's insert, remove and
`rt_schedule`. IPC objects put the current thread on their suspend list with
`rt_ipc_list_suspend`, start its `thread_timer`, enable interrupts and call
`rt_schedule`; another thread or an interrupt handler takes it off with
`rt_ipc_list_resume`, or the clock interrupt does with `rt_thread_timeout`. The
two communicate through `thread->error`. Ended threads go through
`rt_thread_defunct` to the idle thread.

What makes each part correct: a ready thread is always where the scheduler
looks for it and nowhere else; the most urgent one runs; no wake-up, token,
mail or ownership is lost or doubled by an interrupt between two sections; a
timer only runs for a thread that waits; lent priorities are given back; the
dead are freed once.

## Granularity

The kernel protects its data by disabling interrupts. A step of every module is
therefore one section with interrupts disabled, and code that goes on after
enabling them is a further step of the same thread. Between two sections an
interrupt, and through it any other thread, may run.

`Scheduler` models this exactly: there is a current thread, only it or an
interrupt handler on top of it takes steps, and switching is a step of
`rt_schedule` or of the interrupt exit. The IPC modules abstract from which
thread is current: any thread that is not in a suspend list may take the next
step. That is a superset of the behaviours of the real kernel (an interrupt can
make any thread ready and more urgent at any point), so what holds there holds
under the scheduler.

In a few places a step covers more than one section, because nothing can come of
what would lie between: `rt_completion_done` looks at the flag before its section,
which changes nothing if the flag has been set since; the test of a work's type
before the sections of submit and cancel cannot become stale, since a plain work
keeps its type and calls for delayed ones hold the scheduler lock (without that
lock, where only `FlagsExact` is claimed, the merging is an abstraction); and a
message queue send by an interrupt handler is one step, while what a nested handler
could meet between its sections, a slot taken and not yet linked, is met between the
two steps of a thread's send.

`Mailbox` and `IpcObjects` keep priorities constant: none of their properties
depends on where `ListSuspend` puts a thread, and the proofs use only that it is
added. Where the order matters, `Semaphore` changes priorities at any time and
`Mutex` lends them.

## Modules

| Module | Models | State and actions |
|---|---|---|
| `Scheduler` | `scheduler.c`, `thread.c`, `idle.c`, `irq.c`, `clock.c`, `preempt.h`, `port.c` | `ready`, `group` (the bitmap as a set), `stat`, `prio`, `cur`, `timer`, `waiting` (threads on some object's list), `defunct`, and the three fields of `preempt_count`: `level`, `hardirq`, `resched`. One action per section of each call; `pc` and `obj` hold a call that is half done |
| `Ipc` | the suspend list of `ipc.c` | insertion by FIFO or priority, highest priority of a list |
| `Semaphore` | semaphores of `ipc.c` | `value` modulo 2^16, `suspend`, `timer`, `error`, `prio`, which changes at any time without moving a waiter; `balance` is a ghost that counts releases and returned takes, `disturbed` one that notes a change of priority inside the list |
| `CountingSemaphore` | abstract specification of a semaphore | tokens and requests; refined by `Semaphore` |
| `Mutex` | mutexes of `ipc.c` | `owner`, `hold` modulo 2^8, `original`, `prio`, lists; `depth` is a ghost that counts returned takes minus releases |
| `Mailbox` | mailboxes of `ipc.c` | the ring with its offsets and entry count, both lists, the waiting time left |
| `BoundedFifo` | abstract specification of a mailbox | a sequence of at most `Size` mails; refined by `Mailbox` |
| `Timer` | hard timers of `timer.c`, the tick of `clock.c` | `tick` modulo 2^32, `list`, `timeout`, `init`, `active`; `pc` is where a thread is inside start or stop, `left` is a ghost that counts the ticks to go without wrapping. `Expire` is one round of `rt_timer_check` with its callback |
| `IpcThreads` | what every object of `ipc.c` does to a thread | thread timer, error code, the call a thread is in and its waiting time; suspend, resume, resume all |
| `Event` | event sets of `ipc.c` | `set`, the list, what each waiter asked for; `Walk` is the loop of `rt_event_send` |
| `MessageQueue` | message queues of `ipc.c` | the slots with their `next` links, free list, chain, both lists; a call between its two sections holds a slot |
| `MessageFifo` | abstract specification of a message queue | a sequence with urgent messages at its head, and what each thread has taken and not yet got; refined by `MessageQueue` |
| `Completion` | `completion.c` | the flag and the list |
| `WaitQueue` | `waitqueue.c` | the flag, the nodes, and who is suspended |
| `IpcObjects` | the four above around the same threads | their steps and `Timeout`, `rt_thread_timeout` |
| `SoftTimer` | soft timers and the timer thread of `timer.c` | the list, `late` for the timers whose time has come, where the timer thread is, and the node and the tick it keeps over a callback |
| `WorkQueue` | `workqueue.c` on top of `SoftTimer` | the list, the current work, the flags of each work as sets, where the worker and each client are. Threads run by rank here, see below |
| `SchedulerProofs` | | the theorems about `Scheduler` |
| `KernelLemmas` | | facts that the proofs cite: `RemoveFirst`, `Append`, `Contains` and `IsInjective`, counters and rings that wrap, least elements, sorted lists, what `ListSuspend` does to a list, and induction up to a number by the least counterexample (`UpTo`, `Recursion`) |
| `SemaphoreProofs`, `MutexProofs`, `MailboxProofs`, `TimerProofs`, `WorkQueueProofs`, `IpcObjectsProofs` | | the theorems about the modules of these names |
| `MC*` | | the small instances |

Operators whose comment begins with "Mutant of" are plausible mistakes in the
operator below them. No specification uses them; they are there to show that
each property notices the mistake.

In `Scheduler` a thread that blocks on an object joins `waiting`; `Block`, `Wake`
and `IrqWake` are the scheduler's view of every IPC call. `Manages` says who
creates, starts, suspends, resumes and deletes whom. A dynamic thread is deleted
(`rt_thread_delete`), a static one detached (`rt_thread_detach`): the same calls up
to CLOSE, after which the second buries it in a section of its own (`DetachBury`).
A priority is changed by the thread itself, by its manager, or, upwards, by any
thread that lends one (`MayChange`).

### What `thread.c` asks of its callers

The kernel does not protect two threads that delete the same thread from each
other, nor itself from other misuse. `Discipline` states what callers have to keep
for the kernel's own guarantees, and each part was found by what fails without it:

- One manager per thread; managers are not managed and the idle thread is not.
- A managed thread does not use timeouts, finding 1, and does not end by itself
  (`Ending`): its return would race with its manager's calls in the same way.
- The three `Rules`, which are guards only as far as `Kept` says so:
  - `resume_unblocked`: `rt_thread_resume` is not called for a thread that waits for
    a kernel object. The call checks only that the thread is suspended, with
    interrupts enabled (`thread.c:793`). When an interrupt handler releases the
    object between that check and the section that unlinks the thread, the section
    takes a READY thread out of its ready queue. Without the rule TLC finds
    `TargetHeld` violated.
  - `exit_unlocked`: no entry function returns with the scheduler locked.
    `rt_thread_exit` does not unlock it, so its `rt_schedule` does nothing and the
    dead thread keeps the CPU: `CurrentRunnable` fails.
  - `delete_unlent`: no thread is deleted while it owns a mutex. A taker that lends
    it a priority would insert it into the ready queue again between the sections of
    the deletion: `QueuesExact` fails.
- The idle thread never sleeps, waits for an object, returns or owns a mutex (the
  guards `t # Idle` and `u # Idle`, and `Ending`): the scheduler needs a ready
  thread at all times.

All scheduler properties and theorems are for callers that keep these rules.

## Runs

Properties that belong together are checked as one named conjunction of named
parts: `WaitersExact` and `FlagsExact` join the type of a module's state with what
ties its lists, timers and marks together; `WaitsEnd`, `NoLostWakeups`,
`EventsServedInOrder` and `PointersLive` join the parts named in their
definitions. Each part has a mutant of its own.

| Run | Shows | Bounds |
|---|---|---|
| `scheduler_safety` | queues, bitmap, preempt counts, targets of calls half done, timers and defunct list stay consistent, the scheduler finds a most urgent ready thread, dead threads stay dead | idle, a manager with timeouts that may end, and two managed threads, one dynamic and one static; 2 priorities that are changed and lent, locks and interrupts nested twice, every tick ends a slice |
| `scheduler_liveness` | a ready thread nobody outranks gets the CPU; closed threads are freed, dynamic ones and static ones with a cleanup function | 3 threads, 2 priorities |
| `delete_races_timeout` | violation, finding 1: `rt_thread_delete` of a dynamic thread, which ends CLOSEd, on the defunct list and in the ready queue | 4 threads, the managed one sleeps |
| `semaphore` | tokens are conserved, no thread sleeps beside a token, timers only of waiters, releases serve the most urgent waiter as long as no priority changed inside the list since it was last empty, timed takes return, deletion ends every wait, the semaphore implements `CountingSemaphore` | 3 threads, two of them timed, one deleter, 3 priorities that all change at any time, value modulo 3 |
| `sem_delete_timed` | violation, finding 2 | one waiter with a timeout, two deleters |
| `mutex` | ownership, hold counts, owner at least as urgent as its waiters, lent priorities given back, a FIFO mutex reaches every waiter without a timeout | 3 priorities, one FIFO mutex, nesting 2 |
| `mutex_two_priority` | violation, finding 3 | 2 threads, 2 mutexes |
| `mailbox` | no wake-up lost, lists and calls agree, the ring implements `BoundedFifo`, mails do not stay beside sleeping receivers nor places beside sleeping senders | 3 threads, one timed, 2 mails, 2 places |
| `timer` | the list is in the order of the true times, no timer fires early or late, a timer marked as running is listed, a listed one is marked unless its own callback restarted it, each callback leaves fewer timers due | 3 timers, one with a thread, one periodic; periods 1 and 2, a tick modulo 10, a thread kept at most one tick past its due time inside start |
| `ipc_objects` | no thread sleeps beside the events it asked for, cleared events go to one waiter and waiters are served in the order of the list, a message slot is always in one place, the queue implements `MessageFifo`, no wake-up of a sender or receiver is lost, no thread sleeps beside a completed completion, the nodes of a wait queue are those of threads still in their call, and timer and list of one object never act on another | 3 threads and interrupt handlers; one thread has timeouts and uses all objects, one the message and the wait queue, one the events and the wait queue; 2 events, 2 slots, 2 messages |
| `work_queue` | the worker takes works only from a list that has one, worker and timer thread do not sleep beside something to do, the timeout handler has a queue to submit to, the walk over the timers keeps a node of the list, pending works are listed, a synchronous cancel waits only for what will be acknowledged, a successful cancel leaves nothing behind, and listed works are taken, due timers called, waiting cancels woken | 2 clients, a plain work of both, two delayed works of one |
| `work_queue_irq` | violation, finding 4 | the same with one delayed work; the other client is an interrupt handler that submits |

Why these bounds are enough to meet the interesting cases. With two priorities and
four threads preemption, queues of several threads and empty ones all occur, and a
thread can be lent a priority by one that is neither its manager nor managed by it;
the violation run has three. A slice of one tick makes every tick one that ends a
slice; that the countdown of a longer one keeps its range is part of `SchedulerTypes`.
Two nested locks and
interrupts suffice to tell an inner exit from the outermost. A modulus of 3 lets
the semaphore overflow within a few releases. Two places make the ring wrap
while it is partly full; two mails tell an order from its reverse. A tick
modulo 10 wraps many times in a run and has a half range of 4, just more than the
longest period and delay; three timers make an insertion in the middle. Two
slots let the chain be empty, full, and in between while one slot is in no list;
two delayed works make the walk over the soft timers keep a node that the other
one's callback could remove. For every safety property the proofs remove the
bounds; what they do not reach is liveness.

Deadlock is checked in all runs but two. In `semaphore` the assertion of finding
2 stops the system. In `mutex_two_priority` threads that take two mutexes in
opposite orders wait for each other for ever, as with the code.

`ipc_objects` is symmetric in the messages and in the slots. It forgets what
nothing reads again: the contents of a free slot, and `thread->error` after a
call has returned.

### What `work_queue` asks of its callers

`workqueue.c` is correct for callers that keep certain rules, which it does not
state. The constants of `WorkQueue` are these rules, and each was found by what
fails without it:

- The worker is more urgent than its clients, and no interrupt handler submits
  (`Rank`, `Irq`). Otherwise a submit can come between the worker's look at its
  list and its suspend: `SleepsOnlyIdle` and `WorkIsDone` fail, finding 4. A more
  urgent client that submits and then cancels makes the resumed worker take the
  head of an empty list for a work: `TakesWork` fails. The same holds of the
  timer thread, which is more urgent than the clients.
- Calls for delayed works are made with the scheduler locked (`Locking`).
  Otherwise the timeout handler submits the work between the two flags that a
  cancel looks at, and the cancel reports success with the work listed:
  `CancelledGone` fails, and after another submit `HandlerHasQueue`.
- A delayed work has one owner, and is always submitted with a delay, or with
  none while it is delayed (`Mixed`). A work that is queued without delay and
  then submitted with one loses its queue when the worker takes it, and the
  handler follows a null pointer: `HandlerHasQueue` fails.
- `rt_workqueue_cancel_work_sync` is called for plain works; it does not stop
  the timer of a delayed one.

### Fairness

`Scheduler`: the clock interrupt keeps coming and its handler ends (weak
fairness of `IrqEnter`, `IrqLeave`; strong fairness of `IrqTick`, since an
interrupt of another source may be the one that is served). A thread that has
the CPU again and again carries on with a call it has begun and releases the
scheduler lock (`Finish`, `ExitCritical`), strong because it may be interrupted
each time. The idle thread reaps when it runs. Nothing is assumed about threads
yielding or ending: the time slice has to do it.

`Semaphore`, `Mutex`, `Mailbox`: timers of waiters expire, and a thread made
ready continues its call. That a ready thread runs is what `TopReadyRuns` shows
for a thread nobody outranks; a less urgent one relies on the others blocking.

`WorkQueue`: the worker and the timer thread run when no more urgent thread is
ready, a work function ends, time passes (a timer in the list becomes due, a
delay ends), and a client ends a call it has begun. Weak fairness is enough:
these steps stay enabled until they are taken.

The mutex also needs callers that release what they hold: strong fairness of
the last release, since an owner may take the mutex again before it.

## Proofs

`SchedulerProofs` proves, for any set of threads (finite at boot), any number of
priorities, slice and nesting bounds, `Discipline => (Spec => []P)` for `TypeOK`,
`QueuesExact`, `BitmapExact`, `SelectsHighest`, `PreemptCountOwned`,
`CurrentRunnable`, `TargetHeld`, `TimerOnlySuspended` and `DefunctExact`, and
`Discipline => (Spec => DeathIsFinal)`. `Discipline` is the rules of the section on
callers, among them `Kept = Rules`; `TargetStaysHeld` and what rests on it would be
false without each.

None of these is inductive alone. `SchedInv` is their conjunction with four
facts about who may be where: `WaitersSuspended` (a thread on a wait list is
suspended, so `Wake` inserts a thread that is in no queue), `TimersOfTimed`
(with `Discipline`, no timer acts on a managed thread), `OnlyIdleFrees`, and
`IdleReady` (the idle thread is always ready, so the bitmap is never empty and
`SelectsHighest` has a witness). The argument:

- insertion and removal. `InsertThread` and `RemoveThread` preserve
  "queue of `p` = the ready threads of priority `p`, once each", given that the
  thread was in no queue (or leaves its queue together with its status); the
  bitmap follows. `KernelLemmas` supplies what `RemoveFirst` and `Append` do to
  membership and injectivity. One lemma per primitive, cited by all actions.
- switching. `rt_schedule` moves `cur` to the head of the most urgent queue or
  sets `resched`; it keeps `PreemptCountOwned` because a switch only happens with
  both counts zero, and `CurrentRunnable` because the head is ready.
- calls half done. `HeldTarget` says of each thread that is between two sections
  of a call what it still knows of its target. It survives the other threads'
  steps because, by `Discipline`, nobody else may act on the target.
- death. A closed thread is in no queue and not current once switched, so only
  the idle thread's reaping changes it.

`NextInv` has one step per action; `SchedulerInvariant` combines them.

The assumptions are the named `ASSUME`s of `Scheduler` (types of the constants,
the idle thread has the least urgent priority and is started at boot) and
`Discipline`.

`SemaphoreProofs` proves, for any finite set of threads, any priorities, changing at
any time, either order of waiting and a value of any width, `Spec => []WaitersExact`,
`Spec => []TokensConserved`, `Spec => GrantsMostUrgent` (an action property) and
`Spec => ImplementsCounting`, the refinement of `CountingSemaphore`. The inductive
invariant `SemInv` joins to the first two what they need of each other:

- `ListedWait`: a thread in the list is inside its take and its error is still
  `RT_EOK`. Without it a release could hand a token to a thread that has already
  failed, and the ghost balance would not tell.
- `UndisturbedOrder`: with `RT_IPC_FLAG_PRIO` the list is in the order of the priorities its
  threads have now, unless one of them changed inside the list since the list was
  last empty (`disturbed`). Its head is then a most urgent waiter, which is
  `GrantsMostUrgent`. `SuspendList` and `RemoveList` show that insertion and removal
  keep an order that is there; a change of priority outside the list leaves it, and an
  empty list is in order again.
- `DeadEmptied`: waiters of a deleted semaphore exist only while some thread is in
  the deletion loop. A semaphore created in its place starts with an empty list;
  this is what shows that it drops no thread. Each round of the loop is a failed
  answer of the abstract semaphore.

Counters are compared modulo the width: `ModAdd` lets a step add to a truncated
value, and `ModUnique` recovers the exact one where it is in range. A change of
the threads in flight changes the ghost sum by one (`FS_AddElement`,
`FS_RemoveElement`), which is why the set of threads has to be finite.

`MutexProofs` proves `Spec => []WaitersExact` and `Spec => []OwnershipExact` for any
sets of threads and mutexes and any `MaxHold` below the width of `hold`.
`MutexInv` adds `ListedWait` as above and, per mutex, `PerMutex`: a free mutex has
value 1, no hold and no waiter; an owned one has value 0, a saved priority that is
one of a thread's, and a hold count of the owner's depth plus one if its take has
been granted and has not returned; and a thread that waits for a mutex has depth
0 in it. The last is what makes a hand-over exact: the count 1 passes from the old
owner's depth to the new owner's take in flight. A bounded hold is needed because
`hold` wraps: the first release after 257 nested takes would give the mutex away.

With a hypothesis on the callers, `MutexProofs` also proves
`Spec /\ []OneAtATime => []OwnerInherits` and the same for `PriorityRestored`.
`OneAtATime` says that a thread that owns a mutex neither owns nor waits for
another; finding 3 shows what happens without it. With one mutex it holds in every
behaviour, so `LoneMutexPriorities` asks nothing of the callers. `PrioInv` adds to
the two properties that `original_priority` is the owner's own priority
(`GivesBackOwn`), and that a `RT_IPC_FLAG_PRIO` list is sorted (`ByPriority`): then a
thread that is handed the mutex is at least as urgent as those left behind it, and
in FIFO order it is lent the priority of the most urgent of them.

`MailboxProofs` proves, for any finite set of threads, any size of the ring and
either order of waiting, `Spec => []WaitersExact`, `Spec => []NoLostWakeup` and
`Spec => ImplementsFifo`. `MailInv` joins them with `RingInv` (the input offset is the
output offset plus the entry count, modulo the size; `ModRing` says that it wraps at
most once) and `ListInv` (a listed thread is inside its call, its error is still
`RT_EOK`, and it is in one list). `NoLostWakeup` compares two cardinalities, of the
mails and of the receivers on their way: every step that adds a mail also adds a
resumed receiver if one sleeps (`CardGrow`), and every step that loses a receiver on
its way takes a mail with it or finds none (`CardDrop`).

`TimerProofs` proves, for any set of timers, any width of the tick, any periods and
any delay of threads that together fit into half of the ticks, `Spec => []FlagsExact`,
`Spec => []SortedByTime`, `Spec => Timely` and `Spec => CheckShrinks`. The code
compares ticks that wrap; the properties are about true times. `TimerInv` ties them
together: for every listed timer `timeout_tick` is `tick + left` modulo 2^w, with
`left` neither further in the past than the longest delay nor as far ahead as the
half range (`DueIn`). From this `LaterLeft` and `ReachedLeft` show that the two
comparisons of the code agree with the order of the true times. `InCall` says what a
thread between two sections of start or stop still knows of its timer. `CheckShrinks`
counts the timers that are due: a callback that restarts its timer gives it at
least one tick to go.

`WorkQueueProofs` proves `Spec => []FlagsExact` for any ranks, locking clients and
interrupt handlers: `CallInv` needs no scheduling, since each section keeps the marks
and the list together. The other properties hold for `Deployed` only, the rules of
the section on `work_queue` as a formula over the constants: `DeployedPointers`
(`PointersLive`), `DeployedSleeps` (`SleepsOnlyIdle`) and `DeployedCancel`
(`CancelledGone`), for any number of clients, works and timers. Unlike the run,
`Deployed` lets several clients share a delayed work. `DeployInv` adds to `CallInv`:

- `Turns`: while a client is inside a call for a delayed work nobody else is, and the
  worker and the timer thread are asleep, waiting, or about to begin. This is where
  ranks and locks enter, through `WorkerRuns`, `TimerRuns` and `ClientRuns`; the
  other parts use `Turns` only.
- `Sleeps`: what the worker and the timer thread saw in their lists still holds when
  they act on it.
- `Marks`: a delayed work is listed, or its timer is armed, or neither, and has its
  queue in the first two cases. `Armed` includes the moments when the timer is in no
  list: just before `rt_timer_start`, and while its callback runs.
- `Handler`, `Phase`: what the timeout handler and a client know at each step of
  their calls; a client that has reached the end of a cancel knows that the work is
  not pending, which with `Marks` is `CancelledGone`.

`BusyHeld` reduces a step of a client inside a call to what it does to its own work.

`IpcObjectsProofs` proves, for any finite set of threads, any finite pool of message
slots, any events and either order of waiting, `Spec => []WaitersExact`,
`Spec => []NoLostWakeups`, `Spec => []SlotsPartitioned`, `Spec => EventsServedInOrder`
(an action property) and `Spec => ImplementsMessageFifo`, the refinement of
`MessageFifo`. The inductive invariant `ObjectsInv` has one part per object and one
for what the objects share:

- `Parked`: a thread in a list is in the call of that list with its error still
  `RT_EOK`, and a timer that runs belongs to a thread in a list. `Enters`, `WakesOne`
  and `Moves` reduce a step of any object to what it does to this; `Local` says which
  calls a step can touch, so that the other objects' parts survive it.
- `EventInv`: no listed waiter is satisfied. `rt_event_send` is a loop, `Walk` a
  recursive function. `Walked` is the loop's invariant: who has been passed and
  not served is not satisfied by what is left, what was cleared went to one waiter,
  and a waiter that was passed over lost an event to one in front. `WalkedStep` keeps
  it for one waiter, `WalkEnds` carries it to the end of the list, and
  `EventsServedInOrder` is read off.
- `MqInv`: there are sequences of slots `c` and `f` that the links form, from the head
  and from the free pointer (`Path`), that have no slot in common (`Apart`); each slot
  is in one of them or with one call (`Hands`); queued and copied slots hold mail
  (`MqData`); and sleepers have enough resumed threads in front (`MqCounts`). Every
  section names the sequences it leaves: a send takes the head of `f`, links at one end
  of `c`, and so on. `PathChain` shows that following the links computes `c`, so
  `SlotsPartitioned` and the refinement, which are stated with `Chain`, follow.
  There is room in the abstract queue because slots in the chain, free ones and those
  with a call add up (`SlotSum`).
- `CompletionInv`, `WqueueInv`: a completion has no waiter while its flag is set, and a
  node in the wait queue belongs to a thread inside `rt_wqueue_wait`.

`Walk` and `ChainFrom` are recursive functions on `0 .. n`. The induction theorems of the
library take an operator, which the provers cannot instantiate; `UpTo` states induction
for a set of numbers instead and is proved from the least number that is not in it, and
`Recursion` builds the function, so that the equation of the definition holds.

The assumptions are the named `ASSUME`s of the modules: types of the constants,
finiteness of `Thread` (semaphore, mailbox, `IpcObjects`) and of `Slot`,
`MaxHold < HoldMod`, periods and delays within half of the ticks, a null that is
neither a thread, a mutex nor a slot, and names of the worker and the timer thread
that no client has.

Only model-checked: the liveness properties `TopReadyRuns`, `DefunctReclaimed`,
`WaitsEnd`, `WaiterGetsMutex`, `MailMoves` and `WorkIsDone`. Fairness is outside what the
prover does. That `Scheduler` serves the other modules as the section on granularity assumes is
an argument of this text, not a theorem.

## Findings

1. `delete_races_timeout`: `rt_thread_delete` takes a sleeping thread off its
   list, enables interrupts, and only then detaches its timer. A tick in between
   makes the thread ready again; it is then closed and put on the defunct list while
   it is still in the ready queue. `rt_thread_detach` has the same gap. This is why `Discipline` keeps managed threads from using timeouts.
2. `sem_delete_timed`: `rt_ipc_list_resume_all` looks at the list before it
   disables interrupts. When the tick times the last waiter out in between, the
   list head is taken for a thread.
3. `mutex_two_priority`: `original_priority` is kept per mutex. A thread that is
   lent a priority for one mutex, takes a second and releases the first one
   first ends with the lent priority for good. `OwnerInherits` fails with two
   mutexes for the same reason (releasing the other mutex drops a priority that
   is still owed), so the run `mutex` claims it for one mutex.
4. `work_queue_irq`: the worker finds its list empty and then suspends itself
   without disabling interrupts. A work that an interrupt handler submits in
   between does not resume it, since it is ready, and stays in the list; each
   later submit of that work is refused as busy. The display driver submits from
   its interrupt (`disp_display.c:800`).

Not a disagreement with any comment, but to be known by callers: `rt_thread_resume`
must not be called for a thread that waits for an object, see the rules above. A
release of a `RT_IPC_FLAG_PRIO` semaphore need not serve the most urgent waiter: when
a waiter's priority changes, by `rt_mutex_take` lending it one (`ipc.c:778-784`) or by
`rt_thread_control` (`thread.c:674`), it keeps its place in the list, and those who come
later are placed by the first less urgent thread of a list that is not sorted.
`GrantsMostUrgent` is therefore claimed only until a priority changes in the list, and
TLC finds it violated without that condition. `rt_timer_check`
clears the flag of a one-shot timer after its callback, even when the callback
restarted it. The timer then runs unmarked and `rt_timer_stop` refuses to stop
it; `StopFindsTimer` leaves this case out. And `rt_completion_wait` clears the
flag after a timeout too, so a completion that comes between the timeout and the
return is dropped. `rt_thread_delay_until`, which nothing in the repository calls,
sleeps for the elapsed ticks plus the increment (`thread.c:600`) where its comment
promises to wake at `(*tick + inc_tick)`.

## Not modelled

- `rt_thread_delay_until`, stack overflow checks, hooks, names, statistics.
- Deletion of mutexes, mailboxes, event sets and message queues: the same loop as
  in `Semaphore`.
- `rt_thread_control` on a thread that owns a mutex or waits for one: `Mutex` changes
  priorities by lending only.
- Overflow of the 8-bit `hold` and of the lock nesting: bounded by `MaxHold` and
  `MaxLevel`.
- Ticks are not counted in the IPC modules: a waiter's timer may expire at any
  step, and time left after a spurious wake-up is "some" or "none".
- Periodic soft timers; turning a timer from one-shot to periodic and back. Time is
  abstract in `SoftTimer`, and `rt_timer_start` one step there. `Timer` takes periods to be at least one tick: a periodic timer of zero
  ticks would keep `rt_timer_check` in its loop. The skip list has one level
  (`RT_TIMER_SKIP_LIST_LEVEL`), a plain list.
- `rt_workqueue_destroy`, `rt_workqueue_critical_work` and
  `rt_workqueue_cancel_all_work` (the last two are neither declared nor called),
  work functions that call their own queue, several queues.
- Nodes that `poll` adds to a wait queue, with a wake function of their own. The
  condition of `rt_wqueue_wait` is a value its caller computed and stays with the
  caller.
- Pipe and ring buffer. Seen while reading them: `rt_ringbuffer_put_force` past
  the end of a buffer that is not full flips both mirrors (`ringbuffer.c:150`), so
  that the buffer counts as empty; `pipe_fops_close` wakes one reader when the
  last writer leaves (`pipe.c:99`).
- `rt_mp_*` and signals are not part of this configuration.
- Allocators, devices, formatting, loaders, the dynamic linker, the upper
  layers, drivers, file systems and the boot loader: see `PROJECT.json`.

## Plan

1. Done: `Scheduler`, `Semaphore`, `Mutex` and their proofs; `Mailbox`, `Timer`;
   `Event`, `MessageQueue`, `Completion` and `WaitQueue` around common threads;
   `SoftTimer` and `WorkQueue`.
2. Done: proofs for `Mailbox`, `Timer`, `WorkQueue`, the priorities of `Mutex` and
   `IpcObjects`. Every safety and action property of the passing runs is a theorem.
   Next: what the liveness properties rest on (a measure per loop, as `CheckShrinks`
   is for `rt_timer_check`), and `OneAtATime` replaced by a weaker rule for mutexes that
   are released in the reverse order.
3. Ring buffer and pipe (the pipe as a composition of the ring buffer, the mutex
   and two wait queues), object containers, POSIX conditions and rwlocks.
