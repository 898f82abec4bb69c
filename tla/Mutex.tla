------------------------------- MODULE Mutex -------------------------------
(***************************************************************************)
(* Recursive mutexes with priority inheritance (ipc.c): take with and      *)
(* without a timeout, release, hand-over to the first waiter, and the      *)
(* priority that owners are lent and given back.                           *)
(*                                                                         *)
(* As in Semaphore, a step is one section with interrupts disabled and any *)
(* thread that is not suspended may take the next one.                     *)
(***************************************************************************)
EXTENDS Ipc, FiniteSets

CONSTANTS
  Thread,
  Mutexes,
  InitPrio,   \* the priority each thread was created with
  MaxPrio,    \* RT_THREAD_PRIORITY_MAX
  Flag,       \* "FIFO" or "PRIO"
  HoldMod,    \* 2^8: mutex->hold is a rt_uint8_t
  MaxHold,    \* bound: how often an owner takes a mutex again
  Timed,      \* threads that pass a timeout
  Null        \* RT_NULL

ASSUME MutexAssumption ==
  /\ MaxPrio \in Nat \ {0}
  /\ InitPrio \in [Thread -> 0 .. MaxPrio - 1]
  /\ Flag \in {"FIFO", "PRIO"}
  /\ HoldMod \in Nat /\ MaxHold \in 1 .. HoldMod - 1
  /\ Timed \subseteq Thread
  /\ Null \notin Thread \cup Mutexes

VARIABLES
  value,      \* mutex->value
  owner,      \* mutex->owner
  original,   \* mutex->original_priority, NoPrio when it is 0xFF
  hold,       \* mutex->hold
  suspend,    \* mutex->parent.suspend_thread
  prio,       \* thread->current_priority
  timer,      \* threads whose thread_timer is running
  error,      \* thread->error
  want,       \* the mutex whose take the thread waits in, Null outside one
  depth       \* ghost: takes that returned RT_EOK minus releases that did

vars == <<value, owner, original, hold, suspend, prio, timer, error, want, depth>>

NoPrio == MaxPrio
Prios  == 0 .. MaxPrio - 1

(* Threads that were made owner of m and have not returned from their take. *)
InFlight(m) == {t \in Thread : /\ want[t] = m /\ ~Contains(suspend[m], t)
                               /\ error[t] = "EOK"}

-----------------------------------------------------------------------------
(* rt_mutex_take by the owner                                              *)
TakeAgain(t, m) ==
  /\ want[t] = Null /\ owner[m] = t
  /\ depth[t][m] < MaxHold
  /\ error' = [error EXCEPT ![t] = "EOK"]
  /\ hold'  = [hold EXCEPT ![m] = (@ + 1) % HoldMod]
  /\ depth' = [depth EXCEPT ![t][m] = @ + 1]
  /\ UNCHANGED <<value, owner, original, suspend, prio, timer, want>>

(* rt_mutex_take of a mutex that is available                              *)
TakeFree(t, m) ==
  /\ want[t] = Null /\ owner[m] # t /\ value[m] > 0
  /\ error'    = [error EXCEPT ![t] = "EOK"]
  /\ value'    = [value EXCEPT ![m] = @ - 1]
  /\ owner'    = [owner EXCEPT ![m] = t]
  /\ original' = [original EXCEPT ![m] = prio[t]]
  /\ hold'     = [hold EXCEPT ![m] = (@ + 1) % HoldMod]
  /\ depth'    = [depth EXCEPT ![t][m] = @ + 1]
  /\ UNCHANGED <<suspend, prio, timer, want>>

(* rt_mutex_take of a mutex that is not, with no waiting time              *)
TakeRefused(t, m) ==
  /\ want[t] = Null /\ owner[m] # t /\ value[m] = 0
  /\ error' = [error EXCEPT ![t] = "ETIMEOUT"]
  /\ UNCHANGED <<value, owner, original, hold, suspend, prio, timer, want, depth>>

(* A waiter lends its priority to the owner, to that thread alone.         *)
Lend(t, o) == [prio EXCEPT ![o] = IF prio[t] < @ THEN prio[t] ELSE @]

(* rt_mutex_take of a mutex that is not available, up to rt_schedule       *)
TakeWait(t, m) ==
  /\ want[t] = Null /\ owner[m] # t /\ value[m] = 0
  /\ error'   = [error EXCEPT ![t] = "EOK"]
  /\ prio'    = Lend(t, owner[m])
  /\ suspend' = [suspend EXCEPT ![m] = ListSuspend(@, t, Flag, prio')]
  /\ \/ timer' = timer
     \/ t \in Timed /\ timer' = timer \cup {t}
  /\ want'    = [want EXCEPT ![t] = m]
  /\ UNCHANGED <<value, owner, original, hold, depth>>

(* The rest of rt_mutex_take, once the thread has been resumed             *)
TakeReturn(t) ==
  /\ want[t] # Null /\ ~Contains(suspend[want[t]], t)
  /\ want'  = [want EXCEPT ![t] = Null]
  /\ depth' = IF error[t] = "EOK" THEN [depth EXCEPT ![t][want[t]] = @ + 1] ELSE depth
  /\ UNCHANGED <<value, owner, original, hold, suspend, prio, timer, error>>

-----------------------------------------------------------------------------
(* Mutant of Resumed: rt_timer_stop is forgotten.                          *)
ResumedTimed(u, m) ==
  /\ suspend' = [suspend EXCEPT ![m] = RemoveFirst(@, u)]
  /\ UNCHANGED timer

(* rt_thread_resume, rt_thread_timeout: u leaves the list of m.            *)
Resumed(u, m) ==
  /\ suspend' = [suspend EXCEPT ![m] = RemoveFirst(@, u)]
  /\ timer'   = timer \ {u}

(* rt_mutex_release by another thread than the owner                       *)
ReleaseRefused(t, m) ==
  /\ want[t] = Null /\ owner[m] # t
  /\ error' = [error EXCEPT ![t] = "ERROR"]
  /\ UNCHANGED <<value, owner, original, hold, suspend, prio, timer, want, depth>>

(* rt_mutex_release by an owner that took the mutex several times          *)
ReleaseInner(t, m) ==
  /\ want[t] = Null /\ owner[m] = t /\ hold[m] # 1
  /\ hold'  = [hold EXCEPT ![m] = (@ + HoldMod - 1) % HoldMod]
  /\ depth' = [depth EXCEPT ![t][m] = @ - 1]
  /\ UNCHANGED <<value, owner, original, suspend, prio, timer, error, want>>

(* Mutant of GivenBack: the owner keeps the priority it was lent.          *)
KeptLent(t, m) == prio

(* change the owner thread to original priority                            *)
GivenBack(t, m) == [prio EXCEPT ![t] = original[m]]

(* Mutant of ReleaseFree: waiters are not looked for.                      *)
ReleaseAlways(t, m) ==
  /\ want[t] = Null /\ owner[m] = t /\ hold[m] = 1
  /\ prio'     = GivenBack(t, m)
  /\ value'    = [value EXCEPT ![m] = @ + 1]
  /\ owner'    = [owner EXCEPT ![m] = Null]
  /\ original' = [original EXCEPT ![m] = NoPrio]
  /\ hold'     = [hold EXCEPT ![m] = 0]
  /\ depth'    = [depth EXCEPT ![t][m] = @ - 1]
  /\ UNCHANGED <<suspend, timer, error, want>>

(* The last rt_mutex_release of an owner, nobody waiting                   *)
ReleaseFree(t, m) ==
  /\ want[t] = Null /\ owner[m] = t /\ hold[m] = 1
  /\ suspend[m] = <<>>
  /\ prio'     = GivenBack(t, m)
  /\ value'    = [value EXCEPT ![m] = @ + 1]
  /\ owner'    = [owner EXCEPT ![m] = Null]
  /\ original' = [original EXCEPT ![m] = NoPrio]
  /\ hold'     = [hold EXCEPT ![m] = 0]
  /\ depth'    = [depth EXCEPT ![t][m] = @ - 1]
  /\ UNCHANGED <<suspend, timer, error, want>>

(* Mutant of Promoted: the new owner of a FIFO mutex is not lent anything. *)
NotPromoted(p, u, m) == p

(* In a FIFO list the first thread need not be the most urgent one.        *)
Promoted(p, u, m) ==
  IF Flag = "FIFO" THEN [p EXCEPT ![u] = ListHighest(suspend[m], p, MaxPrio)] ELSE p

(* Mutant of ReleaseHandOver: the mutex is made available as well.         *)
HandOverFree(t, m) ==
  LET u == Head(suspend[m])
      p == GivenBack(t, m)
  IN  /\ want[t] = Null /\ owner[m] = t /\ hold[m] = 1
      /\ suspend[m] # <<>>
      /\ owner'    = [owner EXCEPT ![m] = u]
      /\ original' = [original EXCEPT ![m] = p[u]]
      /\ prio'     = Promoted(p, u, m)
      /\ value'    = [value EXCEPT ![m] = @ + 1]
      /\ Resumed(u, m)
      /\ depth'    = [depth EXCEPT ![t][m] = @ - 1]
      /\ UNCHANGED <<hold, error, want>>

(* The last rt_mutex_release of an owner: the mutex goes to the first      *)
(* waiter without becoming available in between.                           *)
ReleaseHandOver(t, m) ==
  LET u == Head(suspend[m])
      p == GivenBack(t, m)
  IN  /\ want[t] = Null /\ owner[m] = t /\ hold[m] = 1
      /\ suspend[m] # <<>>
      /\ owner'    = [owner EXCEPT ![m] = u]
      /\ original' = [original EXCEPT ![m] = p[u]]
      /\ prio'     = Promoted(p, u, m)
      /\ Resumed(u, m)
      /\ depth'    = [depth EXCEPT ![t][m] = @ - 1]
      /\ UNCHANGED <<value, hold, error, want>>

(* Mutant of Timeout: the thread leaves the list as if it were resumed.    *)
TimeoutSilent(u) ==
  /\ u \in timer
  /\ Resumed(u, want[u])
  /\ UNCHANGED <<value, owner, original, hold, prio, error, want, depth>>

(* The clock interrupt finds the waiter's timer expired.                   *)
Timeout(u) ==
  /\ u \in timer
  /\ error' = [error EXCEPT ![u] = "ETIMEOUT"]
  /\ Resumed(u, want[u])
  /\ UNCHANGED <<value, owner, original, hold, prio, want, depth>>

-----------------------------------------------------------------------------
(* rt_mutex_init, rt_mutex_create                                          *)
Init ==
  /\ value    = [m \in Mutexes |-> 1]
  /\ owner    = [m \in Mutexes |-> Null]
  /\ original = [m \in Mutexes |-> NoPrio]
  /\ hold     = [m \in Mutexes |-> 0]
  /\ suspend  = [m \in Mutexes |-> <<>>]
  /\ prio     = InitPrio
  /\ timer    = {}
  /\ error    = [t \in Thread |-> "EOK"]
  /\ want     = [t \in Thread |-> Null]
  /\ depth    = [t \in Thread |-> [m \in Mutexes |-> 0]]

Take(t, m) ==
  TakeAgain(t, m) \/ TakeFree(t, m) \/ TakeRefused(t, m) \/ TakeWait(t, m)

Release(t, m) ==
  \/ ReleaseRefused(t, m) \/ ReleaseInner(t, m)
  \/ ReleaseFree(t, m) \/ ReleaseHandOver(t, m)

Next ==
  \E t \in Thread : \/ TakeReturn(t) \/ Timeout(t)
                    \/ \E m \in Mutexes : Take(t, m) \/ Release(t, m)

Spec == Init /\ [][Next]_vars

(* Ready threads carry on with their call, and callers do not keep a mutex *)
(* for ever, however often they take it again.                             *)
Fairness ==
  \A t \in Thread :
    /\ WF_vars(TakeReturn(t))
    /\ \A m \in Mutexes : /\ WF_vars(ReleaseInner(t, m))
                          /\ SF_vars(ReleaseFree(t, m) \/ ReleaseHandOver(t, m))

FairSpec == Spec /\ Fairness

-----------------------------------------------------------------------------
TypeOK ==
  /\ value \in [Mutexes -> 0 .. 1]
  /\ owner \in [Mutexes -> Thread \cup {Null}]
  /\ original \in [Mutexes -> 0 .. MaxPrio]
  /\ hold \in [Mutexes -> 0 .. HoldMod - 1]
  /\ suspend \in [Mutexes -> Seq(Thread)]
  /\ \A m \in Mutexes : IsInjective(suspend[m])
  /\ prio \in [Thread -> Prios]
  /\ timer \subseteq Thread
  /\ error \in [Thread -> {"EOK", "ETIMEOUT", "ERROR"}]
  /\ want \in [Thread -> Mutexes \cup {Null}]
  /\ depth \in [Thread -> [Mutexes -> Nat]]

(* At most one thread is inside a mutex, it is the owner, and the hold     *)
(* count is the number of releases it still owes, the take it has not yet  *)
(* returned from included.  And nobody waits for a mutex without owner.    *)
OwnershipExact ==
  \A m \in Mutexes :
    /\ InFlight(m) \subseteq {owner[m]}
    /\ \A t \in Thread : depth[t][m] > 0 => owner[m] = t
    /\ owner[m] # Null =>
         hold[m] = depth[owner[m]][m] + Cardinality(InFlight(m))
    /\ value[m] = 1 <=> owner[m] = Null
    /\ owner[m] = Null => suspend[m] = <<>>

(* An owner is at least as urgent as every thread it keeps waiting.        *)
OwnerInherits ==
  \A m \in Mutexes : \A t \in Thread :
    Contains(suspend[m], t) => prio[owner[m]] <= prio[t]

(* A thread that owns nothing has its own priority back, whatever it was   *)
(* lent, and a waiter is not left with the priority of a wait it gave up.  *)
PriorityRestored ==
  \A t \in Thread : (\A m \in Mutexes : owner[m] # t) => prio[t] = InitPrio[t]

(* A thread timer only runs for a thread that waits.                       *)
TimersOfWaiters ==
  \A t \in timer : want[t] # Null /\ Contains(suspend[want[t]], t)

(* The state has its type, with no thread twice in a list, and timers run  *)
(* only for threads that wait.                                             *)
WaitersExact == TypeOK /\ TimersOfWaiters

(* A FIFO mutex reaches every waiter that has no timeout.                  *)
WaiterGetsMutex ==
  \A t \in Thread \ Timed : \A m \in Mutexes :
    want[t] = m ~> depth[t][m] > 0
=============================================================================
