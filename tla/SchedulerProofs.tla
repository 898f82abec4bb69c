--------------------------- MODULE SchedulerProofs ---------------------------
(***************************************************************************)
(* Proofs about Scheduler, for any number of threads and priorities, any   *)
(* nesting of locks and interrupts, under the calling discipline.          *)
(***************************************************************************)
EXTENDS Scheduler, KernelLemmas

USE DEF Prio

-----------------------------------------------------------------------------
(* Lists *)

(* A well-formed ready table: a queue without repetitions per priority.    *)
WellFormed(rdy) ==
  /\ rdy \in [Prio -> Seq(Thread)]
  /\ \A p \in Prio : IsInjective(rdy[p])

Bitmap(rdy) == {p \in Prio : rdy[p] # <<>>}

(* Removing a node from every list removes it, and nothing else.           *)
LEMMA UnlinkedContains ==
  ASSUME NEW rdy, WellFormed(rdy), NEW u \in Thread
  PROVE  /\ WellFormed(Unlinked(rdy, u))
         /\ \A p \in Prio, x \in Thread :
              Contains(Unlinked(rdy, u)[p], x) <=> Contains(rdy[p], x) /\ x # u
         /\ \A p \in Prio :
              ~Contains(rdy[p], u) => Unlinked(rdy, u)[p] = rdy[p]
  <1>1. ASSUME NEW p \in Prio
        PROVE  /\ Unlinked(rdy, u)[p] = RemoveFirst(rdy[p], u)
               /\ Unlinked(rdy, u)[p] \in Seq(Thread)
               /\ IsInjective(Unlinked(rdy, u)[p])
               /\ \A x \in Thread : Contains(Unlinked(rdy, u)[p], x)
                                      <=> Contains(rdy[p], x) /\ x # u
               /\ ~Contains(rdy[p], u) => Unlinked(rdy, u)[p] = rdy[p]
    <2>1. rdy[p] \in Seq(Thread) /\ IsInjective(rdy[p])
      BY <1>1 DEF WellFormed
    <2>2. Unlinked(rdy, u)[p] = RemoveFirst(rdy[p], u)
      BY <1>1 DEF Unlinked
    <2> QED BY <2>1, <2>2, RemoveContains
  <1>2. Unlinked(rdy, u) \in [Prio -> Seq(Thread)]
    <2>1. \A p \in Prio : RemoveFirst(rdy[p], u) \in Seq(Thread)
      BY <1>1
    <2> QED BY <2>1 DEF Unlinked
  <1> QED BY <1>1, <1>2 DEF WellFormed

(* Appending a node to the queue of priority p.                            *)
IsAppended(r, rdy, p, u) == r = [rdy EXCEPT ![p] = Append(@, u)]

LEMMA AppendedContains ==
  ASSUME NEW rdy, WellFormed(rdy), NEW u \in Thread, NEW p \in Prio,
         ~Contains(rdy[p], u), NEW r, IsAppended(r, rdy, p, u)
  PROVE  /\ WellFormed(r)
         /\ \A q \in Prio, x \in Thread :
              Contains(r[q], x) <=> Contains(rdy[q], x) \/ (q = p /\ x = u)
  <1>1. rdy[p] \in Seq(Thread) /\ IsInjective(rdy[p])
    BY DEF WellFormed
  <1>2. /\ Append(rdy[p], u) \in Seq(Thread)
        /\ IsInjective(Append(rdy[p], u))
        /\ \A x \in Thread : Contains(Append(rdy[p], u), x)
                               <=> Contains(rdy[p], x) \/ x = u
    BY <1>1, AppendContains
  <1>3. r \in [Prio -> Seq(Thread)]
    BY <1>2 DEF WellFormed, IsAppended
  <1>4. r[p] = Append(rdy[p], u) /\ \A q \in Prio \ {p} : r[q] = rdy[q]
    BY DEF WellFormed, IsAppended
  <1>5. WellFormed(r)
    BY <1>2, <1>3, <1>4 DEF WellFormed
  <1>6. \A q \in Prio, x \in Thread :
          Contains(r[q], x) <=> Contains(rdy[q], x) \/ (q = p /\ x = u)
    BY <1>2, <1>4
  <1> QED BY <1>5, <1>6

(* A bitmap in terms of what the queues contain.                           *)
LEMMA NonEmptyContains ==
  ASSUME NEW rdy, WellFormed(rdy)
  PROVE  \A p \in Prio : rdy[p] # <<>> <=> \E x \in Thread : Contains(rdy[p], x)
  BY EmptyContains DEF WellFormed

(* A non-empty set of priorities has a most urgent one.                    *)
LEMMA HighestReadyMin ==
  ASSUME NEW grp \in SUBSET Prio, grp # {}
  PROVE  HighestReady(grp) \in grp /\ \A q \in grp : HighestReady(grp) <= q
  <1>1. grp \subseteq Nat
    BY PrioAssumption
  <1>2. PICK m \in grp : \A q \in grp : ~(<<q, m>> \in OpToRel(<, Nat))
    BY <1>1, NatLessThanWellFounded, WFMin
  <1>3. \A q \in grp : ~(q < m)
    BY <1>1, <1>2 DEF OpToRel
  <1>4. \A q \in grp : m <= q
    BY <1>1, <1>3
  <1> QED BY <1>4 DEF HighestReady

-----------------------------------------------------------------------------
(* What the invariant says of the queues, in the form the steps need.      *)

LEMMA QueuesFacts ==
  ASSUME SchedInv
  PROVE  /\ WellFormed(ready)
         /\ \A p \in Prio, x \in Thread :
              Contains(ready[p], x) <=> stat[x] = "READY" /\ prio[x] = p /\ x \notin Dying
         /\ group = Bitmap(ready)
  BY DEF SchedInv, TypeOK, QueuesExact, BitmapExact, WellFormed, Bitmap

(* rt_schedule_remove_thread keeps the bitmap exact.                       *)
LEMMA RemoveFacts ==
  ASSUME SchedInv, NEW u \in Thread
  PROVE  /\ WellFormed(Unlinked(ready, u))
         /\ \A p \in Prio, x \in Thread :
              Contains(Unlinked(ready, u)[p], x)
                <=> stat[x] = "READY" /\ prio[x] = p /\ x \notin Dying /\ x # u
         /\ GroupWithout(ready, group, u)
              = Bitmap(Unlinked(ready, u))
  <1> DEFINE r == Unlinked(ready, u)
  <1>1. /\ WellFormed(r)
        /\ \A p \in Prio, x \in Thread :
             Contains(r[p], x)
               <=> stat[x] = "READY" /\ prio[x] = p /\ x \notin Dying /\ x # u
        /\ \A p \in Prio : ~Contains(ready[p], u) => r[p] = ready[p]
    BY QueuesFacts, UnlinkedContains
  <1>2. prio[u] \in Prio
    BY DEF SchedInv, TypeOK
  <1>3. \A p \in Prio : p # prio[u] => r[p] = ready[p]
    BY <1>1, QueuesFacts
  <1>4. r[prio[u]] # <<>> => ready[prio[u]] # <<>>
    <2>1. \A p \in Prio : r[p] # <<>> <=> \E x \in Thread : Contains(r[p], x)
      BY <1>1, NonEmptyContains
    <2>2. \A p \in Prio : ready[p] # <<>> <=> \E x \in Thread : Contains(ready[p], x)
      BY QueuesFacts, NonEmptyContains
    <2> HIDE DEF r
    <2> QED BY <1>1, <1>2, <2>1, <2>2, QueuesFacts
  <1>5. GroupWithout(ready, group, u) = Bitmap(r)
    <2>1. group = Bitmap(ready)
      BY QueuesFacts
    <2>2. GroupWithout(ready, group, u) = IF r[prio[u]] = <<>> THEN group \ {prio[u]} ELSE group
      BY DEF GroupWithout
    <2> HIDE DEF r
    <2> QED BY <1>2, <1>3, <1>4, <2>1, <2>2 DEF Bitmap
  <1> QED BY <1>1, <1>5

(* rt_schedule_insert_thread keeps the bitmap exact.                       *)
LEMMA AppendFacts ==
  ASSUME NEW rdy, WellFormed(rdy), NEW u \in Thread, NEW p \in Prio,
         ~Contains(rdy[p], u), NEW grp, grp = Bitmap(rdy),
         NEW r, IsAppended(r, rdy, p, u)
  PROVE  /\ WellFormed(r)
         /\ \A q \in Prio, x \in Thread :
              Contains(r[q], x) <=> Contains(rdy[q], x) \/ (q = p /\ x = u)
         /\ grp \cup {p} = Bitmap(r)
  <1>1. /\ WellFormed(r)
        /\ \A q \in Prio, x \in Thread :
             Contains(r[q], x) <=> Contains(rdy[q], x) \/ (q = p /\ x = u)
    BY AppendedContains
  <1>2. \A q \in Prio : r[q] # <<>> <=> \E x \in Thread : Contains(r[q], x)
    BY <1>1, NonEmptyContains
  <1>3. \A q \in Prio : rdy[q] # <<>> <=> \E x \in Thread : Contains(rdy[q], x)
    BY NonEmptyContains
  <1>4. grp \cup {p} = Bitmap(r)
    BY <1>1, <1>2, <1>3 DEF Bitmap
  <1> QED BY <1>1, <1>4

(* rt_schedule finds a thread: the head of the most urgent queue.          *)
LEMMA ToThreadFacts ==
  ASSUME NEW rdy, WellFormed(rdy), NEW grp, grp = Bitmap(rdy),
         NEW x \in Thread, NEW p \in Prio, Contains(rdy[p], x)
  PROVE  /\ HighestReady(grp) \in Prio
         /\ HighestReady(grp) \in grp
         /\ \A q \in grp : HighestReady(grp) <= q
         /\ rdy[HighestReady(grp)] # <<>>
         /\ ToThread(rdy, grp) \in Thread
         /\ Contains(rdy[HighestReady(grp)], ToThread(rdy, grp))
  <1>1. p \in grp /\ grp \subseteq Prio
    BY NonEmptyContains DEF Bitmap
  <1>2. HighestReady(grp) \in grp /\ \A q \in grp : HighestReady(grp) <= q
    BY <1>1, HighestReadyMin
  <1> DEFINE h == HighestReady(grp)
  <1>3. h \in Prio /\ rdy[h] \in Seq(Thread) /\ rdy[h] # <<>>
    BY <1>2 DEF WellFormed, Bitmap
  <1> HIDE DEF h
  <1>4. Head(rdy[h]) \in Thread /\ Contains(rdy[h], Head(rdy[h]))
    BY <1>3, HeadContains
  <1> QED BY <1>2, <1>3, <1>4 DEF h, ToThread

(* The idle thread is always in a queue, so there is always a bit set.     *)
LEMMA IdleQueued ==
  ASSUME SchedInv, Discipline
  PROVE  /\ Idle \in Thread /\ prio[Idle] \in Prio
         /\ Idle \notin Dying
         /\ Contains(ready[prio[Idle]], Idle)
  <1>1. Idle \in Thread /\ prio[Idle] \in Prio
    BY ThreadAssumption DEF SchedInv, TypeOK
  <1>2. Idle \notin Dying
    BY <1>1 DEF Dying, SchedInv, TargetHeld, HeldTarget, Discipline, Managed
  <1> QED BY <1>1, <1>2, QueuesFacts DEF SchedInv, IdleReady

(* The current thread is not being deleted.                                *)
LEMMA CurNotDying ==
  ASSUME SchedInv PROVE cur \notin Dying
  BY DEF SchedInv, TargetHeld, HeldTarget, Dying

-----------------------------------------------------------------------------
(* The lists.  ListsOK is the part of the invariant that is about them.    *)

ListsOK ==
  /\ stat \in [Thread -> Stats]
  /\ prio \in [Thread -> Prio]
  /\ ready \in [Prio -> Seq(Thread)]
  /\ group \subseteq Prio
  /\ waiting \subseteq Thread
  /\ timer \subseteq Thread
  /\ defunct \in Seq(Thread)
  /\ QueuesExact
  /\ BitmapExact
  /\ WaitersSuspended
  /\ TimersOfTimed
  /\ TimerOnlySuspended
  /\ IdleReady
  /\ DefunctExact

(* A step that starts and ends no delete, no detach and no free.           *)
Frame ==
  /\ Dying' = Dying
  /\ Detaching' = Detaching
  /\ \A x \in Thread : Freeing(x)' <=> Freeing(x)

Special == {"delete1", "delete2", "detach", "free"}

LEMMA GotoFrame ==
  ASSUME TypeOK, NEW t \in Thread, NEW l, NEW v, GotoOn(t, l, v),
         pc[t] \notin Special, l \notin Special
  PROVE  Frame
  <1>1. \A s \in Thread : s # t => pc'[s] = pc[s] /\ obj'[s] = obj[s]
    BY DEF GotoOn, TypeOK
  <1>2. pc'[t] = l
    BY DEF GotoOn, TypeOK
  <1>3. Dying' = Dying
    BY <1>1, <1>2 DEF Dying, Special
  <1>5. Detaching' = Detaching
    BY <1>1, <1>2 DEF Detaching, Special
  <1>4. ASSUME NEW x \in Thread PROVE Freeing(x)' <=> Freeing(x)
    BY <1>1, <1>2, ThreadAssumption DEF Freeing, Special
  <1> QED BY <1>3, <1>4, <1>5 DEF Frame

LEMMA StillFrame ==
  ASSUME UNCHANGED <<pc, obj>>
  PROVE  Frame
  BY DEF Frame, Dying, Detaching, Freeing

(* The three facts that make the queues right after a step.                *)
LEMMA QueuesFrom ==
  ASSUME WellFormed(ready)',
         \A p \in Prio, x \in Thread :
           Contains(ready'[p], x)
             <=> stat'[x] = "READY" /\ prio'[x] = p /\ x \notin Dying',
         group' = Bitmap(ready')
  PROVE  /\ ready' \in [Prio -> Seq(Thread)] /\ group' \subseteq Prio
         /\ QueuesExact' /\ BitmapExact'
  BY DEF WellFormed, QueuesExact, BitmapExact, Bitmap

(* A thread that is not closed is not on the defunct list.                 *)
LEMMA DefunctFacts ==
  ASSUME SchedInv, NEW u \in Thread, stat[u] # "CLOSE"
  PROVE  RemoveFirst(defunct, u) = defunct
  <1>1. ~Contains(defunct, u) /\ IsInjective(defunct) /\ defunct \in Seq(Thread)
    BY DEF SchedInv, TypeOK, DefunctExact
  <1> QED BY <1>1, RemoveContains

LEMMA ListsSame ==
  ASSUME SchedInv, UNCHANGED <<lists, prio>>, Frame
  PROVE  ListsOK'
  BY DEF SchedInv, TypeOK, ListsOK, lists, Frame, QueuesExact, BitmapExact,
         WaitersSuspended, TimersOfTimed, TimerOnlySuspended, IdleReady, DefunctExact

(* A suspended thread is made ready.                                       *)
LEMMA ListsReady ==
  ASSUME SchedInv, NEW u \in Thread, stat[u] = "SUSPEND", u \notin Dying,
         MakeReady(u), prio' = prio, Frame
  PROVE  ListsOK'
  <1> DEFINE r == Unlinked(ready, u)
  <1>1. /\ WellFormed(r)
        /\ \A p \in Prio, x \in Thread :
             Contains(r[p], x) <=> stat[x] = "READY" /\ prio[x] = p /\ x \notin Dying
        /\ group = Bitmap(r)
    <2>1. \A p \in Prio : ~Contains(ready[p], u)
      BY QueuesFacts
    <2>2. WellFormed(r) /\ \A p \in Prio : r[p] = ready[p]
      BY <2>1, QueuesFacts, UnlinkedContains
    <2> HIDE DEF r
    <2> QED BY <2>2, QueuesFacts DEF Bitmap
  <1>2. prio[u] \in Prio /\ ~Contains(r[prio[u]], u)
    BY <1>1 DEF SchedInv, TypeOK
  <1>3. /\ IsAppended(ready', r, prio[u], u)
        /\ group' = group \cup {prio[u]}
        /\ stat'  = [stat EXCEPT ![u] = "READY"]
        /\ waiting' = waiting \ {u} /\ timer' = timer \ {u}
        /\ defunct' = defunct
    BY DefunctFacts DEF MakeReady, InsertThread, Inserted, IsAppended
  <1> HIDE DEF r
  <1>4. /\ WellFormed(ready')
        /\ \A q \in Prio, x \in Thread :
             Contains(ready'[q], x) <=> Contains(r[q], x) \/ (q = prio[u] /\ x = u)
        /\ group' = Bitmap(ready')
    BY <1>1, <1>2, <1>3, AppendFacts
  <1>5. stat' \in [Thread -> Stats] /\ stat'[u] = "READY"
        /\ \A x \in Thread \ {u} : stat'[x] = stat[x]
    BY <1>3 DEF SchedInv, TypeOK, Stats
  <1>6. /\ ready' \in [Prio -> Seq(Thread)] /\ group' \subseteq Prio
        /\ QueuesExact' /\ BitmapExact'
    <2>1. \A q \in Prio, x \in Thread :
            Contains(ready'[q], x) <=> stat'[x] = "READY" /\ prio'[x] = q /\ x \notin Dying'
      BY <1>1, <1>4, <1>5 DEF Frame
    <2>2. WellFormed(ready)'
      BY <1>4 DEF WellFormed
    <2> QED BY <1>4, <2>1, <2>2, QueuesFrom
  <1>7. WaitersSuspended' /\ TimersOfTimed' /\ TimerOnlySuspended' /\ IdleReady'
    BY <1>3, <1>5, ThreadAssumption DEF SchedInv, TypeOK, WaitersSuspended,
       TimersOfTimed, TimerOnlySuspended, IdleReady
  <1>8. DefunctExact'
    BY <1>3, <1>5 DEF SchedInv, DefunctExact, Frame
  <1> QED BY <1>3, <1>5, <1>6, <1>7, <1>8 DEF SchedInv, TypeOK, ListsOK

(* A ready or suspended thread is suspended, on a wait list or not, with   *)
(* its timer running or not.                                               *)
LEMMA ListsSuspend ==
  ASSUME SchedInv, NEW u \in Thread, stat[u] \in {"READY", "SUSPEND"}, u # Idle,
         stat'  = [stat EXCEPT ![u] = "SUSPEND"],
         ready' = Unlinked(ready, u), group' = GroupWithout(ready, group, u),
         waiting' \in {waiting, waiting \ {u}, waiting \cup {u}},
         timer' \in {timer, timer \ {u}}
           \/ (u \in Timed /\ timer' = timer \cup {u}),
         defunct' \in {defunct, RemoveFirst(defunct, u)},
         prio' = prio, Frame
  PROVE  ListsOK'
  <1>1. defunct' = defunct
    BY DefunctFacts
  <1>2. stat' \in [Thread -> Stats] /\ stat'[u] = "SUSPEND"
        /\ \A x \in Thread \ {u} : stat'[x] = stat[x]
    BY DEF SchedInv, TypeOK, Stats
  <1>3. /\ ready' \in [Prio -> Seq(Thread)] /\ group' \subseteq Prio
        /\ QueuesExact' /\ BitmapExact'
    <2>1. /\ WellFormed(Unlinked(ready, u))
          /\ \A p \in Prio, x \in Thread :
               Contains(Unlinked(ready, u)[p], x)
                 <=> stat[x] = "READY" /\ prio[x] = p /\ x \notin Dying /\ x # u
          /\ GroupWithout(ready, group, u) = Bitmap(Unlinked(ready, u))
      BY RemoveFacts
    <2>2. WellFormed(ready)' /\ group' = Bitmap(ready')
      BY <2>1 DEF WellFormed
    <2>3. \A q \in Prio, x \in Thread :
            Contains(ready'[q], x) <=> stat'[x] = "READY" /\ prio'[x] = q /\ x \notin Dying'
      BY <1>2, <2>1 DEF Frame
    <2> QED BY <2>2, <2>3, QueuesFrom
  <1>4. WaitersSuspended' /\ TimersOfTimed' /\ TimerOnlySuspended' /\ IdleReady'
    BY <1>2, ThreadAssumption DEF SchedInv, TypeOK, WaitersSuspended,
       TimersOfTimed, TimerOnlySuspended, IdleReady
  <1>5. DefunctExact'
    BY <1>1, <1>2 DEF SchedInv, DefunctExact, Frame
  <1> QED BY <1>1, <1>2, <1>3, <1>4, <1>5 DEF SchedInv, TypeOK, ListsOK

(* rt_thread_yield's section moves the current thread to the tail.         *)
LEMMA ListsYield ==
  ASSUME SchedInv, ready' = Yielded, Frame,
         UNCHANGED <<stat, prio, group, waiting, timer, defunct>>
  PROVE  ListsOK'
  <1>1. CASE ready' = ready
    BY <1>1, ListsSame DEF lists
  <1>2. CASE ready' # ready
    <2> DEFINE r == Unlinked(ready, cur)
    <2>1. /\ cur \in Thread /\ prio[cur] \in Prio
          /\ stat[cur] = "READY"
          /\ IsAppended(ready', r, prio[cur], cur)
      BY <1>2 DEF SchedInv, TypeOK, Yielded, Inserted, IsAppended
    <2>2. /\ WellFormed(r)
          /\ \A p \in Prio, x \in Thread :
               Contains(r[p], x)
                 <=> stat[x] = "READY" /\ prio[x] = p /\ x \notin Dying /\ x # cur
      BY <2>1, RemoveFacts
    <2> HIDE DEF r
    <2>3. /\ WellFormed(ready')
          /\ \A q \in Prio, x \in Thread :
               Contains(ready'[q], x) <=> Contains(r[q], x) \/ (q = prio[cur] /\ x = cur)
      BY <2>1, <2>2, AppendedContains
    <2>4. \A q \in Prio, x \in Thread : Contains(ready'[q], x) <=> Contains(ready[q], x)
      BY <2>1, <2>2, <2>3, QueuesFacts, CurNotDying
    <2>5. \A q \in Prio : ready'[q] # <<>> <=> \E x \in Thread : Contains(ready'[q], x)
      BY <2>3, NonEmptyContains
    <2>6. \A q \in Prio : ready[q] # <<>> <=> \E x \in Thread : Contains(ready[q], x)
      BY QueuesFacts, NonEmptyContains
    <2>7. group' = Bitmap(ready')
      BY <2>4, <2>5, <2>6, QueuesFacts DEF Bitmap
    <2>8. /\ ready' \in [Prio -> Seq(Thread)] /\ group' \subseteq Prio
          /\ QueuesExact' /\ BitmapExact'
      <3>1. WellFormed(ready)'
        BY <2>3 DEF WellFormed
      <3>2. \A p \in Prio, x \in Thread :
              Contains(ready'[p], x)
                <=> stat'[x] = "READY" /\ prio'[x] = p /\ x \notin Dying'
        BY <2>4, QueuesFacts DEF Frame
      <3> QED BY <2>7, <3>1, <3>2, QueuesFrom
    <2> QED BY <2>8 DEF SchedInv, TypeOK, ListsOK, Frame, WaitersSuspended,
               TimersOfTimed, TimerOnlySuspended, IdleReady, DefunctExact
  <1> QED BY <1>1, <1>2

(* What the discipline says of a managed thread and its manager.           *)
LEMMA ManagedFacts ==
  ASSUME SchedInv, Discipline, NEW t \in Thread, NEW u \in Thread,
         <<t, u>> \in Manages
  PROVE  /\ u \in Managed /\ t \notin Managed /\ u # t /\ u # Idle
         /\ u \notin timer
         /\ \A s \in Thread : <<s, u>> \in Manages => s = t
  <1>1. u \in Managed
    BY DEF Managed
  <1>2. u \notin timer
    BY <1>1 DEF SchedInv, TimersOfTimed, Discipline
  <1> QED BY <1>1, <1>2 DEF Discipline

(* Nobody else is in a call about the same thread, and nobody's target is  *)
(* itself in such a call.                                                  *)
Holding == {"start1", "start2", "resume1", "resume2", "suspend", "delete1", "delete2",
            "detach"}

LEMMA TargetFacts ==
  ASSUME SchedInv, Discipline, NEW t \in Thread, pc[t] \in Holding
  PROVE  /\ obj[t] \in Thread /\ <<t, obj[t]>> \in Manages
         /\ \A s \in Thread : pc[s] \in Holding /\ obj[s] = obj[t] => s = t
         /\ pc[t] # "suspend" => obj[t] # cur /\ obj[t] \notin waiting
         /\ pc[t] \in {"start1", "start2", "resume1", "resume2"} =>
              stat[obj[t]] = "SUSPEND" /\ obj[t] \notin Dying
         /\ pc[t] = "suspend" =>
              stat[obj[t]] \in {"READY", "SUSPEND"} /\ obj[t] \notin Dying
         /\ pc[t] \in {"delete1", "delete2"} =>
              obj[t] \in Dying /\ stat[obj[t]] \in {"INIT", "READY", "SUSPEND"}
         /\ pc[t] = "detach" => obj[t] \in Detaching /\ stat[obj[t]] = "CLOSE"
  <1>1. obj[t] \in Thread /\ <<t, obj[t]>> \in Manages
    BY DEF SchedInv, TypeOK, TargetHeld, HeldTarget, Holding
  <1>2. ASSUME NEW s \in Thread, pc[s] \in Holding, obj[s] = obj[t]
        PROVE  s = t
    <2>1. <<s, obj[t]>> \in Manages
      BY <1>2 DEF SchedInv, TypeOK, TargetHeld, HeldTarget, Holding
    <2> QED BY <1>1, <2>1 DEF Discipline
  <1>3. pc[t] \notin {"delete1", "delete2"} => obj[t] \notin Dying
    BY <1>2 DEF Dying, Holding
  <1>4. pc[t] \in {"delete1", "delete2"} => obj[t] \in Dying
    BY <1>1 DEF Dying
  <1>5. pc[t] = "detach" => obj[t] \in Detaching
    BY <1>1 DEF Detaching
  <1> QED BY <1>1, <1>2, <1>3, <1>4, <1>5 DEF SchedInv, TargetHeld, HeldTarget, Holding

(* Unlinking a thread that is in no ready queue changes nothing.           *)
LEMMA UnlinkedSame ==
  ASSUME SchedInv, NEW u \in Thread, stat[u] # "READY" \/ u \in Dying
  PROVE  Unlinked(ready, u) = ready /\ GroupWithout(ready, group, u) = group
  <1>1. \A p \in Prio : ~Contains(ready[p], u)
    BY QueuesFacts
  <1>2. \A p \in Prio : Unlinked(ready, u)[p] = ready[p]
    BY <1>1, QueuesFacts, UnlinkedContains
  <1>3. Unlinked(ready, u) \in [Prio -> Seq(Thread)] /\ ready \in [Prio -> Seq(Thread)]
    BY QueuesFacts, UnlinkedContains DEF WellFormed
  <1>4. Unlinked(ready, u) = ready
    <2> DEFINE r == Unlinked(ready, u)
    <2>1. r = [p \in Prio |-> r[p]] /\ ready = [p \in Prio |-> ready[p]]
      BY <1>3
    <2> HIDE DEF r
    <2>2. [p \in Prio |-> r[p]] = [p \in Prio |-> ready[p]]
      BY <1>2 DEF r
    <2> QED BY <2>1, <2>2 DEF r
  <1>5. prio[u] \in Prio
    BY DEF SchedInv, TypeOK
  <1> QED BY <1>4, <1>5, QueuesFacts DEF GroupWithout, Bitmap

(* What keeps a call under way in order while another thread takes a step. *)
LEMMA HeldSame ==
  ASSUME NEW s \in Thread, HeldTarget(s), pc'[s] = pc[s], obj'[s] = obj[s],
         pc[s] \in Holding =>
           /\ stat'[obj[s]] = stat[obj[s]]
           /\ obj[s] = cur' => obj[s] = cur
           /\ obj[s] \in waiting' => obj[s] \in waiting
           /\ obj[s] \in timer' => obj[s] \in timer
  PROVE  HeldTarget(s)'
  BY DEF HeldTarget, Holding

(* A thread dies: onto the defunct list, or straight back to the pool of   *)
(* free control blocks.                                                    *)
LEMMA BuryFacts ==
  ASSUME SchedInv, NEW u \in Thread, ~Contains(defunct, u), ~Freeing(u),
         stat'[u] \in {"FREE", "CLOSE"}, stat'[u] = "FREE" <=> u \in Detached,
         \A x \in Thread \ {u} : stat'[x] = stat[x],
         defunct' = IF u \in Detached THEN defunct ELSE <<u>> \o defunct,
         \A x \in Thread : Freeing(x)' <=> Freeing(x),
         \A x \in Thread : x \in Detaching' <=> x \in Detaching /\ x # u
  PROVE  defunct' \in Seq(Thread) /\ DefunctExact'
  <1>1. defunct \in Seq(Thread) /\ IsInjective(defunct)
    BY DEF SchedInv, TypeOK, DefunctExact
  <1>2. CASE u \in Detached
    BY <1>1, <1>2 DEF SchedInv, DefunctExact
  <1>3. CASE u \notin Detached
    <2>1. /\ defunct' \in Seq(Thread) /\ IsInjective(defunct')
          /\ \A x \in Thread : Contains(defunct', x) <=> Contains(defunct, x) \/ x = u
      BY <1>1, <1>3, ConsContains
    <2> QED BY <1>1, <1>3, <2>1 DEF SchedInv, DefunctExact
  <1> QED BY <1>2, <1>3

-----------------------------------------------------------------------------
(* Steps *)

(* What rt_schedule leaves: either the current thread goes on, with        *)
(* NEED_RESCHED, locked or in an interrupt; or NEED_RESCHED is clear and   *)
(* the CPU is on a queued thread.                                          *)
LEMMA ScheduleFacts ==
  ASSUME SchedInv, NEW rdy, WellFormed(rdy), NEW grp,
         grp = Bitmap(rdy),
         NEW x \in Thread, NEW p \in Prio, Contains(rdy[p], x),
         NEW lvl, NEW irq, RtSchedule(rdy, grp, lvl, irq)
  PROVE  /\ cur' \in Thread /\ resched' \in [Thread -> BOOLEAN]
         /\ \A y \in Thread : y # cur => resched'[y] = resched[y]
         /\ \/ /\ cur' = cur /\ resched'[cur]
               /\ lvl[cur] > 0 \/ irq[cur] > 0
            \/ /\ ~resched'[cur] /\ ~(lvl[cur] > 0)
               /\ cur' = cur \/ ~(irq[cur] > 0)
               /\ \E q \in Prio : Contains(rdy[q], cur')
  <1> DEFINE to    == ToThread(rdy, grp)
             defer == lvl[cur] > 0 \/ (to # cur /\ irq[cur] > 0)
  <1>1. to \in Thread /\ \E q \in Prio : Contains(rdy[q], to)
    BY ToThreadFacts
  <1>2. cur \in Thread /\ resched \in [Thread -> BOOLEAN]
    BY DEF SchedInv, TypeOK
  <1>3. /\ resched' = [resched EXCEPT ![cur] = defer]
        /\ cur' = IF defer THEN cur ELSE to
    BY DEF RtSchedule
  <1>4. defer \in BOOLEAN
    OBVIOUS
  <1> HIDE DEF to
  <1>5. CASE defer
    BY <1>1, <1>2, <1>3, <1>5
  <1>6. CASE ~defer
    BY <1>1, <1>2, <1>3, <1>6
  <1> QED BY <1>5, <1>6

(* The same, of a step that ends in rt_schedule with its lists in order:   *)
(* the CPU is on a thread that is ready and not being deleted.             *)
LEMMA RescheduleFacts ==
  ASSUME SchedInv, Discipline, ListsOK', Dying' = Dying,
         NEW lvl, NEW irq, RtSchedule(ready', group', lvl, irq)
  PROVE  /\ cur' \in Thread /\ resched' \in [Thread -> BOOLEAN]
         /\ \A y \in Thread : y # cur => resched'[y] = resched[y]
         /\ \/ /\ cur' = cur /\ resched'[cur]
               /\ lvl[cur] > 0 \/ irq[cur] > 0
            \/ /\ ~resched'[cur] /\ ~(lvl[cur] > 0)
               /\ cur' = cur \/ ~(irq[cur] > 0)
               /\ stat'[cur'] = "READY" /\ cur' \notin Dying
  <1>1. /\ WellFormed(ready') /\ group' = Bitmap(ready')
        /\ \A p \in Prio, x \in Thread :
             Contains(ready'[p], x) <=> stat'[x] = "READY" /\ prio'[x] = p /\ x \notin Dying
    BY DEF ListsOK, WellFormed, Bitmap, QueuesExact, BitmapExact
  <1>2. Idle \in Thread /\ prio'[Idle] \in Prio /\ Contains(ready'[prio'[Idle]], Idle)
    BY <1>1, IdleQueued DEF ListsOK, IdleReady
  <1>3. /\ cur' \in Thread /\ resched' \in [Thread -> BOOLEAN]
        /\ \A y \in Thread : y # cur => resched'[y] = resched[y]
        /\ \/ /\ cur' = cur /\ resched'[cur]
              /\ lvl[cur] > 0 \/ irq[cur] > 0
           \/ /\ ~resched'[cur] /\ ~(lvl[cur] > 0)
              /\ cur' = cur \/ ~(irq[cur] > 0)
              /\ \E q \in Prio : Contains(ready'[q], cur')
    BY <1>1, <1>2, ScheduleFacts
  <1> QED BY <1>1, <1>3

(* rt_enter_critical                                                       *)
LEMMA EnterCriticalStep ==
  ASSUME SchedInv, Discipline, NEW t \in Thread, EnterCritical(t)
  PROVE  SchedInv'
  <1>1. Frame
    BY StillFrame DEF EnterCritical
  <1>2. ListsOK'
    BY <1>1, ListsSame DEF EnterCritical
  <1>3. TypeOK'
    <2>1. level' \in [Thread -> 0 .. MaxLevel]
      BY BoundAssumption, SMTT(30) DEF SchedInv, TypeOK, EnterCritical
    <2> QED BY <1>2, <2>1 DEF SchedInv, TypeOK, ListsOK, EnterCritical, lists
  <1>4. TargetHeld'
    BY DEF SchedInv, TypeOK, TargetHeld, HeldTarget, EnterCritical, At,
       lists
  <1>5. PreemptCountOwned'
    BY BoundAssumption DEF SchedInv, TypeOK, PreemptCountOwned,
       EnterCritical, At, lists
  <1>6. CurrentRunnable'
    BY <1>1 DEF SchedInv, TypeOK, CurrentRunnable, Frame, EnterCritical, At,
       lists
  <1>7. OnlyIdleFrees'
    BY DEF SchedInv, TypeOK, OnlyIdleFrees, EnterCritical, At, lists
  <1> QED BY <1>2, <1>3, <1>4, <1>5, <1>6, <1>7 DEF SchedInv, ListsOK

(* rt_exit_critical                                                        *)
LEMMA ExitCriticalStep ==
  ASSUME SchedInv, Discipline, NEW t \in Thread, ExitCritical(t)
  PROVE  SchedInv'
  <1>1. Frame
    BY GotoFrame DEF SchedInv, ExitCritical, Goto, At, Special
  <1>2. ListsOK'
    BY <1>1, ListsSame DEF ExitCritical
  <1>3. TypeOK'
    BY <1>2, BoundAssumption, SMTT(30) DEF SchedInv, TypeOK, ListsOK, Labels,
       ExitCritical, At, lists, Goto, GotoOn
  <1>4. TargetHeld'
    BY DEF SchedInv, TypeOK, TargetHeld, HeldTarget, ExitCritical, At,
       lists, Goto, GotoOn
  <1>5. PreemptCountOwned'
    BY BoundAssumption DEF SchedInv, TypeOK, PreemptCountOwned,
       ExitCritical, At, lists, Goto, GotoOn
  <1>6. CurrentRunnable'
    BY <1>1 DEF SchedInv, TypeOK, CurrentRunnable, Frame, ExitCritical, At,
       lists, Goto, GotoOn
  <1>7. OnlyIdleFrees'
    BY DEF SchedInv, TypeOK, OnlyIdleFrees, ExitCritical, At, lists, Goto,
       GotoOn
  <1> QED BY <1>2, <1>3, <1>4, <1>5, <1>6, <1>7 DEF SchedInv, ListsOK

(* rt_thread_resume, its check                                             *)
LEMMA ResumeStep ==
  ASSUME SchedInv, Discipline, NEW t \in Thread, NEW u \in Thread, Resume(t, u)
  PROVE  SchedInv'
  <1>1. Frame
    BY GotoFrame DEF SchedInv, Resume, Goto, At, Special
  <1>2. ListsOK'
    BY <1>1, ListsSame DEF Resume
  <1>3. TypeOK'
    BY <1>2, BoundAssumption DEF SchedInv, TypeOK, ListsOK, Labels, Resume,
       At, lists, counts, GotoOn
  <1>4. TargetHeld'
    <2>1. /\ u # cur /\ u \notin timer /\ u \notin waiting
          /\ t = cur /\ <<t, u>> \in Manages /\ stat[u] = "SUSPEND"
      BY ManagedFacts DEF SchedInv, WaitersSuspended, Resume, At, Discipline, Rules
    <2>2. /\ pc'[t] = "resume1" /\ obj'[t] = u
          /\ \A s \in Thread \ {t} : pc'[s] = pc[s] /\ obj'[s] = obj[s]
      BY DEF SchedInv, TypeOK, Resume, GotoOn
    <2>3. UNCHANGED <<cur, waiting, timer>> /\ stat' = stat
      BY DEF Resume, lists
    <2> QED BY <2>1, <2>2, <2>3, ZenonT(60) DEF SchedInv, TypeOK, TargetHeld, HeldTarget
  <1>5. PreemptCountOwned'
    BY BoundAssumption DEF SchedInv, TypeOK, PreemptCountOwned, Resume, At,
       lists, counts, GotoOn
  <1>6. CurrentRunnable'
    BY <1>1 DEF SchedInv, TypeOK, CurrentRunnable, Frame, Resume, At, lists,
       counts, GotoOn
  <1>7. OnlyIdleFrees'
    BY DEF SchedInv, TypeOK, OnlyIdleFrees, Resume, At, lists, counts,
       GotoOn
  <1> QED BY <1>2, <1>3, <1>4, <1>5, <1>6, <1>7 DEF SchedInv, ListsOK

(* rt_thread_suspend, its check                                            *)
LEMMA SuspendStep ==
  ASSUME SchedInv, Discipline, NEW t \in Thread, NEW u \in Thread, Suspend(t, u)
  PROVE  SchedInv'
  <1>1. Frame
    BY GotoFrame DEF SchedInv, Suspend, Goto, At, Special
  <1>2. ListsOK'
    BY <1>1, ListsSame DEF Suspend
  <1>3. TypeOK'
    BY <1>2, BoundAssumption DEF SchedInv, TypeOK, ListsOK, Labels, Suspend,
       At, lists, counts, GotoOn
  <1>4. TargetHeld'
    BY DEF SchedInv, TypeOK, TargetHeld, HeldTarget, Suspend, At, lists,
       counts, GotoOn
  <1>5. PreemptCountOwned'
    BY BoundAssumption DEF SchedInv, TypeOK, PreemptCountOwned, Suspend, At,
       lists, counts, GotoOn
  <1>6. CurrentRunnable'
    BY <1>1 DEF SchedInv, TypeOK, CurrentRunnable, Frame, Suspend, At,
       lists, counts, GotoOn
  <1>7. OnlyIdleFrees'
    BY DEF SchedInv, TypeOK, OnlyIdleFrees, Suspend, At, lists, counts,
       GotoOn
  <1> QED BY <1>2, <1>3, <1>4, <1>5, <1>6, <1>7 DEF SchedInv, ListsOK

(* rt_interrupt_enter                                                      *)
LEMMA IrqEnterStep ==
  ASSUME SchedInv, Discipline, IrqEnter
  PROVE  SchedInv'
  <1>1. Frame
    BY StillFrame DEF IrqEnter
  <1>2. ListsOK'
    BY <1>1, ListsSame DEF IrqEnter
  <1>3. TypeOK'
    BY <1>2, BoundAssumption, SMTT(30) DEF SchedInv, TypeOK, ListsOK, Labels,
       IrqEnter, lists
  <1>4. TargetHeld'
    BY DEF SchedInv, TypeOK, TargetHeld, HeldTarget, IrqEnter, lists
  <1>5. PreemptCountOwned'
    BY BoundAssumption DEF SchedInv, TypeOK, PreemptCountOwned, IrqEnter,
       lists
  <1>6. CurrentRunnable'
    BY <1>1 DEF SchedInv, TypeOK, CurrentRunnable, Frame, IrqEnter, lists
  <1>7. OnlyIdleFrees'
    BY DEF SchedInv, TypeOK, OnlyIdleFrees, IrqEnter, lists
  <1> QED BY <1>2, <1>3, <1>4, <1>5, <1>6, <1>7 DEF SchedInv, ListsOK

(* rt_thread_startup                                                       *)
LEMMA StartupStep ==
  ASSUME SchedInv, Discipline, NEW t \in Thread, NEW u \in Thread, Startup(t, u)
  PROVE  SchedInv'
  <1>1. Frame
    BY GotoFrame DEF SchedInv, Startup, Goto, At, Special
  <1>2. ListsOK'
    <2>1. u # Idle /\ u \notin waiting /\ u \notin timer
      BY ManagedFacts DEF SchedInv, WaitersSuspended, Startup
    <2>2. stat' \in [Thread -> Stats] /\ prio' \in [Thread -> Prio]
          /\ stat'[u] = "SUSPEND" /\ stat[u] = "INIT"
          /\ \A x \in Thread \ {u} : stat'[x] = stat[x] /\ prio'[x] = prio[x]
      BY PrioAssumption DEF SchedInv, TypeOK, Stats, Startup
    <2>3. QueuesExact' /\ BitmapExact'
      BY <1>1, <2>2 DEF SchedInv, QueuesExact, BitmapExact, Startup, Frame
    <2>4. WaitersSuspended' /\ TimersOfTimed' /\ TimerOnlySuspended' /\ IdleReady'
      BY <2>1, <2>2, ThreadAssumption DEF SchedInv, TypeOK, WaitersSuspended,
         TimersOfTimed, TimerOnlySuspended, IdleReady, Startup
    <2>5. DefunctExact'
      BY <1>1, <2>2 DEF SchedInv, DefunctExact, Startup, Frame
    <2> QED BY <2>2, <2>3, <2>4, <2>5 DEF SchedInv, TypeOK, ListsOK, Startup
  <1>3. TypeOK'
    BY <1>2, BoundAssumption DEF SchedInv, TypeOK, ListsOK, Labels, Startup,
       At, lists, counts, GotoOn
  <1>4. TargetHeld'
    <2>1. /\ u # cur /\ u \notin timer /\ u \notin waiting
          /\ t = cur /\ <<t, u>> \in Manages /\ stat[u] = "INIT"
      BY ManagedFacts DEF SchedInv, WaitersSuspended, Startup, At
    <2>2. /\ pc'[t] = "start1" /\ obj'[t] = u
          /\ \A s \in Thread \ {t} : pc'[s] = pc[s] /\ obj'[s] = obj[s]
      BY DEF SchedInv, TypeOK, Startup, GotoOn
    <2>3. UNCHANGED <<cur, waiting, timer>> /\ stat' = [stat EXCEPT ![u] = "SUSPEND"]
      BY DEF Startup, lists
    <2> QED BY <2>1, <2>2, <2>3, ZenonT(60) DEF SchedInv, TypeOK, TargetHeld, HeldTarget
  <1>5. PreemptCountOwned'
    BY BoundAssumption DEF SchedInv, TypeOK, PreemptCountOwned, Startup, At,
       lists, counts, GotoOn
  <1>6. CurrentRunnable'
    BY <1>1 DEF SchedInv, TypeOK, CurrentRunnable, Frame, Startup, At,
       lists, counts, GotoOn
  <1>7. OnlyIdleFrees'
    BY DEF SchedInv, TypeOK, OnlyIdleFrees, Startup, At, lists, counts,
       GotoOn
  <1> QED BY <1>2, <1>3, <1>4, <1>5, <1>6, <1>7 DEF SchedInv, ListsOK

(* A kernel object is released and its waiter u resumed.                   *)
LEMMA WakeStep ==
  ASSUME SchedInv, Discipline, NEW t \in Thread, NEW u \in Thread, Wake(t, u)
  PROVE  SchedInv'
  <1>1. Frame
    BY GotoFrame DEF SchedInv, Wake, Goto, At, Special
  <1>2. ListsOK'
    <2>1. u \notin Dying
      BY DEF SchedInv, TargetHeld, HeldTarget, Dying, Wake
    <2> QED BY <1>1, <2>1, ListsReady DEF Wake
  <1>3. TypeOK'
    BY <1>2, BoundAssumption DEF SchedInv, TypeOK, ListsOK, Labels, Wake,
       At, counts, Goto, GotoOn, MakeReady, InsertThread
  <1>4. TargetHeld'
    BY DEF SchedInv, TypeOK, TargetHeld, HeldTarget, Wake, At, counts, Goto,
       GotoOn, MakeReady, InsertThread
  <1>5. PreemptCountOwned'
    BY BoundAssumption DEF SchedInv, TypeOK, PreemptCountOwned, Wake, At,
       counts, Goto, GotoOn, MakeReady, InsertThread
  <1>6. CurrentRunnable'
    BY <1>1, CurNotDying DEF SchedInv, TypeOK, CurrentRunnable, Frame, Wake,
       At, counts, Goto, GotoOn, MakeReady, InsertThread
  <1>7. OnlyIdleFrees'
    BY DEF SchedInv, TypeOK, OnlyIdleFrees, Wake, At, counts, Goto, GotoOn,
       MakeReady, InsertThread
  <1> QED BY <1>2, <1>3, <1>4, <1>5, <1>6, <1>7 DEF SchedInv, ListsOK

(* A thread suspends itself.                                               *)
LEMMA SuspendSelfStep ==
  ASSUME SchedInv, Discipline, NEW t \in Thread, SuspendSelf(t)
  PROVE  SchedInv'
  <1>1. Frame
    BY GotoFrame DEF SchedInv, SuspendSelf, Goto, At, Special
  <1>2. ListsOK'
    BY <1>1, ListsSuspend DEF SuspendSelf, SuspendThread, RemoveThread, Discipline
  <1>3. TypeOK'
    BY <1>2, BoundAssumption DEF SchedInv, TypeOK, ListsOK, Labels,
       SuspendSelf, At, counts, Goto, GotoOn, SuspendThread, RemoveThread
  <1>4. TargetHeld'
    BY DEF SchedInv, TypeOK, TargetHeld, HeldTarget, SuspendSelf, At,
       counts, Goto, GotoOn, SuspendThread, RemoveThread
  <1>5. PreemptCountOwned'
    BY BoundAssumption DEF SchedInv, TypeOK, PreemptCountOwned, SuspendSelf,
       At, counts, Goto, GotoOn, SuspendThread, RemoveThread
  <1>6. CurrentRunnable'
    BY <1>1 DEF SchedInv, TypeOK, CurrentRunnable, Frame, SuspendSelf, At,
       counts, Goto, GotoOn, SuspendThread, RemoveThread
  <1>7. OnlyIdleFrees'
    BY DEF SchedInv, TypeOK, OnlyIdleFrees, SuspendSelf, At, counts, Goto,
       GotoOn, SuspendThread, RemoveThread
  <1> QED BY <1>2, <1>3, <1>4, <1>5, <1>6, <1>7 DEF SchedInv, ListsOK

(* A wait on a kernel object.                                              *)
LEMMA BlockStep ==
  ASSUME SchedInv, Discipline, NEW t \in Thread, Block(t)
  PROVE  SchedInv'
  <1>1. Frame
    BY GotoFrame DEF SchedInv, Block, Goto, At, Special
  <1>2. ListsOK'
    BY <1>1, ListsSuspend DEF Block
  <1>3. TypeOK'
    BY <1>2, BoundAssumption DEF SchedInv, TypeOK, ListsOK, Labels, Block,
       At, counts, Goto, GotoOn
  <1>4. TargetHeld'
    BY DEF SchedInv, TypeOK, TargetHeld, HeldTarget, Block, At, counts,
       Goto, GotoOn
  <1>5. PreemptCountOwned'
    BY BoundAssumption DEF SchedInv, TypeOK, PreemptCountOwned, Block, At,
       counts, Goto, GotoOn
  <1>6. CurrentRunnable'
    BY <1>1 DEF SchedInv, TypeOK, CurrentRunnable, Frame, Block, At, counts,
       Goto, GotoOn
  <1>7. OnlyIdleFrees'
    BY DEF SchedInv, TypeOK, OnlyIdleFrees, Block, At, counts, Goto, GotoOn
  <1> QED BY <1>2, <1>3, <1>4, <1>5, <1>6, <1>7 DEF SchedInv, ListsOK

(* rt_thread_yield                                                         *)
LEMMA YieldStep ==
  ASSUME SchedInv, Discipline, NEW t \in Thread, Yield(t)
  PROVE  SchedInv'
  <1>1. Frame
    BY GotoFrame DEF SchedInv, Yield, Goto, At, Special
  <1>2. ListsOK'
    BY <1>1, ListsYield DEF Yield
  <1>3. TypeOK'
    BY <1>2, BoundAssumption DEF SchedInv, TypeOK, ListsOK, Labels, Yield,
       At, counts, Goto, GotoOn
  <1>4. TargetHeld'
    BY DEF SchedInv, TypeOK, TargetHeld, HeldTarget, Yield, At, counts,
       Goto, GotoOn
  <1>5. PreemptCountOwned'
    BY BoundAssumption DEF SchedInv, TypeOK, PreemptCountOwned, Yield, At,
       counts, Goto, GotoOn
  <1>6. CurrentRunnable'
    BY <1>1 DEF SchedInv, TypeOK, CurrentRunnable, Frame, Yield, At, counts,
       Goto, GotoOn
  <1>7. OnlyIdleFrees'
    BY DEF SchedInv, TypeOK, OnlyIdleFrees, Yield, At, counts, Goto, GotoOn
  <1> QED BY <1>2, <1>3, <1>4, <1>5, <1>6, <1>7 DEF SchedInv, ListsOK

(* rt_schedule at the end of a call                                        *)
LEMMA ScheduleStep ==
  ASSUME SchedInv, Discipline, NEW t \in Thread, Schedule(t)
  PROVE  SchedInv'
  <1>1. Frame
    BY GotoFrame DEF SchedInv, Schedule, Goto, At, Special
  <1>2. ListsOK'
    BY <1>1, ListsSame DEF Schedule
  <1>8. /\ cur' \in Thread /\ resched' \in [Thread -> BOOLEAN]
        /\ \A y \in Thread : y # cur => resched'[y] = resched[y]
        /\ \/ /\ cur' = cur /\ resched'[cur]
              /\ level[cur] > 0 \/ hardirq[cur] > 0
           \/ /\ ~resched'[cur] /\ ~(level[cur] > 0)
              /\ cur' = cur \/ ~(hardirq[cur] > 0)
              /\ stat'[cur'] = "READY" /\ cur' \notin Dying
    <2>1. RtSchedule(ready', group', level, hardirq)
      BY DEF Schedule, lists, RtSchedule
    <2> QED BY <1>1, <1>2, <2>1, RescheduleFacts DEF Frame
  <1>3. TypeOK'
    BY <1>2, BoundAssumption, <1>8 DEF SchedInv, TypeOK, ListsOK, Labels,
       Schedule, At, lists, Goto, GotoOn
  <1>4. TargetHeld'
    <2>1. ASSUME NEW s \in Thread, pc[s] \in Holding, pc[s] # "suspend"
          PROVE  obj[s] # cur' /\ stat'[obj[s]] = stat[obj[s]]
      <3>1. /\ obj[s] \in Thread /\ obj[s] # cur
            /\ obj[s] \notin waiting /\ obj[s] \notin timer
            /\ stat[obj[s]] \in {"SUSPEND", "CLOSE"} \/ obj[s] \in Dying
        BY <2>1, TargetFacts, ManagedFacts DEF Holding
      <3>2. stat'[obj[s]] = stat[obj[s]]
        BY <3>1 DEF SchedInv, TypeOK, Schedule, lists, Goto, GotoOn
      <3> QED BY <1>8, <3>1, <3>2
    <2> QED BY <2>1 DEF SchedInv, TypeOK, TargetHeld, HeldTarget, Holding, Schedule, lists, Goto, GotoOn
  <1>5. PreemptCountOwned'
    <2>1. /\ cur \in Thread /\ level[cur] \in Nat /\ hardirq'[cur] \in Nat
          /\ hardirq[cur] = 0 /\ UNCHANGED <<level, hardirq>>
      BY BoundAssumption DEF SchedInv, TypeOK, Schedule, At
    <2> QED BY <1>8, <2>1 DEF SchedInv, PreemptCountOwned
  <1>6. CurrentRunnable'
    BY <1>1, <1>8 DEF SchedInv, TypeOK, CurrentRunnable, Frame, Schedule,
       At, lists, Goto, GotoOn
  <1>7. OnlyIdleFrees'
    BY DEF SchedInv, TypeOK, OnlyIdleFrees, Schedule, At, lists, Goto,
       GotoOn
  <1> QED BY <1>2, <1>3, <1>4, <1>5, <1>6, <1>7 DEF SchedInv, ListsOK

(* An interrupt handler releases a kernel object.                          *)
LEMMA IrqWakeStep ==
  ASSUME SchedInv, Discipline, NEW u \in Thread, IrqWake(u)
  PROVE  SchedInv'
  <1>1. Frame
    BY StillFrame DEF IrqWake
  <1>2. ListsOK'
    <2>1. u \notin Dying
      BY DEF SchedInv, TargetHeld, HeldTarget, Dying, IrqWake
    <2> QED BY <1>1, <2>1, ListsReady DEF IrqWake
  <1>8. /\ cur' \in Thread /\ resched' \in [Thread -> BOOLEAN]
        /\ \A y \in Thread : y # cur => resched'[y] = resched[y]
        /\ \/ /\ cur' = cur /\ resched'[cur]
              /\ level[cur] > 0 \/ hardirq[cur] > 0
           \/ /\ ~resched'[cur] /\ ~(level[cur] > 0)
              /\ cur' = cur \/ ~(hardirq[cur] > 0)
              /\ stat'[cur'] = "READY" /\ cur' \notin Dying
    <2>1. RtSchedule(ready', group', level, hardirq)
      BY DEF IrqWake
    <2> QED BY <1>1, <1>2, <2>1, RescheduleFacts DEF Frame
  <1>3. TypeOK'
    BY <1>2, BoundAssumption, <1>8 DEF SchedInv, TypeOK, ListsOK, Labels,
       IrqWake, InIrq, MakeReady, InsertThread
  <1>4. TargetHeld'
    <2>1. ASSUME NEW s \in Thread, pc[s] \in Holding, pc[s] # "suspend"
          PROVE  obj[s] # cur' /\ stat'[obj[s]] = stat[obj[s]]
      <3>1. /\ obj[s] \in Thread /\ obj[s] # cur
            /\ obj[s] \notin waiting /\ obj[s] \notin timer
            /\ stat[obj[s]] \in {"SUSPEND", "CLOSE"} \/ obj[s] \in Dying
        BY <2>1, TargetFacts, ManagedFacts DEF Holding
      <3>2. stat'[obj[s]] = stat[obj[s]]
        BY <3>1 DEF SchedInv, TypeOK, IrqWake, MakeReady, InsertThread
      <3> QED BY <1>8, <3>1, <3>2
    <2> QED BY <2>1 DEF SchedInv, TypeOK, TargetHeld, HeldTarget, Holding, IrqWake, MakeReady, InsertThread
  <1>5. PreemptCountOwned'
    BY <1>8, BoundAssumption DEF SchedInv, TypeOK, PreemptCountOwned,
       IrqWake, InIrq, MakeReady, InsertThread
  <1>6. CurrentRunnable'
    <2>1. stat'[cur] \in {stat[cur], "READY"} /\ UNCHANGED <<level, pc>>
      BY DEF SchedInv, TypeOK, IrqWake, MakeReady, InsertThread
    <2> QED BY <1>1, <1>8, <2>1, CurNotDying DEF SchedInv, CurrentRunnable, Frame
  <1>7. OnlyIdleFrees'
    BY DEF SchedInv, TypeOK, OnlyIdleFrees, IrqWake, InIrq, MakeReady,
       InsertThread
  <1> QED BY <1>2, <1>3, <1>4, <1>5, <1>6, <1>7 DEF SchedInv, ListsOK

(* rt_thread_timeout                                                       *)
LEMMA IrqTimeoutStep ==
  ASSUME SchedInv, Discipline, NEW u \in Thread, IrqTimeout(u)
  PROVE  SchedInv'
  <1>1. Frame
    BY StillFrame DEF IrqTimeout
  <1>2. ListsOK'
    <2>1. u \notin Dying /\ stat[u] = "SUSPEND"
      BY DEF SchedInv, TargetHeld, HeldTarget, TimerOnlySuspended, Dying, IrqTimeout
    <2> QED BY <1>1, <2>1, ListsReady DEF IrqTimeout
  <1>8. /\ cur' \in Thread /\ resched' \in [Thread -> BOOLEAN]
        /\ \A y \in Thread : y # cur => resched'[y] = resched[y]
        /\ \/ /\ cur' = cur /\ resched'[cur]
              /\ level[cur] > 0 \/ hardirq[cur] > 0
           \/ /\ ~resched'[cur] /\ ~(level[cur] > 0)
              /\ cur' = cur \/ ~(hardirq[cur] > 0)
              /\ stat'[cur'] = "READY" /\ cur' \notin Dying
    <2>1. RtSchedule(ready', group', level, hardirq)
      BY DEF IrqTimeout
    <2> QED BY <1>1, <1>2, <2>1, RescheduleFacts DEF Frame
  <1>3. TypeOK'
    BY <1>2, BoundAssumption, <1>8 DEF SchedInv, TypeOK, ListsOK, Labels,
       IrqTimeout, InIrq, MakeReady, InsertThread
  <1>4. TargetHeld'
    <2>1. ASSUME NEW s \in Thread, pc[s] \in Holding, pc[s] # "suspend"
          PROVE  obj[s] # cur' /\ stat'[obj[s]] = stat[obj[s]]
      <3>1. /\ obj[s] \in Thread /\ obj[s] # cur
            /\ obj[s] \notin waiting /\ obj[s] \notin timer
            /\ stat[obj[s]] \in {"SUSPEND", "CLOSE"} \/ obj[s] \in Dying
        BY <2>1, TargetFacts, ManagedFacts DEF Holding
      <3>2. stat'[obj[s]] = stat[obj[s]]
        BY <3>1 DEF SchedInv, TypeOK, IrqTimeout, MakeReady, InsertThread
      <3> QED BY <1>8, <3>1, <3>2
    <2> QED BY <2>1 DEF SchedInv, TypeOK, TargetHeld, HeldTarget, Holding, IrqTimeout, MakeReady, InsertThread
  <1>5. PreemptCountOwned'
    BY <1>8, BoundAssumption DEF SchedInv, TypeOK, PreemptCountOwned,
       IrqTimeout, InIrq, MakeReady, InsertThread
  <1>6. CurrentRunnable'
    <2>1. stat'[cur] \in {stat[cur], "READY"} /\ UNCHANGED <<level, pc>>
      BY DEF SchedInv, TypeOK, IrqTimeout, MakeReady, InsertThread
    <2> QED BY <1>1, <1>8, <2>1, CurNotDying DEF SchedInv, CurrentRunnable, Frame
  <1>7. OnlyIdleFrees'
    BY DEF SchedInv, TypeOK, OnlyIdleFrees, IrqTimeout, InIrq, MakeReady,
       InsertThread
  <1> QED BY <1>2, <1>3, <1>4, <1>5, <1>6, <1>7 DEF SchedInv, ListsOK

(* rt_tick_increase                                                        *)
LEMMA IrqTickStep ==
  ASSUME SchedInv, Discipline, IrqTick
  PROVE  SchedInv'
  <1>1. Frame
    BY StillFrame DEF IrqTick
  <1>2. ListsOK'
    <2>1. CASE remaining[cur] = 1
      BY <1>1, <2>1, ListsYield DEF IrqTick
    <2>2. CASE remaining[cur] # 1
      BY <1>1, <2>2, ListsSame DEF IrqTick, lists
    <2> QED BY <2>1, <2>2
  <1>8. /\ cur' \in Thread /\ resched' \in [Thread -> BOOLEAN]
        /\ \A y \in Thread : y # cur => resched'[y] = resched[y]
        /\ \/ /\ cur' = cur /\ resched'[cur]
              /\ level[cur] > 0 \/ hardirq[cur] > 0
           \/ /\ ~resched'[cur] /\ ~(level[cur] > 0)
              /\ cur' = cur \/ ~(hardirq[cur] > 0)
              /\ stat'[cur'] = "READY" /\ cur' \notin Dying
           \/ UNCHANGED <<cur, resched>> /\ TRUE
    <2>1. CASE remaining[cur] = 1
      <3>1. RtSchedule(ready', group', level, hardirq)
        BY <2>1 DEF IrqTick
      <3> QED BY <1>1, <1>2, <3>1, RescheduleFacts DEF Frame
    <2>2. CASE ~(remaining[cur] = 1)
      BY <2>2 DEF SchedInv, TypeOK, IrqTick
    <2> QED BY <2>1, <2>2
  <1>3. TypeOK'
    <2>1. remaining' \in [Thread -> 1 .. Slice]
      <3>1. remaining \in [Thread -> 1 .. Slice] /\ cur \in Thread
        BY DEF SchedInv, TypeOK
      <3>2. Slice \in 1 .. Slice /\ (remaining[cur] # 1 => remaining[cur] - 1 \in 1 .. Slice)
        BY <3>1, BoundAssumption
      <3> QED BY <3>1, <3>2 DEF IrqTick
    <2> QED BY <1>2, <1>8, <2>1 DEF SchedInv, TypeOK, ListsOK, IrqTick
  <1>4. TargetHeld'
    <2>1. ASSUME NEW s \in Thread, pc[s] \in Holding, pc[s] # "suspend"
          PROVE  obj[s] # cur' /\ stat'[obj[s]] = stat[obj[s]]
      <3>1. /\ obj[s] \in Thread /\ obj[s] # cur
            /\ obj[s] \notin waiting /\ obj[s] \notin timer
            /\ stat[obj[s]] \in {"SUSPEND", "CLOSE"} \/ obj[s] \in Dying
        BY <2>1, TargetFacts, ManagedFacts DEF Holding
      <3>2. stat'[obj[s]] = stat[obj[s]]
        BY <3>1 DEF SchedInv, TypeOK, IrqTick
      <3> QED BY <1>8, <3>1, <3>2
    <2> QED BY <2>1 DEF SchedInv, TypeOK, TargetHeld, HeldTarget, Holding, IrqTick
  <1>5. PreemptCountOwned'
    <2>1. /\ cur \in Thread /\ level[cur] \in Nat /\ hardirq'[cur] \in Nat
          /\ UNCHANGED <<level, hardirq, pc>>
      BY BoundAssumption DEF SchedInv, TypeOK, IrqTick
    <2> QED BY <1>8, <2>1 DEF SchedInv, PreemptCountOwned
  <1>6. CurrentRunnable'
    <2>1. stat'[cur] \in {stat[cur], "READY"} /\ UNCHANGED <<level, pc>>
      BY DEF SchedInv, TypeOK, IrqTick
    <2> QED BY <1>1, <1>8, <2>1, CurNotDying DEF SchedInv, CurrentRunnable, Frame
  <1>7. OnlyIdleFrees'
    BY DEF SchedInv, TypeOK, OnlyIdleFrees, IrqTick, InIrq
  <1> QED BY <1>2, <1>3, <1>4, <1>5, <1>6, <1>7 DEF SchedInv, ListsOK

(* rt_interrupt_leave                                                      *)
LEMMA IrqLeaveStep ==
  ASSUME SchedInv, Discipline, IrqLeave
  PROVE  SchedInv'
  <1>1. Frame
    BY StillFrame DEF IrqLeave
  <1>2. ListsOK'
    BY <1>1, ListsSame DEF IrqLeave
  <1>8. /\ cur' \in Thread /\ resched' \in [Thread -> BOOLEAN]
        /\ \A y \in Thread : y # cur => resched'[y] = resched[y]
        /\ \/ /\ cur' = cur /\ resched'[cur]
              /\ level[cur] > 0 \/ hardirq'[cur] > 0
           \/ /\ ~resched'[cur] /\ ~(level[cur] > 0)
              /\ cur' = cur \/ ~(hardirq'[cur] > 0)
              /\ stat'[cur'] = "READY" /\ cur' \notin Dying
           \/ UNCHANGED <<cur, resched>> /\ (level[cur] # 0 \/ hardirq[cur] # 1)
    <2>1. CASE level[cur] = 0 /\ hardirq[cur] = 1
      <3>1. RtSchedule(ready', group', level, hardirq')
        BY <2>1 DEF IrqLeave, lists, RtSchedule
      <3> QED BY <1>1, <1>2, <3>1, RescheduleFacts DEF Frame
    <2>2. CASE ~(level[cur] = 0 /\ hardirq[cur] = 1)
      BY <2>2 DEF SchedInv, TypeOK, IrqLeave
    <2> QED BY <2>1, <2>2
  <1>3. TypeOK'
    <2>1. hardirq' \in [Thread -> 0 .. MaxIrq]
      BY BoundAssumption DEF SchedInv, TypeOK, IrqLeave, InIrq
    <2> QED BY <1>2, <1>8, <2>1 DEF SchedInv, TypeOK, ListsOK, IrqLeave, lists
  <1>4. TargetHeld'
    <2>1. ASSUME NEW s \in Thread, pc[s] \in Holding, pc[s] # "suspend"
          PROVE  obj[s] # cur' /\ stat'[obj[s]] = stat[obj[s]]
      <3>1. /\ obj[s] \in Thread /\ obj[s] # cur
            /\ obj[s] \notin waiting /\ obj[s] \notin timer
            /\ stat[obj[s]] \in {"SUSPEND", "CLOSE"} \/ obj[s] \in Dying
        BY <2>1, TargetFacts, ManagedFacts DEF Holding
      <3>2. stat'[obj[s]] = stat[obj[s]]
        BY <3>1 DEF SchedInv, TypeOK, IrqLeave, lists
      <3> QED BY <1>8, <3>1, <3>2
    <2> QED BY <2>1 DEF SchedInv, TypeOK, TargetHeld, HeldTarget, Holding, IrqLeave, lists
  <1>5. PreemptCountOwned'
    <2>1. /\ cur \in Thread /\ level[cur] \in Nat /\ hardirq[cur] \in Nat \ {0}
          /\ hardirq'[cur] = hardirq[cur] - 1
          /\ \A x \in Thread \ {cur} : hardirq'[x] = hardirq[x]
          /\ UNCHANGED <<level, pc>>
      BY BoundAssumption DEF SchedInv, TypeOK, IrqLeave, InIrq
    <2> QED BY <1>8, <2>1 DEF SchedInv, PreemptCountOwned
  <1>6. CurrentRunnable'
    <2>1. stat'[cur] \in {stat[cur], "READY"} /\ UNCHANGED <<level, pc>>
      BY DEF SchedInv, TypeOK, IrqLeave, lists
    <2> QED BY <1>1, <1>8, <2>1, CurNotDying DEF SchedInv, CurrentRunnable, Frame
  <1>7. OnlyIdleFrees'
    BY DEF SchedInv, TypeOK, OnlyIdleFrees, IrqLeave, InIrq, lists
  <1> QED BY <1>2, <1>3, <1>4, <1>5, <1>6, <1>7 DEF SchedInv, ListsOK

(* rt_thread_sleep                                                         *)
LEMMA SleepStep ==
  ASSUME SchedInv, Discipline, NEW t \in Thread, Sleep(t)
  PROVE  SchedInv'
  <1>1. Frame
    BY GotoFrame DEF SchedInv, Sleep, Goto, At, Special
  <1>2. ListsOK'
    <2>1. CASE stat[t] = "READY"
      BY <1>1, <2>1, ListsSuspend DEF Sleep, SuspendThread, RemoveThread
    <2>2. CASE stat[t] # "READY"
      <3>1. stat[t] = "SUSPEND"
        BY <2>2 DEF SchedInv, CurrentRunnable, Sleep, At
      <3>2. stat' = [stat EXCEPT ![t] = "SUSPEND"]
        BY <2>2, <3>1 DEF SchedInv, TypeOK, Sleep
      <3> QED BY <1>1, <2>2, <3>1, <3>2, UnlinkedSame, ListsSuspend DEF Sleep
    <2> QED BY <2>1, <2>2
  <1>8. /\ stat' = [stat EXCEPT ![t] = "SUSPEND"] /\ stat[t] \in {"READY", "SUSPEND"}
        /\ waiting' \subseteq waiting /\ timer' = timer \cup {t} /\ cur = t
    <2>1. cur = t /\ stat[t] \in {"READY", "SUSPEND"}
      BY DEF SchedInv, CurrentRunnable, Sleep, At
    <2>2. stat' = [stat EXCEPT ![t] = "SUSPEND"]
      BY <2>1 DEF SchedInv, TypeOK, Sleep, SuspendThread
    <2> QED BY <2>1, <2>2 DEF Sleep, SuspendThread, RemoveThread
  <1>3. TypeOK'
    BY <1>2, BoundAssumption DEF SchedInv, TypeOK, ListsOK, Labels, Sleep,
       At, counts, Goto, GotoOn, SuspendThread
  <1>4. TargetHeld'
    BY <1>8 DEF SchedInv, TypeOK, TargetHeld, HeldTarget, Sleep, At, Goto, GotoOn
  <1>5. PreemptCountOwned'
    BY BoundAssumption DEF SchedInv, TypeOK, PreemptCountOwned, Sleep, At,
       counts, Goto, GotoOn, SuspendThread
  <1>6. CurrentRunnable'
    BY <1>8 DEF SchedInv, TypeOK, CurrentRunnable, Sleep, Goto, GotoOn
  <1>7. OnlyIdleFrees'
    BY DEF SchedInv, TypeOK, OnlyIdleFrees, Sleep, At, counts, Goto, GotoOn,
       SuspendThread
  <1> QED BY <1>2, <1>3, <1>4, <1>5, <1>6, <1>7 DEF SchedInv, ListsOK

(* The first section of rt_thread_resume: its target is in no list.        *)
LEMMA ResumeUnlinkStep ==
  ASSUME SchedInv, Discipline, NEW t \in Thread, ResumeUnlink(t)
  PROVE  SchedInv'
  <1>8. UNCHANGED <<lists, prio>>
    <2>1. pc[t] \in Holding \ {"suspend", "delete1", "delete2", "detach"}
      BY DEF ResumeUnlink, At, Holding
    <2>2. /\ obj[t] \in Thread /\ stat[obj[t]] = "SUSPEND"
          /\ obj[t] \notin waiting /\ obj[t] \notin timer
      BY <2>1, TargetFacts, ManagedFacts DEF Holding
    <2> QED BY <2>2, UnlinkedSame, DefunctFacts DEF ResumeUnlink, lists
  <1>1. Frame
    BY GotoFrame DEF SchedInv, ResumeUnlink, At, Special
  <1>2. ListsOK'
    BY <1>1, <1>8, ListsSame
  <1>3. TypeOK'
    <2>1. pc' \in [Thread -> Labels] /\ obj' \in [Thread -> Thread]
      <3>1. PICK l \in Labels : GotoOn(t, l, obj[t])
        BY DEF ResumeUnlink, Labels
      <3> QED BY <3>1 DEF SchedInv, TypeOK, GotoOn
    <2>2. UNCHANGED <<cur, remaining, counts>>
      BY DEF ResumeUnlink
    <2> QED BY <1>2, <2>1, <2>2 DEF SchedInv, TypeOK, ListsOK, counts
  <1>4. TargetHeld'
    <2>1. PICK l \in {"start2", "resume2"} : GotoOn(t, l, obj[t])
      BY DEF ResumeUnlink
    <2>2. pc[t] \in {"start1", "resume1"} /\ UNCHANGED cur
      BY DEF ResumeUnlink, At
    <2>3. /\ obj'[t] = obj[t] /\ pc'[t] \in {"start2", "resume2"}
          /\ \A s \in Thread \ {t} : pc'[s] = pc[s] /\ obj'[s] = obj[s]
      BY <2>1 DEF SchedInv, TypeOK, GotoOn
    <2> QED BY <1>8, <2>2, <2>3, ZenonT(60) DEF SchedInv, TypeOK, TargetHeld, HeldTarget, lists
  <1>5. PreemptCountOwned'
    BY BoundAssumption DEF SchedInv, TypeOK, PreemptCountOwned,
       ResumeUnlink, At, counts, GotoOn
  <1>6. CurrentRunnable'
    <2>1. UNCHANGED <<cur, level>> /\ cur = t /\ pc[cur] # "schedule"
      BY DEF ResumeUnlink, counts, At
    <2> QED BY <1>1, <1>8, <2>1 DEF SchedInv, CurrentRunnable, Frame, lists
  <1>7. OnlyIdleFrees'
    BY DEF SchedInv, TypeOK, OnlyIdleFrees, ResumeUnlink, At, counts, GotoOn
  <1> QED BY <1>2, <1>3, <1>4, <1>5, <1>6, <1>7 DEF SchedInv, ListsOK

(* The second section of rt_thread_resume.                                 *)
LEMMA ResumeInsertStep ==
  ASSUME SchedInv, Discipline, NEW t \in Thread, ResumeInsert(t)
  PROVE  SchedInv'
  <1>8. /\ pc[t] \in Holding
        /\ obj[t] \in Thread /\ stat[obj[t]] = "SUSPEND" /\ obj[t] \notin Dying
        /\ obj[t] \notin waiting /\ obj[t] \notin timer /\ obj[t] # cur
    <2>1. pc[t] \in Holding \ {"suspend", "delete1", "delete2", "detach"}
      BY DEF ResumeInsert, At, Holding
    <2> QED BY <2>1, TargetFacts, ManagedFacts DEF Holding
  <1>9. PICK l \in {"run", "schedule"} : GotoOn(t, l, t)
    BY DEF ResumeInsert, Goto
  <1>1. Frame
    BY GotoFrame DEF SchedInv, ResumeInsert, Goto, At, Special
  <1>2. ListsOK'
    <2>1. MakeReady(obj[t])
      BY <1>8, UnlinkedSame, DefunctFacts DEF ResumeInsert, MakeReady, InsertThread
    <2> QED BY <1>1, <1>8, <2>1, ListsReady DEF ResumeInsert
  <1>3. TypeOK'
    <2>1. pc' \in [Thread -> Labels] /\ obj' \in [Thread -> Thread]
      BY <1>9 DEF SchedInv, TypeOK, GotoOn, Labels
    <2> QED BY <1>2, <2>1 DEF SchedInv, TypeOK, ListsOK, ResumeInsert, counts
  <1>4. TargetHeld'
    <2>1. /\ pc'[t] \in {"run", "schedule"} /\ UNCHANGED <<cur, waiting, timer>>
          /\ \A s \in Thread \ {t} : pc'[s] = pc[s] /\ obj'[s] = obj[s]
          /\ \A x \in Thread \ {obj[t]} : stat'[x] = stat[x]
      <3>1. \A x \in Thread \ {obj[t]} : stat'[x] = stat[x]
        BY DEF SchedInv, TypeOK, ResumeInsert, InsertThread
      <3> QED BY <1>9, <3>1 DEF SchedInv, TypeOK, ResumeInsert, GotoOn
    <2>2. \A s \in Thread \ {t} : pc[s] \in Holding => obj[s] # obj[t]
      BY <1>8, TargetFacts
    <2>3. ASSUME NEW s \in Thread PROVE HeldTarget(s)'
      <3>1. CASE s = t
        BY <2>1, <3>1 DEF HeldTarget
      <3>2. CASE s # t
        <4>1. HeldTarget(s) /\ obj[s] \in Thread
          BY DEF SchedInv, TypeOK, TargetHeld
        <4> QED BY <2>1, <2>2, <3>2, <4>1, HeldSame
      <3> QED BY <3>1, <3>2
    <2> QED BY <2>3 DEF TargetHeld
  <1>5. PreemptCountOwned'
    BY BoundAssumption DEF SchedInv, TypeOK, PreemptCountOwned,
       ResumeInsert, At, counts, Goto, GotoOn
  <1>6. CurrentRunnable'
    <2>1. UNCHANGED <<cur, level>> /\ cur = t /\ pc[cur] # "schedule" /\ stat'[cur] = stat[cur]
      BY <1>8 DEF SchedInv, TypeOK, ResumeInsert, InsertThread, counts, At
    <2> QED BY <1>1, <2>1 DEF SchedInv, CurrentRunnable, Frame
  <1>7. OnlyIdleFrees'
    BY DEF SchedInv, TypeOK, OnlyIdleFrees, ResumeInsert, At, counts, Goto,
       GotoOn
  <1> QED BY <1>2, <1>3, <1>4, <1>5, <1>6, <1>7 DEF SchedInv, ListsOK

(* The section of rt_thread_suspend.                                       *)
LEMMA SuspendDoStep ==
  ASSUME SchedInv, Discipline, NEW t \in Thread, SuspendDo(t)
  PROVE  SchedInv'
  <1>8. /\ pc[t] = "suspend" /\ pc[t] \in Holding /\ cur = t
        /\ obj[t] \in Thread /\ obj[t] # t /\ obj[t] # Idle
        /\ stat[obj[t]] \in {"READY", "SUSPEND"}
    <2>1. pc[t] = "suspend" /\ pc[t] \in Holding /\ cur = t
      BY DEF SuspendDo, At, Holding
    <2> QED BY <2>1, TargetFacts, ManagedFacts
  <1>1. Frame
    BY GotoFrame DEF SchedInv, SuspendDo, Goto, At, Special
  <1>2. ListsOK'
    BY <1>1, <1>8, ListsSuspend DEF SuspendDo, SuspendThread, RemoveThread
  <1>3. TypeOK'
    BY <1>2, BoundAssumption DEF SchedInv, TypeOK, ListsOK, Labels,
       SuspendDo, At, counts, Goto, GotoOn, SuspendThread
  <1>4. TargetHeld'
    <2>1. /\ pc'[t] = "run" /\ UNCHANGED cur
          /\ waiting' \subseteq waiting /\ timer' \subseteq timer
          /\ \A s \in Thread \ {t} : pc'[s] = pc[s] /\ obj'[s] = obj[s]
          /\ \A x \in Thread \ {obj[t]} : stat'[x] = stat[x]
      BY DEF SchedInv, TypeOK, SuspendDo, SuspendThread, RemoveThread, At, Goto, GotoOn
    <2>2. \A s \in Thread \ {t} : pc[s] \in Holding => obj[s] # obj[t]
      BY <1>8, TargetFacts
    <2>3. ASSUME NEW s \in Thread PROVE HeldTarget(s)'
      <3>1. CASE s = t
        BY <2>1, <3>1 DEF HeldTarget
      <3>2. CASE s # t
        <4>1. HeldTarget(s) /\ obj[s] \in Thread
          BY DEF SchedInv, TypeOK, TargetHeld
        <4> QED BY <2>1, <2>2, <3>2, <4>1, HeldSame
      <3> QED BY <3>1, <3>2
    <2> QED BY <2>3 DEF TargetHeld
  <1>5. PreemptCountOwned'
    BY BoundAssumption DEF SchedInv, TypeOK, PreemptCountOwned, SuspendDo,
       At, counts, Goto, GotoOn, SuspendThread
  <1>6. CurrentRunnable'
    <2>1. UNCHANGED <<cur, level>> /\ pc[cur] # "schedule" /\ stat'[cur] = stat[cur]
      BY <1>8 DEF SchedInv, TypeOK, SuspendDo, SuspendThread, counts, At
    <2> QED BY <1>1, <2>1 DEF SchedInv, CurrentRunnable, Frame
  <1>7. OnlyIdleFrees'
    BY DEF SchedInv, TypeOK, OnlyIdleFrees, SuspendDo, At, counts, Goto,
       GotoOn, SuspendThread
  <1> QED BY <1>2, <1>3, <1>4, <1>5, <1>6, <1>7 DEF SchedInv, ListsOK

(* rt_thread_delete detaches the timer of its target.                      *)
LEMMA DeleteTimerStep ==
  ASSUME SchedInv, Discipline, NEW t \in Thread, DeleteTimer(t)
  PROVE  SchedInv'
  <1>8. UNCHANGED <<lists, prio>>
    <2>1. pc[t] \in Holding
      BY DEF DeleteTimer, At, Holding
    <2>2. obj[t] \notin timer
      BY <2>1, TargetFacts, ManagedFacts
    <2> QED BY <2>2 DEF DeleteTimer, lists
  <1>1. Frame
    <2>1. /\ pc[t] = "delete1" /\ pc'[t] = "delete2" /\ obj'[t] = obj[t]
          /\ \A s \in Thread \ {t} : pc'[s] = pc[s] /\ obj'[s] = obj[s]
      BY DEF SchedInv, TypeOK, DeleteTimer, At, GotoOn
    <2>2. Dying' = Dying
      BY <2>1 DEF Dying
    <2>3. ASSUME NEW x \in Thread PROVE Freeing(x)' <=> Freeing(x)
      BY <2>1, ThreadAssumption DEF Freeing
    <2>4. Detaching' = Detaching
      BY <2>1 DEF Detaching
    <2> QED BY <2>2, <2>3, <2>4 DEF Frame
  <1>2. ListsOK'
    BY <1>1, <1>8, ListsSame
  <1>3. TypeOK'
    BY <1>2, BoundAssumption DEF SchedInv, TypeOK, ListsOK, Labels,
       DeleteTimer, At, counts, GotoOn
  <1>4. TargetHeld'
    <2>1. /\ obj'[t] = obj[t] /\ pc'[t] = "delete2" /\ pc[t] = "delete1" /\ UNCHANGED cur
          /\ \A s \in Thread \ {t} : pc'[s] = pc[s] /\ obj'[s] = obj[s]
      BY DEF SchedInv, TypeOK, DeleteTimer, At, GotoOn
    <2> QED BY <1>8, <2>1 DEF SchedInv, TypeOK, TargetHeld, HeldTarget, lists
  <1>5. PreemptCountOwned'
    BY BoundAssumption DEF SchedInv, TypeOK, PreemptCountOwned, DeleteTimer,
       At, counts, GotoOn
  <1>6. CurrentRunnable'
    <2>1. UNCHANGED <<cur, level>> /\ cur = t /\ pc[cur] # "schedule"
      BY DEF DeleteTimer, counts, At
    <2> QED BY <1>1, <1>8, <2>1 DEF SchedInv, CurrentRunnable, Frame, lists
  <1>7. OnlyIdleFrees'
    BY DEF SchedInv, TypeOK, OnlyIdleFrees, DeleteTimer, At, counts, GotoOn
  <1> QED BY <1>2, <1>3, <1>4, <1>5, <1>6, <1>7 DEF SchedInv, ListsOK

(* RT_THREAD_CTRL_CHANGE_PRIORITY                                          *)
LEMMA ChangePriorityStep ==
  ASSUME SchedInv, Discipline, NEW t \in Thread, NEW u \in Thread, NEW p \in Prio, ChangePriority(t, u, p)
  PROVE  SchedInv'
  <1>8. u \notin Dying
    <2>1. u = cur => u \notin Dying
      BY CurNotDying
    <2>2. <<t, u>> \in Manages => u \notin Dying
      BY ManagedFacts DEF SchedInv, TargetHeld, HeldTarget, Dying, ChangePriority, At
    <2>3. "delete_unlent" \in Kept
      BY DEF Discipline, Rules
    <2> QED BY <2>1, <2>2, <2>3 DEF ChangePriority, MayChange, At
  <1>1. Frame
    BY StillFrame DEF ChangePriority
  <1>2. ListsOK'
    <2>1. prio' \in [Thread -> Prio] /\ prio'[u] = p
          /\ \A x \in Thread \ {u} : prio'[x] = prio[x]
      BY DEF SchedInv, TypeOK, ChangePriority
    <2>2. UNCHANGED <<stat, waiting, timer, defunct>> /\ u # Idle
      BY DEF ChangePriority, MayChange
    <2>3. /\ ready' \in [Prio -> Seq(Thread)] /\ group' \subseteq Prio
          /\ QueuesExact' /\ BitmapExact'
      <3>1. CASE stat[u] = "READY"
        <4> DEFINE r == Unlinked(ready, u)
        <4>1. /\ WellFormed(r) /\ GroupWithout(ready, group, u) = Bitmap(r)
              /\ \A q \in Prio, x \in Thread :
                   Contains(r[q], x)
                     <=> stat[x] = "READY" /\ prio[x] = q /\ x \notin Dying /\ x # u
          BY RemoveFacts
        <4>2. IsAppended(ready', r, p, u) /\ group' = GroupWithout(ready, group, u) \cup {p}
          BY <3>1 DEF ChangePriority, IsAppended
        <4> HIDE DEF r
        <4>3. /\ WellFormed(ready') /\ group' = Bitmap(ready')
              /\ \A q \in Prio, x \in Thread :
                   Contains(ready'[q], x) <=> Contains(r[q], x) \/ (q = p /\ x = u)
          BY <4>1, <4>2, AppendFacts
        <4>4. WellFormed(ready)'
          BY <4>3 DEF WellFormed
        <4>5. \A q \in Prio, x \in Thread :
                Contains(ready'[q], x)
                  <=> stat'[x] = "READY" /\ prio'[x] = q /\ x \notin Dying'
          BY <1>1, <1>8, <2>1, <2>2, <3>1, <4>1, <4>3 DEF Frame
        <4> QED BY <4>3, <4>4, <4>5, QueuesFrom
      <3>2. CASE stat[u] # "READY"
        <4>1. UNCHANGED <<ready, group>>
          BY <3>2 DEF ChangePriority
        <4>2. \A q \in Prio, x \in Thread :
                Contains(ready'[q], x)
                  <=> stat'[x] = "READY" /\ prio'[x] = q /\ x \notin Dying'
          BY <1>1, <2>1, <2>2, <3>2, <4>1, QueuesFacts DEF Frame
        <4>3. WellFormed(ready)' /\ group' = Bitmap(ready')
          BY <4>1, QueuesFacts DEF WellFormed, Bitmap
        <4> QED BY <4>2, <4>3, QueuesFrom
      <3> QED BY <3>1, <3>2
    <2>4. WaitersSuspended' /\ TimersOfTimed' /\ TimerOnlySuspended' /\ IdleReady'
      BY <2>1, <2>2, ThreadAssumption DEF SchedInv, WaitersSuspended,
         TimersOfTimed, TimerOnlySuspended, IdleReady
    <2>5. DefunctExact'
      BY <1>1, <2>2 DEF SchedInv, DefunctExact, Frame
    <2> QED BY <2>1, <2>2, <2>3, <2>4, <2>5 DEF SchedInv, TypeOK, ListsOK
  <1>3. TypeOK'
    BY <1>2, BoundAssumption DEF SchedInv, TypeOK, ListsOK, Labels,
       ChangePriority, At, counts
  <1>4. TargetHeld'
    BY DEF SchedInv, TypeOK, TargetHeld, HeldTarget, ChangePriority, At,
       counts
  <1>5. PreemptCountOwned'
    BY BoundAssumption DEF SchedInv, TypeOK, PreemptCountOwned,
       ChangePriority, At, counts
  <1>6. CurrentRunnable'
    BY <1>1 DEF SchedInv, TypeOK, CurrentRunnable, Frame, ChangePriority,
       At, counts
  <1>7. OnlyIdleFrees'
    BY DEF SchedInv, TypeOK, OnlyIdleFrees, ChangePriority, At, counts
  <1> QED BY <1>2, <1>3, <1>4, <1>5, <1>6, <1>7 DEF SchedInv, ListsOK

(* rt_thread_create, rt_thread_init                                        *)
LEMMA CreateStep ==
  ASSUME SchedInv, Discipline, NEW t \in Thread, NEW u \in Thread, Create(t, u)
  PROVE  SchedInv'
  <1>8. /\ u # t /\ u # Idle /\ u \notin timer /\ cur = t
        /\ pc[u] \notin Holding /\ pc[u] # "free"
    <2>1. <<t, u>> \in Manages /\ cur = t
      BY DEF Create, At
    <2>2. u # t /\ u # Idle /\ u \notin timer /\ u \in Managed
      BY <2>1, ManagedFacts
    <2>3. pc[u] \notin Holding
      BY <2>2, TargetFacts DEF Discipline
    <2> QED BY <2>1, <2>2, <2>3 DEF SchedInv, OnlyIdleFrees
  <1>1. Frame
    BY <1>8, GotoFrame DEF SchedInv, Create, Goto, Special, Holding
  <1>2. ListsOK'
    <2>1. /\ stat' \in [Thread -> Stats] /\ prio' \in [Thread -> Prio]
          /\ stat[u] = "FREE" /\ stat'[u] = "INIT"
          /\ \A x \in Thread \ {u} : stat'[x] = stat[x] /\ prio'[x] = prio[x]
          /\ UNCHANGED <<ready, group, waiting, timer, defunct>>
      BY PrioAssumption DEF SchedInv, TypeOK, Stats, Create
    <2>2. QueuesExact' /\ BitmapExact'
      BY <1>1, <2>1 DEF SchedInv, QueuesExact, BitmapExact, Frame
    <2>3. WaitersSuspended' /\ TimersOfTimed' /\ TimerOnlySuspended' /\ IdleReady'
      BY <1>8, <2>1, ThreadAssumption DEF SchedInv, TypeOK, WaitersSuspended,
         TimersOfTimed, TimerOnlySuspended, IdleReady
    <2>4. DefunctExact'
      BY <1>1, <2>1 DEF SchedInv, DefunctExact, Frame
    <2> QED BY <2>1, <2>2, <2>3, <2>4 DEF SchedInv, TypeOK, ListsOK
  <1>3. TypeOK'
    <2>1. Slice \in 1 .. Slice /\ 0 \in 0 .. MaxLevel /\ 0 \in 0 .. MaxIrq
      BY BoundAssumption
    <2>2. /\ remaining' \in [Thread -> 1 .. Slice] /\ level' \in [Thread -> 0 .. MaxLevel]
          /\ hardirq' \in [Thread -> 0 .. MaxIrq] /\ resched' \in [Thread -> BOOLEAN]
      BY <2>1 DEF SchedInv, TypeOK, Create
    <2> QED BY <1>2, <2>2 DEF SchedInv, TypeOK, ListsOK, Labels, Create, Goto, GotoOn
  <1>4. TargetHeld'
    <2>9. ASSUME NEW s \in Thread PROVE HeldTarget(s)'
      <3>1. HeldTarget(s) /\ obj[s] \in Thread
        BY DEF SchedInv, TypeOK, TargetHeld
      <3>2. CASE s = u
        BY <3>2 DEF SchedInv, TypeOK, HeldTarget, Create, Goto, GotoOn
      <3>3. CASE s # u
        <4>1. /\ stat[u] = "FREE" /\ UNCHANGED <<cur, waiting, timer>>
              /\ \A x \in Thread \ {u} : stat'[x] = stat[x]
              /\ pc'[s] = pc[s] /\ obj'[s] = obj[s]
          BY <3>3 DEF SchedInv, TypeOK, Create, Goto, GotoOn
        <4>2. pc[s] \in Holding => obj[s] # u
          BY <3>1, <4>1 DEF HeldTarget, Holding
        <4> QED BY <3>1, <4>1, <4>2, HeldSame
      <3> QED BY <3>2, <3>3
    <2> QED BY <2>9 DEF TargetHeld
  <1>5. PreemptCountOwned'
    BY <1>8, BoundAssumption DEF SchedInv, TypeOK, PreemptCountOwned,
       Create, At, Goto, GotoOn
  <1>6. CurrentRunnable'
    BY <1>1, <1>8 DEF SchedInv, TypeOK, CurrentRunnable, Frame, Create, At,
       Goto, GotoOn
  <1>7. OnlyIdleFrees'
    BY DEF SchedInv, TypeOK, OnlyIdleFrees, Create, At, Goto, GotoOn
  <1> QED BY <1>2, <1>3, <1>4, <1>5, <1>6, <1>7 DEF SchedInv, ListsOK

(* rt_thread_exit                                                          *)
LEMMA ExitStep ==
  ASSUME SchedInv, Discipline, NEW t \in Thread, Exit(t)
  PROVE  SchedInv'
  <1>8. cur = t /\ t # Idle /\ t \notin Managed /\ stat[t] = "READY" /\ level[t] = 0
    <2>1. t \in Ending /\ cur = t /\ pc[t] = "run" /\ level[t] = 0
      BY DEF Exit, At, Discipline, Rules
    <2>2. t # Idle /\ t \notin Managed
      BY <2>1, ThreadAssumption DEF Discipline
    <2> QED BY <2>1, <2>2 DEF SchedInv, CurrentRunnable
  <1>1. Frame
    BY GotoFrame DEF SchedInv, Exit, Goto, At, Special
  <1>2. ListsOK'
    <2>1. /\ stat' \in [Thread -> Stats] /\ stat'[t] = DeadStat(t)
          /\ \A x \in Thread \ {t} : stat'[x] = stat[x]
          /\ waiting' = waiting \ {t} /\ timer' = timer \ {t} /\ prio' = prio
      BY DEF SchedInv, TypeOK, Stats, Exit, DeadStat
    <2>2. DeadStat(t) \in {"FREE", "CLOSE"} /\ (DeadStat(t) = "FREE" <=> t \in Detached)
      BY DEF DeadStat
    <2>3. /\ ready' \in [Prio -> Seq(Thread)] /\ group' \subseteq Prio
          /\ QueuesExact' /\ BitmapExact'
      <3>1. /\ WellFormed(Unlinked(ready, t))
            /\ \A q \in Prio, x \in Thread :
                 Contains(Unlinked(ready, t)[q], x)
                   <=> stat[x] = "READY" /\ prio[x] = q /\ x \notin Dying /\ x # t
            /\ GroupWithout(ready, group, t) = Bitmap(Unlinked(ready, t))
        BY RemoveFacts
      <3>2. ready' = Unlinked(ready, t) /\ group' = GroupWithout(ready, group, t)
        BY DEF Exit
      <3>3. WellFormed(ready)' /\ group' = Bitmap(ready')
        BY <3>1, <3>2 DEF WellFormed
      <3>4. \A q \in Prio, x \in Thread :
              Contains(ready'[q], x)
                <=> stat'[x] = "READY" /\ prio'[x] = q /\ x \notin Dying'
        BY <1>1, <2>1, <2>2, <3>1, <3>2 DEF Frame
      <3> QED BY <3>3, <3>4, QueuesFrom
    <2>4. WaitersSuspended' /\ TimersOfTimed' /\ TimerOnlySuspended' /\ IdleReady'
      BY <1>8, <2>1, ThreadAssumption DEF SchedInv, TypeOK, WaitersSuspended,
         TimersOfTimed, TimerOnlySuspended, IdleReady
    <2>5. defunct' \in Seq(Thread) /\ DefunctExact'
      <3>1. defunct' = IF t \in Detached THEN defunct ELSE <<t>> \o defunct
        BY <1>8, DefunctFacts DEF Exit, Buried
      <3>2. ~Contains(defunct, t) /\ ~Freeing(t)
        BY <1>8 DEF SchedInv, DefunctExact
      <3>3. t \notin Detaching
        BY <1>8 DEF SchedInv, TargetHeld, HeldTarget, Detaching
      <3> QED BY <1>1, <2>1, <2>2, <3>1, <3>2, <3>3, BuryFacts DEF Frame
    <2> QED BY <2>1, <2>3, <2>4, <2>5 DEF SchedInv, TypeOK, ListsOK
  <1>3. TypeOK'
    BY <1>2, BoundAssumption DEF SchedInv, TypeOK, ListsOK, Labels, Exit,
       At, counts, Goto, GotoOn
  <1>4. TargetHeld'
    <2>9. ASSUME NEW s \in Thread PROVE HeldTarget(s)'
      <3>1. HeldTarget(s) /\ obj[s] \in Thread
        BY DEF SchedInv, TypeOK, TargetHeld
      <3>2. CASE s = t
        BY <3>2 DEF SchedInv, TypeOK, HeldTarget, Exit, Goto, GotoOn
      <3>3. CASE s # t
        <4>1. /\ UNCHANGED cur /\ waiting' = waiting \ {t} /\ timer' = timer \ {t}
              /\ \A x \in Thread \ {t} : stat'[x] = stat[x]
              /\ pc'[s] = pc[s] /\ obj'[s] = obj[s]
          BY <3>3 DEF SchedInv, TypeOK, Exit, Goto, GotoOn
        <4>2. pc[s] \in Holding => obj[s] # t
          BY <1>8, TargetFacts, ManagedFacts
        <4> QED BY <3>1, <4>1, <4>2, HeldSame
      <3> QED BY <3>2, <3>3
    <2> QED BY <2>9 DEF TargetHeld
  <1>5. PreemptCountOwned'
    BY BoundAssumption DEF SchedInv, TypeOK, PreemptCountOwned, Exit, At,
       counts, Goto, GotoOn
  <1>6. CurrentRunnable'
    BY <1>1, <1>8 DEF SchedInv, TypeOK, CurrentRunnable, Frame, Exit, At,
       counts, Goto, GotoOn
  <1>7. OnlyIdleFrees'
    BY DEF SchedInv, TypeOK, OnlyIdleFrees, Exit, At, counts, Goto, GotoOn
  <1> QED BY <1>2, <1>3, <1>4, <1>5, <1>6, <1>7 DEF SchedInv, ListsOK

(* rt_thread_delete, rt_thread_detach: the target leaves its queue and is  *)
(* being deleted.                                                          *)
LEMMA DeleteStep ==
  ASSUME SchedInv, Discipline, NEW t \in Thread, NEW u \in Thread, Delete(t, u)
  PROVE  SchedInv'
  <1>8. /\ <<t, u>> \in Manages /\ cur = t /\ u # t /\ u \notin timer
        /\ stat[u] \in {"INIT", "READY", "SUSPEND"}
        /\ pc[t] = "run" /\ pc'[t] = "delete1" /\ obj'[t] = u
        /\ \A s \in Thread \ {t} : pc'[s] = pc[s] /\ obj'[s] = obj[s]
        /\ UNCHANGED <<cur, stat, timer>>
    <2>1. <<t, u>> \in Manages /\ cur = t
      BY DEF Delete, At
    <2>2. u # t /\ u \notin timer
      BY <2>1, ManagedFacts
    <2> QED BY <2>1, <2>2 DEF SchedInv, TypeOK, Delete, At, GotoOn
  <1>9. /\ Dying' = Dying \cup {u} /\ Detaching' = Detaching
        /\ \A x \in Thread : Freeing(x)' <=> Freeing(x)
    <2>1. Dying' = Dying \cup {u}
      BY <1>8 DEF Dying
    <2>2. ASSUME NEW x \in Thread PROVE Freeing(x)' <=> Freeing(x)
      BY <1>8, ThreadAssumption DEF Freeing
    <2>3. Detaching' = Detaching
      BY <1>8 DEF Detaching
    <2> QED BY <2>1, <2>2, <2>3
  <1>2. ListsOK'
    <2>1. UNCHANGED <<stat, prio, timer, defunct>> /\ waiting' \subseteq waiting
      <3>1. RemoveThread(u) => defunct' = defunct
        BY <1>8, DefunctFacts DEF RemoveThread
      <3> QED BY <3>1 DEF Delete, RemoveThread
    <2>2. /\ ready' \in [Prio -> Seq(Thread)] /\ group' \subseteq Prio
          /\ QueuesExact' /\ BitmapExact'
      <3>1. ready' = Unlinked(ready, u) /\ group' = GroupWithout(ready, group, u)
        <4>1. stat[u] = "INIT" => Unlinked(ready, u) = ready /\ GroupWithout(ready, group, u) = group
          BY UnlinkedSame
        <4> QED BY <4>1 DEF Delete, RemoveThread
      <3>2. /\ WellFormed(Unlinked(ready, u))
            /\ \A q \in Prio, x \in Thread :
                 Contains(Unlinked(ready, u)[q], x)
                   <=> stat[x] = "READY" /\ prio[x] = q /\ x \notin Dying /\ x # u
            /\ GroupWithout(ready, group, u) = Bitmap(Unlinked(ready, u))
        BY RemoveFacts
      <3>3. WellFormed(ready)' /\ group' = Bitmap(ready')
        BY <3>1, <3>2 DEF WellFormed
      <3>4. \A q \in Prio, x \in Thread :
              Contains(ready'[q], x)
                <=> stat'[x] = "READY" /\ prio'[x] = q /\ x \notin Dying'
        BY <1>9, <2>1, <3>1, <3>2
      <3> QED BY <3>3, <3>4, QueuesFrom
    <2>3. WaitersSuspended' /\ TimersOfTimed' /\ TimerOnlySuspended' /\ IdleReady'
      BY <2>1 DEF SchedInv, WaitersSuspended, TimersOfTimed, TimerOnlySuspended, IdleReady
    <2>4. DefunctExact'
      BY <1>9, <2>1 DEF SchedInv, DefunctExact
    <2> QED BY <2>1, <2>2, <2>3, <2>4 DEF SchedInv, TypeOK, ListsOK
  <1>3. TypeOK'
    BY <1>2, BoundAssumption DEF SchedInv, TypeOK, ListsOK, Labels, Delete,
       At, counts, GotoOn
  <1>4. TargetHeld'
    <2>9. ASSUME NEW s \in Thread PROVE HeldTarget(s)'
      <3>1. HeldTarget(s) /\ obj[s] \in Thread
        BY DEF SchedInv, TypeOK, TargetHeld
      <3>2. waiting' \subseteq waiting /\ u \notin waiting'
        <4>1. stat[u] = "INIT" => u \notin waiting
          BY DEF SchedInv, WaitersSuspended
        <4> QED BY <4>1 DEF Delete, RemoveThread
      <3>3. CASE s = t
        BY <1>8, <3>2, <3>3 DEF HeldTarget
      <3>4. CASE s # t
        BY <1>8, <3>1, <3>2, <3>4, HeldSame
      <3> QED BY <3>3, <3>4
    <2> QED BY <2>9 DEF TargetHeld
  <1>5. PreemptCountOwned'
    BY BoundAssumption DEF SchedInv, TypeOK, PreemptCountOwned, Delete, At,
       counts, GotoOn
  <1>6. CurrentRunnable'
    <2>1. UNCHANGED level
      BY DEF Delete, counts
    <2> QED BY <1>8, <1>9, <2>1 DEF SchedInv, CurrentRunnable
  <1>7. OnlyIdleFrees'
    BY DEF SchedInv, TypeOK, OnlyIdleFrees, Delete, At, counts, GotoOn
  <1> QED BY <1>2, <1>3, <1>4, <1>5, <1>6, <1>7 DEF SchedInv, ListsOK

(* rt_thread_delete closes its target and puts it on the defunct list;     *)
(* rt_thread_detach only closes it.                                        *)
LEMMA DeleteCloseStep ==
  ASSUME SchedInv, Discipline, NEW t \in Thread, DeleteClose(t)
  PROVE  SchedInv'
  <1>8. /\ obj[t] \in Thread /\ obj[t] # cur /\ obj[t] # Idle /\ cur = t
        /\ obj[t] \notin waiting /\ obj[t] \notin timer /\ obj[t] \in Dying
        /\ stat[obj[t]] \in {"INIT", "READY", "SUSPEND"}
        /\ pc[t] = "delete2" /\ pc[t] \in Holding /\ pc'[t] \in {"run", "detach"}
        /\ pc'[t] = "detach" <=> obj[t] \in Static
        /\ pc'[t] = "detach" => obj'[t] = obj[t]
        /\ \A s \in Thread \ {t} : pc'[s] = pc[s] /\ obj'[s] = obj[s]
        /\ \A s \in Thread : pc[s] \in Holding /\ obj[s] = obj[t] => s = t
    <2>1. pc[t] = "delete2" /\ pc[t] \in Holding /\ cur = t
      BY DEF DeleteClose, At, Holding
    <2>2. /\ pc'[t] \in {"run", "detach"}
          /\ pc'[t] = "detach" <=> obj[t] \in Static
          /\ pc'[t] = "detach" => obj'[t] = obj[t]
          /\ \A s \in Thread \ {t} : pc'[s] = pc[s] /\ obj'[s] = obj[s]
      BY DEF SchedInv, TypeOK, DeleteClose, Goto, GotoOn
    <2> QED BY <2>1, <2>2, TargetFacts, ManagedFacts
  <1>9. /\ Dying' = Dying \ {obj[t]}
        /\ Detaching' = IF obj[t] \in Static THEN Detaching \cup {obj[t]} ELSE Detaching
        /\ \A x \in Thread : Freeing(x)' <=> Freeing(x)
    <2>1. Dying' = Dying \ {obj[t]}
      BY <1>8 DEF Dying, Holding
    <2>2. ASSUME NEW x \in Thread PROVE Freeing(x)' <=> Freeing(x)
      BY <1>8, ThreadAssumption DEF Freeing
    <2>3. Detaching' = IF obj[t] \in Static THEN Detaching \cup {obj[t]} ELSE Detaching
      BY <1>8 DEF Detaching
    <2> QED BY <2>1, <2>2, <2>3
  <1>2. ListsOK'
    <2>1. /\ stat' \in [Thread -> Stats] /\ stat'[obj[t]] = "CLOSE"
          /\ \A x \in Thread \ {obj[t]} : stat'[x] = stat[x]
          /\ UNCHANGED <<ready, group, waiting, timer, prio>>
      BY <1>8 DEF SchedInv, TypeOK, Stats, DeleteClose
    <2>2. ~Contains(defunct, obj[t]) /\ ~Freeing(obj[t]) /\ obj[t] \notin Detaching
      <3>1. stat[obj[t]] # "CLOSE"
        BY <1>8
      <3> QED BY <1>8, <3>1 DEF SchedInv, TargetHeld, HeldTarget, DefunctExact, Detaching
    <2>3. QueuesExact' /\ BitmapExact'
      BY <1>8, <1>9, <2>1 DEF SchedInv, QueuesExact, BitmapExact
    <2>4. WaitersSuspended' /\ TimersOfTimed' /\ TimerOnlySuspended' /\ IdleReady'
      BY <1>8, <2>1, ThreadAssumption DEF SchedInv, TypeOK, WaitersSuspended,
         TimersOfTimed, TimerOnlySuspended, IdleReady
    <2>5. defunct' \in Seq(Thread) /\ DefunctExact'
      <3>1. CASE obj[t] \in Static
        <4>1. defunct' = defunct
          BY <3>1 DEF DeleteClose
        <4> QED BY <1>8, <1>9, <2>1, <2>2, <3>1, <4>1 DEF SchedInv, TypeOK, DefunctExact
      <3>2. CASE obj[t] \notin Static
        <4>1. obj[t] \notin Detached
          BY <3>2 DEF Detached
        <4>2. defunct' = <<obj[t]>> \o defunct
          BY <3>2, <4>1 DEF DeleteClose, Buried
        <4> QED BY <1>8, <1>9, <2>1, <2>2, <3>2, <4>1, <4>2, BuryFacts
      <3> QED BY <3>1, <3>2
    <2> QED BY <2>1, <2>3, <2>4, <2>5 DEF SchedInv, TypeOK, ListsOK
  <1>3. TypeOK'
    <2>1. pc' \in [Thread -> Labels] /\ obj' \in [Thread -> Thread]
      <3>1. PICK l \in Labels, v \in Thread : GotoOn(t, l, v)
        BY <1>8 DEF DeleteClose, Goto, Labels
      <3> QED BY <3>1 DEF SchedInv, TypeOK, GotoOn
    <2> QED BY <1>2, <2>1 DEF SchedInv, TypeOK, ListsOK, DeleteClose, counts
  <1>4. TargetHeld'
    <2>9. ASSUME NEW s \in Thread PROVE HeldTarget(s)'
      <3>1. HeldTarget(s) /\ obj[s] \in Thread
        BY DEF SchedInv, TypeOK, TargetHeld
      <3>2. /\ UNCHANGED <<cur, waiting, timer>>
            /\ \A x \in Thread \ {obj[t]} : stat'[x] = stat[x]
        BY <1>8 DEF SchedInv, TypeOK, DeleteClose
      <3>3. CASE s = t
        <4>1. <<t, obj[t]>> \in Manages
          BY <1>8, TargetFacts
        <4>2. stat'[obj[t]] = "CLOSE"
          BY <1>8 DEF SchedInv, TypeOK, DeleteClose
        <4> QED BY <1>8, <3>2, <3>3, <4>1, <4>2 DEF HeldTarget
      <3>4. CASE s # t
        BY <1>8, <3>1, <3>2, <3>4, HeldSame
      <3> QED BY <3>3, <3>4
    <2> QED BY <2>9 DEF TargetHeld
  <1>5. PreemptCountOwned'
    BY BoundAssumption DEF SchedInv, TypeOK, PreemptCountOwned, DeleteClose,
       At, counts, Goto, GotoOn
  <1>6. CurrentRunnable'
    <2>1. UNCHANGED <<cur, level>> /\ stat'[cur] = stat[cur]
      BY <1>8 DEF SchedInv, TypeOK, DeleteClose, counts
    <2> QED BY <1>8, <1>9, <2>1 DEF SchedInv, CurrentRunnable
  <1>7. OnlyIdleFrees'
    BY DEF SchedInv, TypeOK, OnlyIdleFrees, DeleteClose, At, counts, Goto,
       GotoOn
  <1> QED BY <1>2, <1>3, <1>4, <1>5, <1>6, <1>7 DEF SchedInv, ListsOK

(* rt_thread_detach detaches its target or puts it on the defunct list.    *)
LEMMA DetachBuryStep ==
  ASSUME SchedInv, Discipline, NEW t \in Thread, DetachBury(t)
  PROVE  SchedInv'
  <1>8. /\ obj[t] \in Thread /\ obj[t] # cur /\ obj[t] # Idle /\ cur = t
        /\ obj[t] \notin waiting /\ obj[t] \notin timer /\ obj[t] \in Detaching
        /\ stat[obj[t]] = "CLOSE"
        /\ pc[t] = "detach" /\ pc[t] \in Holding /\ pc'[t] = "run"
        /\ \A s \in Thread \ {t} : pc'[s] = pc[s] /\ obj'[s] = obj[s]
        /\ \A s \in Thread : pc[s] \in Holding /\ obj[s] = obj[t] => s = t
    <2>1. pc[t] = "detach" /\ pc[t] \in Holding /\ cur = t
      BY DEF DetachBury, At, Holding
    <2>2. /\ pc'[t] = "run"
          /\ \A s \in Thread \ {t} : pc'[s] = pc[s] /\ obj'[s] = obj[s]
      BY DEF SchedInv, TypeOK, DetachBury, Goto, GotoOn
    <2> QED BY <2>1, <2>2, TargetFacts, ManagedFacts
  <1>9. Dying' = Dying /\ Detaching' = Detaching \ {obj[t]} /\ \A x \in Thread : Freeing(x)' <=> Freeing(x)
    <2>1. Detaching' = Detaching \ {obj[t]}
      BY <1>8 DEF Detaching, Holding
    <2>2. ASSUME NEW x \in Thread PROVE Freeing(x)' <=> Freeing(x)
      BY <1>8, ThreadAssumption DEF Freeing
    <2>3. Dying' = Dying
      BY <1>8 DEF Dying
    <2> QED BY <2>1, <2>2, <2>3
  <1>2. ListsOK'
    <2>1. /\ stat' \in [Thread -> Stats] /\ stat'[obj[t]] = DeadStat(obj[t])
          /\ \A x \in Thread \ {obj[t]} : stat'[x] = stat[x]
          /\ UNCHANGED <<ready, group, waiting, timer, prio>>
      BY <1>8 DEF SchedInv, TypeOK, Stats, DetachBury, DeadStat
    <2>2. DeadStat(obj[t]) \in {"FREE", "CLOSE"} /\ (DeadStat(obj[t]) = "FREE" <=> obj[t] \in Detached)
      BY DEF DeadStat
    <2>3. QueuesExact' /\ BitmapExact'
      BY <1>8, <1>9, <2>1, <2>2 DEF SchedInv, QueuesExact, BitmapExact
    <2>4. WaitersSuspended' /\ TimersOfTimed' /\ TimerOnlySuspended' /\ IdleReady'
      BY <1>8, <2>1, ThreadAssumption DEF SchedInv, TypeOK, WaitersSuspended,
         TimersOfTimed, TimerOnlySuspended, IdleReady
    <2>5. defunct' \in Seq(Thread) /\ DefunctExact'
      <3>1. defunct' = IF obj[t] \in Detached THEN defunct ELSE <<obj[t]>> \o defunct
        BY DEF DetachBury, Buried
      <3>2. ~Contains(defunct, obj[t]) /\ ~Freeing(obj[t])
        BY <1>8 DEF SchedInv, DefunctExact
      <3> QED BY <1>8, <1>9, <2>1, <2>2, <3>1, <3>2, BuryFacts
    <2> QED BY <2>1, <2>3, <2>4, <2>5 DEF SchedInv, TypeOK, ListsOK
  <1>3. TypeOK'
    BY <1>2, BoundAssumption DEF SchedInv, TypeOK, ListsOK, Labels,
       DetachBury, At, counts, Goto, GotoOn
  <1>4. TargetHeld'
    <2>9. ASSUME NEW s \in Thread PROVE HeldTarget(s)'
      <3>1. HeldTarget(s) /\ obj[s] \in Thread
        BY DEF SchedInv, TypeOK, TargetHeld
      <3>2. /\ UNCHANGED <<cur, waiting, timer>>
            /\ \A x \in Thread \ {obj[t]} : stat'[x] = stat[x]
        BY <1>8 DEF SchedInv, TypeOK, DetachBury
      <3>3. CASE s = t
        BY <1>8, <3>3 DEF HeldTarget
      <3>4. CASE s # t
        BY <1>8, <3>1, <3>2, <3>4, HeldSame
      <3> QED BY <3>3, <3>4
    <2> QED BY <2>9 DEF TargetHeld
  <1>5. PreemptCountOwned'
    BY BoundAssumption DEF SchedInv, TypeOK, PreemptCountOwned, DetachBury,
       At, counts, Goto, GotoOn
  <1>6. CurrentRunnable'
    <2>1. UNCHANGED <<cur, level>> /\ stat'[cur] = stat[cur]
      BY <1>8 DEF SchedInv, TypeOK, DetachBury, counts
    <2> QED BY <1>8, <1>9, <2>1 DEF SchedInv, CurrentRunnable
  <1>7. OnlyIdleFrees'
    BY DEF SchedInv, TypeOK, OnlyIdleFrees, DetachBury, At, counts, Goto,
       GotoOn
  <1> QED BY <1>2, <1>3, <1>4, <1>5, <1>6, <1>7 DEF SchedInv, ListsOK

(* The idle thread frees a dead thread.                                    *)
LEMMA IdleFreeStep ==
  ASSUME SchedInv, Discipline, IdleFree
  PROVE  SchedInv'
  <1>8. /\ Idle \in Thread /\ cur = Idle /\ pc[Idle] = "free" /\ pc'[Idle] = "run"
        /\ obj[Idle] \in Thread /\ stat[obj[Idle]] = "CLOSE" /\ obj[Idle] # Idle
        /\ \A s \in Thread \ {Idle} : pc'[s] = pc[s] /\ obj'[s] = obj[s]
        /\ stat' = [stat EXCEPT ![obj[Idle]] = "FREE"]
        /\ stat'[obj[Idle]] = "FREE"
        /\ \A x \in Thread \ {obj[Idle]} : stat'[x] = stat[x]
    <2>1. Idle \in Thread /\ pc[Idle] = "free" /\ obj[Idle] \in Thread
      BY ThreadAssumption DEF SchedInv, TypeOK, IdleFree, At
    <2>2. stat[obj[Idle]] = "CLOSE" /\ obj[Idle] # Idle
      BY <2>1 DEF SchedInv, DefunctExact, Freeing, IdleReady
    <2> QED BY <2>1, <2>2 DEF SchedInv, TypeOK, IdleFree, At, Goto, GotoOn
  <1>9. Dying' = Dying /\ Detaching' = Detaching
    BY <1>8 DEF Dying, Detaching
  <1>2. ListsOK'
    <2>1. stat' \in [Thread -> Stats]
      BY <1>8 DEF SchedInv, TypeOK, Stats
    <2>2. QueuesExact' /\ BitmapExact'
      BY <1>8, <1>9 DEF SchedInv, QueuesExact, BitmapExact, IdleFree
    <2>3. WaitersSuspended' /\ TimersOfTimed' /\ TimerOnlySuspended' /\ IdleReady'
      BY <1>8, ThreadAssumption DEF SchedInv, TypeOK, WaitersSuspended,
         TimersOfTimed, TimerOnlySuspended, IdleReady, IdleFree
    <2>4. DefunctExact'
      <3>1. \A x \in Thread : ~Freeing(x)' /\ (Freeing(x) <=> x = obj[Idle])
        BY <1>8 DEF Freeing
      <3> QED BY <1>8, <1>9, <3>1 DEF SchedInv, DefunctExact, IdleFree
    <2> QED BY <2>1, <2>2, <2>3, <2>4 DEF SchedInv, TypeOK, ListsOK, IdleFree
  <1>3. TypeOK'
    BY <1>2, BoundAssumption DEF SchedInv, TypeOK, ListsOK, Labels,
       IdleFree, At, counts, Goto, GotoOn
  <1>4. TargetHeld'
    <2>9. ASSUME NEW s \in Thread PROVE HeldTarget(s)'
      <3>1. HeldTarget(s) /\ obj[s] \in Thread
        BY DEF SchedInv, TypeOK, TargetHeld
      <3>2. UNCHANGED <<cur, waiting, timer>>
        BY DEF IdleFree
      <3>3. CASE s = Idle
        BY <1>8, <3>3 DEF HeldTarget
      <3>4. CASE s # Idle
        <4>1. pc[s] \in Holding => obj[s] # obj[Idle]
          <5>1. Freeing(obj[Idle])
            BY <1>8 DEF Freeing
          <5>2. obj[Idle] \notin Detaching
            BY <1>8, <5>1 DEF SchedInv, DefunctExact
          <5> QED BY <1>8, <3>1, <5>2 DEF HeldTarget, Holding, Detaching
        <4> QED BY <1>8, <3>1, <3>2, <3>4, <4>1, HeldSame
      <3> QED BY <3>3, <3>4
    <2> QED BY <2>9 DEF TargetHeld
  <1>5. PreemptCountOwned'
    BY BoundAssumption DEF SchedInv, TypeOK, PreemptCountOwned, IdleFree,
       At, counts, Goto, GotoOn
  <1>6. CurrentRunnable'
    <2>1. UNCHANGED <<cur, level>> /\ stat'[cur] = stat[cur]
      BY <1>8 DEF IdleFree, counts
    <2> QED BY <1>8, <1>9, <2>1 DEF SchedInv, CurrentRunnable
  <1>7. OnlyIdleFrees'
    BY DEF SchedInv, TypeOK, OnlyIdleFrees, IdleFree, At, counts, Goto,
       GotoOn
  <1> QED BY <1>2, <1>3, <1>4, <1>5, <1>6, <1>7 DEF SchedInv, ListsOK

(* The idle thread takes the head of the defunct list and reschedules.     *)
LEMMA IdleReapStep ==
  ASSUME SchedInv, Discipline, IdleReap
  PROVE  SchedInv'
  <1>8. /\ Idle \in Thread /\ cur = Idle /\ pc[Idle] = "run" /\ pc'[Idle] \in {"run", "free"}
        /\ hardirq[Idle] = 0 /\ level[Idle] = 0 /\ defunct # <<>>
        /\ Head(defunct) \in Thread /\ stat[Head(defunct)] = "CLOSE" /\ Head(defunct) # Idle
        /\ Head(defunct) \notin Detaching
        /\ \A s \in Thread \ {Idle} : pc'[s] = pc[s] /\ obj'[s] = obj[s]
        /\ stat'[Head(defunct)] \in {"CLOSE", "FREE"}
        /\ \A x \in Thread \ {Head(defunct)} : stat'[x] = stat[x]
    <2> DEFINE h == Head(defunct)
    <2>1. /\ Idle \in Thread /\ cur = Idle /\ pc[Idle] = "run"
          /\ hardirq[Idle] = 0 /\ level[Idle] = 0 /\ defunct # <<>>
      BY ThreadAssumption DEF IdleReap, At
    <2>2. h \in Thread /\ Contains(defunct, h)
      <3>1. defunct \in Seq(Thread)
        BY DEF SchedInv, TypeOK
      <3> QED BY <2>1, <3>1, HeadContains
    <2>3. stat[h] = "CLOSE" /\ h # Idle /\ h \notin Detaching
      BY <2>2 DEF SchedInv, DefunctExact, IdleReady
    <2>4. \/ stat' = [stat EXCEPT ![h] = "FREE"] /\ UNCHANGED <<pc, obj>>
          \/ UNCHANGED stat /\ GotoOn(Idle, "free", h)
      BY DEF IdleReap
    <2> HIDE DEF h
    <2>5. CASE stat' = [stat EXCEPT ![h] = "FREE"] /\ UNCHANGED <<pc, obj>>
      BY <2>1, <2>2, <2>3, <2>5 DEF SchedInv, TypeOK, h
    <2>6. CASE UNCHANGED stat /\ GotoOn(Idle, "free", h)
      BY <2>1, <2>2, <2>3, <2>6 DEF SchedInv, TypeOK, GotoOn, h
    <2> QED BY <2>4, <2>5, <2>6
  <1>9. Dying' = Dying /\ Detaching' = Detaching
    BY <1>8 DEF Dying, Detaching
  <1>2. ListsOK'
    <2>1. stat' \in [Thread -> Stats]
      BY DEF SchedInv, TypeOK, Stats, IdleReap
    <2>2. QueuesExact' /\ BitmapExact'
      BY <1>8, <1>9 DEF SchedInv, QueuesExact, BitmapExact, IdleReap
    <2>3. WaitersSuspended' /\ TimersOfTimed' /\ TimerOnlySuspended' /\ IdleReady'
      BY <1>8, ThreadAssumption DEF SchedInv, TypeOK, WaitersSuspended,
         TimersOfTimed, TimerOnlySuspended, IdleReady, IdleReap
    <2>4. defunct' \in Seq(Thread) /\ DefunctExact'
      <3> DEFINE h == Head(defunct)
      <3>1. /\ defunct' \in Seq(Thread) /\ IsInjective(defunct')
            /\ \A x \in Thread : Contains(defunct', x) <=> Contains(defunct, x) /\ x # h
        <4>1. defunct \in Seq(Thread) /\ IsInjective(defunct) /\ defunct # <<>>
          BY <1>8 DEF SchedInv, TypeOK, DefunctExact
        <4>2. defunct' = Tail(defunct)
          BY DEF IdleReap
        <4> QED BY <4>1, <4>2, TailContains
      <3>2. \A x \in Thread : ~Freeing(x)
        BY <1>8 DEF Freeing
      <3> HIDE DEF h
      <3>5. h \notin Detaching
        BY <1>8 DEF h
      <3>3. CASE h \in Static
        <4>1. stat' = [stat EXCEPT ![h] = "FREE"] /\ UNCHANGED <<pc, obj>>
          BY <3>3 DEF IdleReap, h
        <4>2. \A x \in Thread : ~Freeing(x)'
          BY <3>2, <4>1 DEF Freeing
        <4>3. h \in Thread /\ stat[h] = "CLOSE" /\ stat \in [Thread -> Stats]
          BY <1>8 DEF SchedInv, TypeOK, h
        <4> QED BY <1>9, <3>1, <3>2, <3>5, <4>1, <4>2, <4>3 DEF SchedInv, DefunctExact
      <3>4. CASE h \notin Static
        <4>1. UNCHANGED stat /\ GotoOn(Idle, "free", h)
          BY <3>4 DEF IdleReap, h
        <4>2. \A x \in Thread : Freeing(x)' <=> x = h
          BY <1>8, <4>1 DEF SchedInv, TypeOK, Freeing, GotoOn
        <4>3. h \in Thread /\ stat[h] = "CLOSE"
          BY <1>8 DEF h
        <4> QED BY <1>9, <3>1, <3>2, <3>5, <4>1, <4>2, <4>3 DEF SchedInv, DefunctExact
      <3> QED BY <3>3, <3>4
    <2> QED BY <2>1, <2>2, <2>3, <2>4 DEF SchedInv, TypeOK, ListsOK, IdleReap
  <1>10. /\ cur' \in Thread /\ resched' \in [Thread -> BOOLEAN]
         /\ \A y \in Thread : y # cur => resched'[y] = resched[y]
         /\ \/ /\ cur' = cur /\ resched'[cur]
               /\ level[cur] > 0 \/ hardirq[cur] > 0
            \/ /\ ~resched'[cur] /\ ~(level[cur] > 0)
               /\ cur' = cur \/ ~(hardirq[cur] > 0)
               /\ stat'[cur'] = "READY" /\ cur' \notin Dying
    <2>1. RtSchedule(ready', group', level, hardirq)
      BY DEF IdleReap, RtSchedule
    <2> QED BY <1>2, <1>9, <2>1, RescheduleFacts
  <1>3. TypeOK'
    <2>1. pc' \in [Thread -> Labels] /\ obj' \in [Thread -> Thread]
      BY <1>8, ZenonT(60) DEF SchedInv, TypeOK, IdleReap, GotoOn, Labels
    <2> QED BY <1>2, <1>10, <2>1 DEF SchedInv, TypeOK, ListsOK, IdleReap
  <1>4. TargetHeld'
    <2>9. ASSUME NEW s \in Thread PROVE HeldTarget(s)'
      <3>1. HeldTarget(s) /\ obj[s] \in Thread
        BY DEF SchedInv, TypeOK, TargetHeld
      <3>2. UNCHANGED <<waiting, timer>>
        BY DEF IdleReap
      <3>3. CASE s = Idle
        BY <1>8, <3>3 DEF HeldTarget
      <3>4. CASE s # Idle
        <4>1. pc[s] \in Holding => obj[s] # Head(defunct)
          BY <1>8, <3>1 DEF HeldTarget, Holding, Detaching
        <4>2. pc[s] \in Holding /\ pc[s] # "suspend" => obj[s] # cur'
          <5>1. pc[s] \in Holding /\ pc[s] # "suspend" =>
                  stat[obj[s]] \in {"SUSPEND", "CLOSE"} \/ obj[s] \in Dying
            BY TargetFacts DEF Holding
          <5> QED BY <1>8, <1>10, <3>1, <4>1, <5>1
        <4> QED BY <1>8, <3>1, <3>2, <3>4, <4>1, <4>2 DEF HeldTarget, Holding
      <3> QED BY <3>3, <3>4
    <2> QED BY <2>9 DEF TargetHeld
  <1>5. PreemptCountOwned'
    <2>1. UNCHANGED <<level, hardirq>>
      BY DEF IdleReap
    <2> QED BY <1>8, <1>10, <2>1 DEF SchedInv, PreemptCountOwned
  <1>6. CurrentRunnable'
    BY <1>8, <1>9, <1>10 DEF SchedInv, CurrentRunnable
  <1>7. OnlyIdleFrees'
    BY <1>8 DEF SchedInv, OnlyIdleFrees
  <1> QED BY <1>2, <1>3, <1>4, <1>5, <1>6, <1>7 DEF SchedInv, ListsOK

-----------------------------------------------------------------------------
(* The theorems *)

(* The state in which the scheduler starts.                                *)
LEMMA InitInv ==
  ASSUME Discipline, Init
  PROVE  SchedInv
  <1> DEFINE B(p) == {t \in Boot : InitPrio[t] = p}
  <1>1. \A p \in Prio : /\ SetToSeq(B(p)) \in Seq(Thread) /\ IsInjective(SetToSeq(B(p)))
                        /\ \A x : Contains(SetToSeq(B(p)), x) <=> x \in B(p)
    <2>1. ASSUME NEW p \in Prio PROVE B(p) \subseteq Thread /\ IsFiniteSet(B(p))
      BY ThreadAssumption, FS_Subset
    <2>2. ASSUME NEW p \in Prio
          PROVE  SetToSeq(B(p)) \in Seq(B(p)) /\ IsInjective(SetToSeq(B(p)))
                 /\ \A x : Contains(SetToSeq(B(p)), x) <=> x \in B(p)
      BY <2>1, SetToSeqContains
    <2>3. ASSUME NEW p \in Prio PROVE SetToSeq(B(p)) \in Seq(Thread)
      <3> DEFINE q == SetToSeq(B(p))
                 S == B(p)
      <3>1. S \subseteq Thread /\ q \in Seq(S)
        BY <2>1, <2>2
      <3> HIDE DEF q, S
      <3>2. q \in Seq(Thread)
        BY <3>1
      <3> QED BY <3>2 DEF q
    <2> QED BY <2>2, <2>3
  <1>2. \A p \in Prio : ready[p] = SetToSeq(B(p))
    BY DEF Init
  <1>3. \A p \in Prio, x \in Thread : x \in B(p) <=> x \in Boot /\ InitPrio[x] = p
    OBVIOUS
  <1>4. Dying = {} /\ Detaching = {}
    BY DEF Init, Dying, Detaching
  <1>5. ready \in [Prio -> Seq(Thread)]
    BY <1>1 DEF Init
  <1>6. \A p \in Prio, x \in Thread :
          Contains(ready[p], x) <=> x \in Boot /\ InitPrio[x] = p
    BY <1>1, <1>2, <1>3, ZenonT(60)
  <1>7. \A p \in Prio : IsInjective(ready[p])
    BY <1>1, <1>2
  <1> HIDE DEF B
  <1>8. TypeOK
    <2>1. Slice \in 1 .. Slice /\ 0 \in 0 .. MaxLevel /\ 0 \in 0 .. MaxIrq
      BY BoundAssumption
    <2>2. group \subseteq Prio
      BY ThreadAssumption, PrioAssumption DEF Init
    <2>3. /\ stat \in [Thread -> Stats] /\ pc \in [Thread -> Labels]
          /\ obj \in [Thread -> Thread] /\ cur \in Thread
          /\ waiting \subseteq Thread /\ timer \subseteq Thread /\ defunct \in Seq(Thread)
      BY ThreadAssumption DEF Init, Stats, Labels
    <2> QED BY <1>5, <2>1, <2>2, <2>3, PrioAssumption DEF Init, TypeOK
  <1>9. QueuesExact
    <2>1. \A x \in Thread : stat[x] = "READY" <=> x \in Boot
      BY DEF Init
    <2>2. prio = InitPrio
      BY DEF Init
    <2> QED BY <1>4, <1>6, <1>7, <2>1, <2>2 DEF QueuesExact
  <1>10. BitmapExact
    <2>1. \A p \in Prio : ready[p] # <<>> <=> \E x \in Thread : Contains(ready[p], x)
      BY <1>5, <1>7, NonEmptyContains DEF WellFormed
    <2>2. group = {InitPrio[t] : t \in Boot}
      BY DEF Init
    <2>3. \A p \in Prio : p \in group <=> ready[p] # <<>>
      BY <1>6, <2>1, <2>2, ThreadAssumption
    <2> QED BY <1>8, <2>3 DEF BitmapExact, TypeOK
  <1>11. PreemptCountOwned /\ CurrentRunnable /\ TargetHeld /\ OnlyIdleFrees
    BY <1>4, ThreadAssumption DEF Init, PreemptCountOwned, CurrentRunnable,
       TargetHeld, HeldTarget, OnlyIdleFrees
  <1>12. WaitersSuspended /\ TimersOfTimed /\ TimerOnlySuspended /\ IdleReady
    BY ThreadAssumption, PrioAssumption DEF Init, WaitersSuspended, TimersOfTimed,
       TimerOnlySuspended, IdleReady
  <1>13. DefunctExact
    <2>1. defunct = <<>> /\ defunct \in Seq(Thread)
      BY DEF Init
    <2>2. \A x \in Thread : ~Contains(defunct, x)
      BY <2>1, EmptyContains
    <2>3. IsInjective(defunct)
      BY <2>1 DEF IsInjective
    <2>4. \A x \in Thread : stat[x] # "CLOSE" /\ ~Freeing(x)
      BY ThreadAssumption DEF Init, Freeing
    <2> QED BY <1>4, <2>2, <2>3, <2>4 DEF DefunctExact
  <1> QED BY <1>8, <1>9, <1>10, <1>11, <1>12, <1>13 DEF SchedInv

(* Nothing changes in a stuttering step.                                   *)
LEMMA StutterStep ==
  ASSUME SchedInv, UNCHANGED vars
  PROVE  SchedInv'
  BY SMTT(30) DEF vars, SchedInv, TypeOK, QueuesExact, BitmapExact, TargetHeld, HeldTarget,
     PreemptCountOwned, CurrentRunnable, WaitersSuspended, TimersOfTimed,
     TimerOnlySuspended, IdleReady, OnlyIdleFrees, DefunctExact, Dying, Detaching, Freeing

(* Every step of every thread and every interrupt keeps the invariant.     *)
LEMMA NextInv ==
  ASSUME SchedInv, Discipline, [Next]_vars
  PROVE  SchedInv'
  <1>1. ASSUME NEW t \in Thread, ThreadNext(t) PROVE SchedInv'
    BY <1>1, ScheduleStep, EnterCriticalStep, ExitCriticalStep, ResumeUnlinkStep,
       ResumeInsertStep, SuspendDoStep, SuspendSelfStep, SleepStep, BlockStep,
       YieldStep, ExitStep, DeleteTimerStep, DeleteCloseStep, DetachBuryStep, CreateStep,
       StartupStep, ResumeStep, SuspendStep, WakeStep, DeleteStep,
       ChangePriorityStep DEF ThreadNext
  <1>2. ASSUME IrqNext PROVE SchedInv'
    BY <1>2, IrqEnterStep, IrqTickStep, IrqLeaveStep, IrqWakeStep, IrqTimeoutStep
    DEF IrqNext
  <1> QED BY <1>1, <1>2, IdleReapStep, IdleFreeStep, StutterStep DEF Next

(* The invariant implies what rt_schedule promises.                        *)
LEMMA InvSelects ==
  ASSUME SchedInv, Discipline
  PROVE  SelectsHighest
  <1> DEFINE h  == HighestReady(group)
             to == ToThread(ready, group)
  <1>1. Idle \in Thread /\ prio[Idle] \in Prio /\ Contains(ready[prio[Idle]], Idle)
    BY IdleQueued
  <1>2. WellFormed(ready) /\ group = Bitmap(ready)
    BY QueuesFacts
  <1>3. /\ h \in Prio /\ h \in group /\ \A q \in group : h <= q
        /\ ready[h] # <<>> /\ to \in Thread /\ Contains(ready[h], to)
    BY <1>1, <1>2, ToThreadFacts
  <1> HIDE DEF h, to
  <1>4. stat[to] = "READY" /\ prio[to] = h
    BY <1>3, QueuesFacts
  <1>5. ASSUME NEW x \in Thread, stat[x] = "READY", x \notin Dying
        PROVE  prio[to] <= prio[x]
    <2>1. prio[x] \in Prio /\ Contains(ready[prio[x]], x)
      BY <1>5, QueuesFacts DEF SchedInv, TypeOK
    <2>2. prio[x] \in group
      BY <1>2, <2>1, NonEmptyContains DEF Bitmap
    <2> QED BY <1>3, <1>4, <2>2
  <1> QED BY <1>3, <1>4, <1>5 DEF SelectsHighest, h, to

(* For any set of threads and priorities, as long as a thread is managed   *)
(* by one other thread, every interleaving of threads, interrupt handlers, *)
(* timeouts and the idle thread keeps the invariant.                       *)
THEOREM SchedulerInvariant == Discipline => (Spec => []SchedInv)
  <1> SUFFICES ASSUME Discipline PROVE Spec => []SchedInv
    OBVIOUS
  <1>1. Init => SchedInv
    BY InitInv
  <1>2. SchedInv /\ [Next]_vars => SchedInv'
    BY NextInv
  <1> QED BY <1>1, <1>2, PTL DEF Spec

(* Every variable keeps its type.                                          *)
THEOREM SchedulerTypes == Discipline => (Spec => []TypeOK)
  <1>1. SchedInv => TypeOK
    BY DEF SchedInv
  <1> QED BY <1>1, SchedulerInvariant, PTL

(* No READY thread is ever lost from its ready queue, none is queued twice *)
(* and none is left behind, whoever suspends, resumes, wakes, reprioritises *)
(* or deletes it and whatever interrupt comes in between.                  *)
THEOREM QueuesAlwaysExact == Discipline => (Spec => []QueuesExact)
  <1>1. SchedInv => QueuesExact
    BY DEF SchedInv
  <1> QED BY <1>1, SchedulerInvariant, PTL

(* The bitmap never names an empty queue and never misses one.             *)
THEOREM BitmapAlwaysExact == Discipline => (Spec => []BitmapExact)
  <1>1. SchedInv => BitmapExact
    BY DEF SchedInv
  <1> QED BY <1>1, SchedulerInvariant, PTL

(* rt_schedule finds a thread of the highest ready priority at any moment. *)
THEOREM ScheduleSelectsHighest == Discipline => (Spec => []SelectsHighest)
  <1> SUFFICES ASSUME Discipline PROVE Spec => []SelectsHighest
    OBVIOUS
  <1>1. SchedInv => SelectsHighest
    BY InvSelects
  <1> QED BY <1>1, SchedulerInvariant, PTL

(* Locks, interrupt levels and NEED_RESCHED belong to the running thread.  *)
THEOREM PreemptCountStaysOwned == Discipline => (Spec => []PreemptCountOwned)
  <1>1. SchedInv => PreemptCountOwned
    BY DEF SchedInv
  <1> QED BY <1>1, SchedulerInvariant, PTL

(* The CPU is never left on a thread that cannot run.                      *)
THEOREM CurrentStaysRunnable == Discipline => (Spec => []CurrentRunnable)
  <1>1. SchedInv => CurrentRunnable
    BY DEF SchedInv
  <1> QED BY <1>1, SchedulerInvariant, PTL

(* Between the sections of rt_thread_startup, resume, delete and detach    *)
(* nobody else moves the target, if callers keep Discipline: one manager   *)
(* per thread, and none that resumes a thread blocked on an object.        *)
THEOREM TargetStaysHeld == Discipline => (Spec => []TargetHeld)
  <1>1. SchedInv => TargetHeld
    BY DEF SchedInv
  <1> QED BY <1>1, SchedulerInvariant, PTL

(* The assertion of rt_thread_timeout holds whenever a thread timer runs.  *)
THEOREM TimersOnlySuspended == Discipline => (Spec => []TimerOnlySuspended)
  <1>1. SchedInv => TimerOnlySuspended
    BY DEF SchedInv
  <1> QED BY <1>1, SchedulerInvariant, PTL

(* Every dead thread is on the defunct list once or being freed.           *)
THEOREM DefunctAlwaysExact == Discipline => (Spec => []DefunctExact)
  <1>1. SchedInv => DefunctExact
    BY DEF SchedInv
  <1> QED BY <1>1, SchedulerInvariant, PTL

(* A thread's step keeps to the life of a thread.                          *)
LEMMA ThreadLife ==
  ASSUME SchedInv, Discipline, NEW t \in Thread, ThreadNext(t)
  PROVE  LifeStep
  <1> USE DEF At
  <1>0. stat \in [Thread -> Stats] /\ cur \in Thread
    BY DEF SchedInv, TypeOK
  <1>1. CASE UNCHANGED <<stat, cur>>
    BY <1>1 DEF LifeStep
  <1>2. CASE Schedule(t)
    <2>1. SchedInv'
      BY <1>2, ScheduleStep
    <2>2. stat' = stat
      BY <1>2 DEF Schedule, lists
    <2>3. cur' # cur => stat[cur'] = "READY"
      <3>1. /\ WellFormed(ready) /\ group = Bitmap(ready)
            /\ Idle \in Thread /\ prio[Idle] \in Prio /\ Contains(ready[prio[Idle]], Idle)
        BY QueuesFacts, IdleQueued
      <3>2. RtSchedule(ready, group, level, hardirq)
        BY <1>2 DEF Schedule
      <3>3. cur' # cur => cur' \in Thread /\ \E q \in Prio : Contains(ready[q], cur')
        BY <3>1, <3>2, ScheduleFacts
      <3> QED BY <3>3, QueuesFacts
    <2> QED BY <2>2, <2>3 DEF LifeStep
  <1>3. ASSUME NEW u \in Thread, Create(t, u) PROVE LifeStep
    BY <1>0, <1>3 DEF LifeStep, Create
  <1>4. ASSUME NEW u \in Thread, Startup(t, u) PROVE LifeStep
    BY <1>0, <1>4 DEF LifeStep, Startup
  <1>5. ASSUME NEW u \in Thread, Wake(t, u) PROVE LifeStep
    BY <1>0, <1>5 DEF LifeStep, Wake, MakeReady, InsertThread
  <1>6. CASE ResumeInsert(t)
    <2>1. pc[t] \in Holding \ {"suspend", "delete1", "delete2", "detach"}
      BY <1>6 DEF ResumeInsert, Holding
    <2>2. obj[t] \in Thread /\ stat[obj[t]] = "SUSPEND"
      BY <2>1, TargetFacts DEF Holding
    <2> QED BY <1>0, <1>6, <2>2 DEF LifeStep, ResumeInsert, InsertThread
  <1>7. CASE SuspendDo(t)
    <2>1. pc[t] = "suspend" /\ pc[t] \in Holding
      BY <1>7 DEF SuspendDo, Holding
    <2>2. obj[t] \in Thread /\ stat[obj[t]] \in {"READY", "SUSPEND"}
      BY <2>1, TargetFacts
    <2> QED BY <1>0, <1>7, <2>2 DEF LifeStep, SuspendDo, SuspendThread
  <1>8. CASE SuspendSelf(t) \/ Sleep(t) \/ Block(t)
    BY <1>0, <1>8 DEF LifeStep, SuspendSelf, Sleep, Block, SuspendThread
  <1>9. CASE Exit(t)
    <2>1. stat[t] = "READY"
      BY <1>9 DEF SchedInv, CurrentRunnable, Exit, Discipline, Rules
    <2> QED BY <1>0, <1>9, <2>1 DEF LifeStep, Exit
  <1>10. CASE DeleteClose(t)
    <2>1. pc[t] = "delete2" /\ pc[t] \in Holding
      BY <1>10 DEF DeleteClose, Holding
    <2>2. obj[t] \in Thread /\ stat[obj[t]] \in {"INIT", "READY", "SUSPEND"}
      BY <2>1, TargetFacts
    <2> QED BY <1>0, <1>10, <2>2 DEF LifeStep, DeleteClose
  <1>13. CASE DetachBury(t)
    <2>1. pc[t] = "detach" /\ pc[t] \in Holding
      BY <1>13 DEF DetachBury, Holding
    <2>2. obj[t] \in Thread /\ stat[obj[t]] = "CLOSE"
      BY <2>1, TargetFacts
    <2> QED BY <1>0, <1>13, <2>2 DEF LifeStep, DetachBury, DeadStat
  <1>11. ASSUME NEW u \in Thread,
                \/ Resume(t, u) \/ Suspend(t, u) \/ Delete(t, u)
                \/ \E p \in Prio : ChangePriority(t, u, p)
         PROVE  LifeStep
    BY <1>1, <1>11 DEF Resume, Suspend, Delete, ChangePriority, lists
  <1>12. CASE EnterCritical(t) \/ ExitCritical(t) \/ ResumeUnlink(t) \/ Yield(t) \/ DeleteTimer(t)
    BY <1>1, <1>12 DEF EnterCritical, ExitCritical, ResumeUnlink, Yield, DeleteTimer, lists
  <1> QED BY <1>2, <1>3, <1>4, <1>5, <1>6, <1>7, <1>8, <1>9, <1>10, <1>11, <1>12,
          <1>13 DEF ThreadNext

(* So does a step of the idle thread or of an interrupt.                   *)
LEMMA OtherLife ==
  ASSUME SchedInv, Discipline, IdleReap \/ IdleFree \/ IrqNext
  PROVE  LifeStep
  <1>0. /\ stat \in [Thread -> Stats] /\ cur \in Thread
        /\ Idle \in Thread /\ obj[Idle] \in Thread
    BY ThreadAssumption DEF SchedInv, TypeOK
  <1>1. CASE UNCHANGED <<stat, cur>>
    BY <1>1 DEF LifeStep
  <1>2. ASSUME RtSchedule(ready, group, level, hardirq) \/ RtSchedule(ready, group, level, hardirq')
        PROVE  cur' # cur => stat[cur'] = "READY"
    <2>1. /\ WellFormed(ready) /\ group = Bitmap(ready)
          /\ Idle \in Thread /\ prio[Idle] \in Prio /\ Contains(ready[prio[Idle]], Idle)
      BY QueuesFacts, IdleQueued
    <2>2. cur' # cur => cur' \in Thread /\ \E q \in Prio : Contains(ready[q], cur')
      BY <1>2, <2>1, ScheduleFacts
    <2> QED BY <2>2, QueuesFacts
  <1>3. ASSUME hardirq[cur] > 0, RtSchedule(ready', group', level, hardirq)
        PROVE  cur' = cur
    BY <1>3 DEF RtSchedule
  <1>4. CASE IdleReap
    <2>1. defunct \in Seq(Thread) /\ defunct # <<>>
      BY <1>4 DEF SchedInv, TypeOK, IdleReap
    <2>2. Head(defunct) \in Thread /\ Contains(defunct, Head(defunct))
      BY <2>1, HeadContains
    <2>3. stat[Head(defunct)] = "CLOSE"
      BY <2>2 DEF SchedInv, DefunctExact
    <2>4. cur' # cur => stat[cur'] = "READY"
      BY <1>2, <1>4 DEF IdleReap
    <2> QED BY <1>0, <1>4, <2>2, <2>3, <2>4 DEF LifeStep, IdleReap
  <1>5. CASE IdleFree
    <2>1. stat[obj[Idle]] = "CLOSE"
      BY <1>0, <1>5 DEF SchedInv, DefunctExact, Freeing, IdleFree, At
    <2> QED BY <1>0, <1>5, <2>1 DEF LifeStep, IdleFree
  <1>6. CASE IrqEnter
    BY <1>1, <1>6 DEF IrqEnter, lists
  <1>7. CASE IrqLeave
    BY <1>2, <1>7 DEF IrqLeave, LifeStep, lists
  <1>8. CASE IrqTick
    <2>1. cur' = cur
      BY <1>8 DEF IrqTick, InIrq, RtSchedule
    <2> QED BY <1>1, <1>8, <2>1 DEF IrqTick
  <1>9. ASSUME NEW u \in Thread, IrqWake(u) PROVE LifeStep
    <2>1. cur' = cur
      BY <1>3, <1>9 DEF IrqWake, InIrq
    <2> QED BY <1>0, <1>9, <2>1 DEF LifeStep, IrqWake, MakeReady, InsertThread
  <1>10. ASSUME NEW u \in Thread, IrqTimeout(u) PROVE LifeStep
    <2>1. cur' = cur /\ stat[u] = "SUSPEND"
      BY <1>3, <1>10 DEF IrqTimeout, InIrq, SchedInv, TimerOnlySuspended
    <2> QED BY <1>0, <1>10, <2>1 DEF LifeStep, IrqTimeout, MakeReady, InsertThread
  <1> QED BY <1>4, <1>5, <1>6, <1>7, <1>8, <1>9, <1>10 DEF IrqNext

(* A closed thread is only ever freed, a freed one only ever created       *)
(* again, and the CPU only ever switches to a READY thread.                *)
THEOREM DeathAlwaysFinal == Discipline => (Spec => DeathIsFinal)
  <1> SUFFICES ASSUME Discipline PROVE Spec => DeathIsFinal
    OBVIOUS
  <1>1. SchedInv /\ [Next]_vars => [LifeStep]_vars
    BY ThreadLife, OtherLife DEF Next
  <1> QED BY <1>1, SchedulerInvariant, PTL DEF Spec, DeathIsFinal

=============================================================================
