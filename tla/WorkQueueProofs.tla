-------------------------- MODULE WorkQueueProofs --------------------------
(***************************************************************************)
(* Proofs about the work queue and the soft timers.  That the marks on the *)
(* works agree with the list holds whoever is more urgent and whoever      *)
(* locks the scheduler; that no pointer dangles and nobody sleeps beside   *)
(* work to do holds for the priorities and the locking that Deployed asks. *)
(***************************************************************************)
EXTENDS WorkQueue, KernelLemmas

WorkerPlaces ==
  {"look", "suspend", "asleep", "take", "work_func", "blocked", "done", "ack"}

TimerPlaces ==
  {"look", "suspend", "asleep", "delay", "enter", "check", "callback", "submit", "called"}

ClientPlaces ==
  {"run", "sync", "synced", "cancel", "pending?", "submitting?", "unqueue", "stop",
   "detach", "attach", "submit", "arm", "start"}

(* Where a client is not within a call for a delayed work                  *)
Outside == {"run", "sync", "synced"}

-----------------------------------------------------------------------------
(* The types and the marks *)

QueueOK ==
  /\ work_list \in Seq(Work) /\ IsInjective(work_list)
  /\ work_current \in Work \cup {None}
  /\ pending \subseteq Work /\ workqueue \subseteq Work
  /\ submitting \subseteq Timers /\ delayed \subseteq Timers
  /\ PendingListed

SoftOK ==
  /\ soft \in Seq(Timers) /\ IsInjective(soft)
  /\ active \subseteq Timers /\ late \subseteq Timers /\ reached \subseteq Timers
  /\ tpc \in TimerPlaces
  /\ n \in Timers \cup {End} /\ t \in Timers \cup {End}
  /\ tpc \in {"callback", "submit"} => t \in Timers

(* A call is about a work, a call for a delayed work about a delayed work. *)
ClientsOK ==
  /\ pc \in [Client -> ClientPlaces]
  /\ work \in [Client -> Work \cup {None}]
  /\ again \subseteq Client /\ ticks \subseteq Client
  /\ \A c \in Client : /\ pc[c] # "run" => work[c] \in Work
                       /\ pc[c] \notin Outside => work[c] \in Timers

CallInv == QueueOK /\ SoftOK /\ ClientsOK /\ wpc \in WorkerPlaces

LEMMA CallInvFlags == CallInv => FlagsExact
  <1> SUFFICES ASSUME CallInv PROVE FlagsExact
    OBVIOUS
  <1>1. SoftTypeOK
    BY DEF CallInv, SoftOK, SoftTypeOK, TimerPlaces
  <1>2. Timers \subseteq Work
    BY WorkQueueAssumption
  <1>3. /\ work_list \in Seq(Work) /\ IsInjective(work_list)
        /\ work_current \in Work \cup {None}
        /\ {pending, delayed, workqueue} \subseteq SUBSET Work /\ submitting \subseteq Timers
    BY <1>2 DEF CallInv, QueueOK
  <1>4. TypeOK
    BY <1>1, <1>3 DEF CallInv, ClientsOK, TypeOK, WorkerPlaces, ClientPlaces
  <1> QED BY <1>4 DEF FlagsExact, CallInv, QueueOK

(* Submitting a work puts it in the list and marks it, unless it is busy.  *)
LEMMA SubmitKeeps ==
  ASSUME QueueOK, wpc \in WorkerPlaces, NEW w \in Work, Submit(w)
  PROVE  /\ QueueOK' /\ wpc' \in WorkerPlaces
         /\ UNCHANGED <<work_current, submitting, delayed, workqueue>>
         /\ wpc' = wpc \/ (wpc = "asleep" /\ wpc' = "take" /\ work_list' # <<>>)
         /\ wpc = "asleep" /\ work_current = None => wpc' = "take" \/ w \in pending
         /\ \/ UNCHANGED <<work_list, pending>>
            \/ /\ pending' = pending \cup {w} /\ work_list' # <<>>
               /\ \A x : Contains(work_list', x) <=> Contains(work_list, x) \/ x = w
  <1>1. CASE w \in pending \/ work_current = w
    <2>1. UNCHANGED <<queuevars, wpc>>
      BY <1>1 DEF Submit
    <2>2. None \notin Work
      BY WorkQueueAssumption
    <2> QED BY <1>1, <2>1, <2>2 DEF queuevars, QueueOK, PendingListed
  <1>2. CASE ~(w \in pending \/ work_current = w)
    <2> DEFINE q == RemoveFirst(work_list, w)
               r == Append(q, w)
    <2>1. /\ work_list' = r /\ pending' = pending \cup {w}
          /\ wpc' = IF work_current = None THEN WorkerResumed ELSE wpc
          /\ UNCHANGED <<work_current, submitting, delayed, workqueue>>
      BY <1>2 DEF Submit
    <2>2. /\ q \in Seq(Work) /\ IsInjective(q)
          /\ \A x : Contains(q, x) <=> Contains(work_list, x) /\ x # w
      BY RemoveContains DEF QueueOK
    <2> HIDE DEF q
    <2>3. /\ r \in Seq(Work) /\ r # <<>> /\ IsInjective(r)
          /\ \A x : Contains(r, x) <=> Contains(q, x) \/ x = w
      BY <2>2, AppendContains
    <2> HIDE DEF r
    <2>4. \A x : Contains(work_list', x) <=> Contains(work_list, x) \/ x = w
      BY <2>1, <2>2, <2>3
    <2>5. QueueOK'
      BY <2>1, <2>3, <2>4 DEF QueueOK, PendingListed
    <2>6. /\ wpc' \in WorkerPlaces
          /\ wpc' = wpc \/ (wpc = "asleep" /\ wpc' = "take" /\ work_list' # <<>>)
          /\ wpc = "asleep" /\ work_current = None => wpc' = "take"
      BY <2>1, <2>3 DEF WorkerResumed, WorkerPlaces
    <2> QED BY <2>1, <2>3, <2>4, <2>5, <2>6
  <1> QED BY <1>1, <1>2

LEMMA UnqueueKeeps ==
  ASSUME QueueOK, NEW w \in Work, Unqueue(w)
  PROVE  /\ QueueOK'
         /\ \A x : Contains(work_list', x) <=> Contains(work_list, x) /\ x # w
         /\ pending' = pending \ {w}
         /\ UNCHANGED <<work_current, submitting, delayed, workqueue>>
  <1>1. /\ work_list' = RemoveFirst(work_list, w) /\ pending' = pending \ {w}
        /\ UNCHANGED <<work_current, submitting, delayed, workqueue>>
    BY DEF Unqueue
  <1>2. /\ work_list' \in Seq(Work) /\ IsInjective(work_list')
        /\ \A x : Contains(work_list', x) <=> Contains(work_list, x) /\ x # w
    BY <1>1, RemoveContains DEF QueueOK
  <1> QED BY <1>1, <1>2 DEF QueueOK, PendingListed

(* The worker takes the first work off the list.                           *)
LEMMA TakeKeeps ==
  ASSUME QueueOK, WorkerTake
  PROVE  /\ QueueOK' /\ Head(work_list) \in Work /\ Contains(work_list, Head(work_list))
         /\ \A x : Contains(work_list', x) <=> Contains(work_list, x) /\ x # Head(work_list)
         /\ pending' = pending \ {Head(work_list)}
         /\ workqueue' = workqueue \ {Head(work_list)}
         /\ work_current' = Head(work_list) /\ wpc' = "work_func"
         /\ UNCHANGED <<submitting, delayed, clientvars>>
  <1>1. /\ work_list # <<>> /\ work_list' = Tail(work_list)
        /\ pending' = pending \ {Head(work_list)}
        /\ workqueue' = workqueue \ {Head(work_list)}
        /\ work_current' = Head(work_list) /\ wpc' = "work_func"
        /\ UNCHANGED <<submitting, delayed, clientvars>>
    BY DEF WorkerTake
  <1>2. Head(work_list) \in Work /\ Contains(work_list, Head(work_list))
    BY <1>1, HeadContains DEF QueueOK
  <1>3. /\ work_list' \in Seq(Work) /\ IsInjective(work_list')
        /\ \A x : Contains(work_list', x) <=> Contains(work_list, x) /\ x # Head(work_list)
    BY <1>1, TailContains DEF QueueOK
  <1> QED BY <1>1, <1>2, <1>3 DEF QueueOK, PendingListed

-----------------------------------------------------------------------------
(* The soft timers *)

(* node->next of a node in the list is the head or another node of it.     *)
LEMMA NextNodeListed ==
  ASSUME SoftOK, NEW m \in Timers
  PROVE  /\ NextNode(m) \in Timers \cup {End}
         /\ Contains(soft, m) =>
              NextNode(m) = End \/ (Contains(soft, NextNode(m)) /\ NextNode(m) # m)
  <1> DEFINE I == {k \in 1 .. Len(soft) : soft[k] = m}
             i == SelectInSeq(soft, LAMBDA u : u = m)
  <1>0. /\ soft \in Seq(Timers) /\ Len(soft) \in Nat /\ DOMAIN soft = 1 .. Len(soft)
        /\ IsInjective(soft)
    BY DEF SoftOK
  <1>1. i = IF I # {} THEN Min(I) ELSE 0
    BY DEF SelectInSeq
  <1>2. NextNode(m) = IF i = 0 THEN m ELSE IF i = Len(soft) THEN End ELSE soft[i + 1]
    BY DEF NextNode
  <1>3. I # {} => Min(I) \in I
    <2>1. I \in SUBSET Nat
      BY <1>0
    <2> QED BY <2>1, MinNat
  <1>4. i # 0 => i \in 1 .. Len(soft) /\ soft[i] = m
    BY <1>1, <1>3
  <1>5. Contains(soft, m) => i # 0
    BY <1>0, <1>1, <1>3 DEF Contains
  <1> HIDE DEF I, i
  <1>6. CASE i = 0
    BY <1>2, <1>5, <1>6
  <1>7. CASE i = Len(soft) /\ i # 0
    BY <1>2, <1>7
  <1>8. CASE i # Len(soft) /\ i # 0
    <2>1. /\ i \in 1 .. Len(soft) /\ i + 1 \in 1 .. Len(soft) /\ i + 1 # i
          /\ soft[i] = m /\ NextNode(m) = soft[i + 1]
      BY <1>0, <1>2, <1>4, <1>8
    <2>2. soft[i + 1] \in Timers /\ soft[i + 1] # soft[i] /\ Contains(soft, soft[i + 1])
      BY <1>0, <2>1 DEF IsInjective, Contains
    <2> QED BY <2>1, <2>2
  <1> QED BY <1>6, <1>7, <1>8

LEMMA FirstNodeListed ==
  ASSUME SoftOK
  PROVE  FirstNode \in Timers \cup {End} /\ (FirstNode = End \/ Contains(soft, FirstNode))
  <1>1. soft # <<>> => Head(soft) \in Timers /\ Contains(soft, Head(soft))
    BY HeadContains DEF SoftOK
  <1> QED BY <1>1 DEF FirstNode

(* rt_timer_start puts the timer in the list, once, and wakes the thread.  *)
LEMMA SoftStartKeeps ==
  ASSUME SoftOK, NEW u \in Timers, SoftStart(u)
  PROVE  /\ SoftOK' /\ soft' # <<>>
         /\ \A x : Contains(soft', x) <=> Contains(soft, x) \/ x = u
         /\ tpc' = TimerThreadResumed
         /\ UNCHANGED <<n, t>>
  <1> DEFINE s == RemoveFirst(soft, u)
  <1>1. /\ s \in Seq(Timers) /\ IsInjective(s)
        /\ \A x : Contains(s, x) <=> Contains(soft, x) /\ x # u
    BY RemoveContains DEF SoftOK
  <1>2. /\ \E i \in 1 .. Len(s) + 1 : soft' = InsertAt(s, i, u)
        /\ active' = active \cup {u} /\ late' = late \ {u} /\ reached' = reached \ {u}
        /\ tpc' = TimerThreadResumed /\ UNCHANGED <<n, t>>
    BY DEF SoftStart
  <1> HIDE DEF s
  <1>3. PICK i \in 1 .. Len(s) + 1 : soft' = InsertAt(s, i, u)
    BY <1>2
  <1>4. InsertAt(s, i, u) \in Seq(Timers)
    BY <1>1, InsertContains
  <1>5. /\ \A x : Contains(InsertAt(s, i, u), x) <=> Contains(s, x) \/ x = u
        /\ IsInjective(InsertAt(s, i, u))
    BY <1>1, InsertContains, Zenon
  <1>6. \A x : Contains(soft', x) <=> Contains(soft, x) \/ x = u
    BY <1>1, <1>3, <1>5
  <1>7. soft' # <<>>
    <2>1. soft' \in Seq(Timers) /\ Contains(soft', u)
      BY <1>3, <1>4, <1>6
    <2> QED BY <2>1, EmptyContains
  <1>8. tpc' \in TimerPlaces /\ (tpc' \in {"callback", "submit"} => tpc' = tpc)
    BY <1>2 DEF TimerThreadResumed, SoftOK, TimerPlaces
  <1>9. SoftOK'
    BY <1>2, <1>3, <1>4, <1>5, <1>8 DEF SoftOK
  <1> QED BY <1>2, <1>6, <1>7, <1>9

LEMMA SoftStopKeeps ==
  ASSUME SoftOK, NEW u \in Timers, SoftStop(u)
  PROVE  /\ SoftOK' /\ UNCHANGED <<tpc, n, t>>
         /\ \A x : Contains(soft', x) <=> Contains(soft, x) /\ x # u
  <1>1. /\ soft' = RemoveFirst(soft, u) /\ active' = active \ {u}
        /\ UNCHANGED <<late, tpc, n, reached, t>>
    BY DEF SoftStop
  <1>2. /\ soft' \in Seq(Timers) /\ IsInjective(soft')
        /\ \A x : Contains(soft', x) <=> Contains(soft, x) /\ x # u
    BY <1>1, RemoveContains DEF SoftOK
  <1> QED BY <1>1, <1>2 DEF SoftOK

(* The walk takes a timer off the list and keeps the node after it.        *)
LEMMA PickKeeps ==
  ASSUME SoftOK, CheckPick
  PROVE  /\ SoftOK' /\ n \in Timers /\ tpc = "check" /\ tpc' = "callback" /\ t' = n
         /\ \A x : Contains(soft', x) <=> Contains(soft, x) /\ x # n
         /\ Contains(soft, n) => n' = End \/ Contains(soft', n')
  <1>1. /\ tpc = "check" /\ n \in reached /\ tpc' = "callback" /\ t' = n
        /\ n' = NextNode(n) /\ soft' = RemoveFirst(soft, n) /\ reached' = {}
        /\ UNCHANGED <<active, late>>
    BY DEF CheckPick
  <1>2. n \in Timers
    BY <1>1 DEF SoftOK
  <1>3. /\ soft' \in Seq(Timers) /\ IsInjective(soft')
        /\ \A x : Contains(soft', x) <=> Contains(soft, x) /\ x # n
    BY <1>1, RemoveContains DEF SoftOK
  <1>4. /\ n' \in Timers \cup {End}
        /\ Contains(soft, n) => n' = End \/ (Contains(soft, n') /\ n' # n)
    BY <1>1, <1>2, NextNodeListed
  <1>5. SoftOK'
    BY <1>1, <1>2, <1>3, <1>4 DEF SoftOK, TimerPlaces
  <1> QED BY <1>1, <1>2, <1>3, <1>4, <1>5

LEMMA TimerThreadKeeps ==
  ASSUME SoftOK, TimerThread
  PROVE  SoftOK'
  <1>1. CASE TimerLook
    BY <1>1 DEF TimerLook, SoftOK, TimerPlaces
  <1>2. CASE TimerSuspend
    BY <1>2 DEF TimerSuspend, SoftOK, TimerPlaces
  <1>3. CASE CheckEnter
    BY <1>3, FirstNodeListed DEF CheckEnter, SoftOK, TimerPlaces
  <1>4. CASE CheckPick
    BY <1>4, PickKeeps
  <1>5. CASE CheckNext
    BY <1>5 DEF CheckNext, SoftOK, TimerPlaces
  <1>6. CASE CheckLeave
    BY <1>6 DEF CheckLeave, SoftOK, TimerPlaces
  <1> QED BY <1>1, <1>2, <1>3, <1>4, <1>5, <1>6 DEF TimerThread

LEMMA ClockKeeps ==
  ASSUME SoftOK, Elapse \/ DelayEnds
  PROVE  SoftOK' /\ UNCHANGED <<soft, n, t>> /\ (tpc' = tpc \/ (tpc = "delay" /\ tpc' = "enter"))
  <1>1. CASE Elapse
    <2>1. \E i \in DOMAIN soft : late' = late \cup {soft[i]}
      BY <1>1 DEF Elapse
    <2>2. late' \subseteq Timers
      BY <2>1 DEF SoftOK
    <2> QED BY <1>1, <2>2 DEF Elapse, SoftOK
  <1>2. CASE DelayEnds
    BY <1>2 DEF DelayEnds, SoftOK, TimerPlaces
  <1> QED BY <1>1, <1>2

-----------------------------------------------------------------------------
(* Every step keeps the types and the marks *)

(* A client moves on, to another place, work or both.                      *)
LEMMA ClientMoves ==
  ASSUME ClientsOK, NEW c \in Client, NEW at \in ClientPlaces, NEW w \in Work \cup {None},
         pc' = [pc EXCEPT ![c] = at], work' = [work EXCEPT ![c] = w],
         at # "run" => w \in Work, at \notin Outside => w \in Timers,
         again' \subseteq Client, ticks' \subseteq Client
  PROVE  /\ ClientsOK' /\ pc'[c] = at /\ work'[c] = w
         /\ \A d \in Client : d # c => pc'[d] = pc[d] /\ work'[d] = work[d]
  <1>1. /\ pc' \in [Client -> ClientPlaces] /\ work' \in [Client -> Work \cup {None}]
        /\ pc'[c] = at /\ work'[c] = w
        /\ \A d \in Client : d # c => pc'[d] = pc[d] /\ work'[d] = work[d]
    BY DEF ClientsOK
  <1>2. ASSUME NEW d \in Client
        PROVE  /\ pc'[d] # "run" => work'[d] \in Work
               /\ pc'[d] \notin Outside => work'[d] \in Timers
    BY <1>1 DEF ClientsOK
  <1>3. ClientsOK'
    BY <1>1, <1>2 DEF ClientsOK
  <1> QED BY <1>1, <1>3

LEMMA ClientGoes ==
  ASSUME ClientsOK, NEW c \in Client, NEW at \in ClientPlaces \ Outside,
         work[c] \in Timers, Goes(c, at), work' = work,
         again' \subseteq Client, ticks' \subseteq Client
  PROVE  /\ ClientsOK' /\ pc'[c] = at /\ work'[c] = work[c]
         /\ \A d \in Client : d # c => pc'[d] = pc[d] /\ work'[d] = work[d]
  <1>1. work' = [work EXCEPT ![c] = work[c]] /\ work[c] \in Work
    BY WorkQueueAssumption DEF ClientsOK
  <1>2. pc' = [pc EXCEPT ![c] = at]
    BY DEF Goes
  <1>3. at \in ClientPlaces /\ at \notin Outside /\ work[c] \in Work \cup {None}
    BY <1>1
  <1> QED BY <1>1, <1>2, <1>3, ClientMoves

LEMMA ClientCalls ==
  ASSUME ClientsOK, NEW c \in Client, NEW at \in ClientPlaces \ {"run"}, NEW w \in Work,
         at \notin Outside => w \in Timers, Call(c, w, at),
         again' \subseteq Client, ticks' \subseteq Client
  PROVE  /\ ClientsOK' /\ pc'[c] = at /\ work'[c] = w
         /\ \A d \in Client : d # c => pc'[d] = pc[d] /\ work'[d] = work[d]
  BY ClientMoves DEF Call, Goes

LEMMA ClientReturns ==
  ASSUME ClientsOK, NEW c \in Client, Return(c)
  PROVE  /\ ClientsOK' /\ pc'[c] = "run"
         /\ \A d \in Client : d # c => pc'[d] = pc[d] /\ work'[d] = work[d]
  <1>1. /\ pc' = [pc EXCEPT ![c] = "run"] /\ work' = [work EXCEPT ![c] = None]
        /\ again' \subseteq Client /\ ticks' \subseteq Client
    BY DEF Return, Goes, ClientsOK
  <1>2. "run" \in ClientPlaces /\ "run" \in Outside
    BY DEF ClientPlaces, Outside
  <1> QED BY <1>1, <1>2, ClientMoves

(* The semaphore wakes every client that waits for the running work.       *)
LEMMA AckKeeps ==
  ASSUME ClientsOK, WorkerAck
  PROVE  /\ ClientsOK'
         /\ \A c \in Client : /\ work'[c] = work[c]
                              /\ pc'[c] = IF pc[c] = "sync" THEN "synced" ELSE pc[c]
  <1>1. /\ pc' = [c \in Client |-> IF pc[c] = "sync" THEN "synced" ELSE pc[c]]
        /\ UNCHANGED <<work, again, ticks>>
    BY DEF WorkerAck
  <1>2. "synced" \in ClientPlaces /\ {"sync", "synced"} \subseteq Outside
    BY DEF ClientPlaces, Outside
  <1>3. pc' \in [Client -> ClientPlaces]
    BY <1>1, <1>2 DEF ClientsOK
  <1>4. \A c \in Client : pc'[c] = IF pc[c] = "sync" THEN "synced" ELSE pc[c]
    BY <1>1
  <1> QED BY <1>1, <1>2, <1>3, <1>4 DEF ClientsOK

LEMMA WorkerKeeps ==
  ASSUME CallInv, Worker
  PROVE  CallInv'
  <1>0. UNCHANGED softvars /\ SoftOK'
    BY DEF Worker, CallInv, softvars, SoftOK
  <1>1. CASE WorkerLook \/ WorkerSuspend \/ WorkFunc
    <2>1. UNCHANGED <<queuevars, clientvars>> /\ wpc' \in WorkerPlaces
      BY <1>1 DEF WorkerLook, WorkerSuspend, WorkFunc, WorkerPlaces
    <2> QED BY <1>0, <2>1
            DEF CallInv, queuevars, clientvars, QueueOK, PendingListed, ClientsOK
  <1>2. CASE WorkerTake
    <2>1. QueueOK' /\ wpc' = "work_func" /\ UNCHANGED clientvars
      BY <1>2, TakeKeeps DEF CallInv
    <2> QED BY <1>0, <2>1 DEF CallInv, clientvars, ClientsOK, WorkerPlaces
  <1>3. CASE WorkerClean
    <2>1. /\ wpc' = "ack" /\ work_current' = None
          /\ UNCHANGED <<work_list, pending, submitting, delayed, workqueue, clientvars>>
      BY <1>3 DEF WorkerClean
    <2> QED BY <1>0, <2>1
            DEF CallInv, clientvars, QueueOK, PendingListed, ClientsOK, WorkerPlaces
  <1>4. CASE WorkerAck
    <2>1. ClientsOK'
      BY <1>4, AckKeeps DEF CallInv
    <2> QED BY <1>0, <1>4, <2>1
            DEF CallInv, WorkerAck, queuevars, QueueOK, PendingListed, WorkerPlaces
  <1> QED BY <1>1, <1>2, <1>3, <1>4 DEF Worker

LEMMA HandlerStopKeeps ==
  ASSUME CallInv, HandlerStop
  PROVE  /\ CallInv' /\ tpc = "callback" /\ tpc' = "submit" /\ t \in Timers
         /\ \A x : Contains(soft', x) <=> Contains(soft, x) /\ x # t
         /\ submitting' = submitting \ {t}
         /\ UNCHANGED <<n, t, work_list, work_current, pending, workqueue, wpc, clientvars>>
  <1>1. /\ tpc = "callback" /\ tpc' = "submit" /\ active' = active \ {t}
        /\ soft' = RemoveFirst(soft, t)
        /\ submitting' = submitting \ {t} /\ delayed' = delayed \ {t}
        /\ UNCHANGED <<late, n, reached, t, work_list, work_current, pending, workqueue,
                       wpc, clientvars>>
    BY DEF HandlerStop
  <1>2. t \in Timers
    BY <1>1 DEF CallInv, SoftOK
  <1>3. /\ soft' \in Seq(Timers) /\ IsInjective(soft')
        /\ \A x : Contains(soft', x) <=> Contains(soft, x) /\ x # t
    BY <1>1, RemoveContains DEF CallInv, SoftOK
  <1>4. SoftOK'
    BY <1>1, <1>2, <1>3 DEF CallInv, SoftOK, TimerPlaces
  <1>5. QueueOK' /\ ClientsOK' /\ wpc' \in WorkerPlaces
    BY <1>1 DEF CallInv, QueueOK, PendingListed, ClientsOK, clientvars
  <1> QED BY <1>1, <1>2, <1>3, <1>4, <1>5 DEF CallInv

LEMMA HandlerSubmitKeeps ==
  ASSUME CallInv, HandlerSubmit
  PROVE  /\ CallInv' /\ tpc = "submit" /\ tpc' = "called" /\ t \in Timers /\ Submit(t)
         /\ UNCHANGED <<soft, n, t, clientvars>>
  <1>1. /\ tpc = "submit" /\ tpc' = "called" /\ Submit(t)
        /\ UNCHANGED <<soft, active, late, n, reached, t, clientvars>>
    BY DEF HandlerSubmit
  <1>2. t \in Timers /\ t \in Work
    BY <1>1, WorkQueueAssumption DEF CallInv, SoftOK
  <1>3. QueueOK' /\ wpc' \in WorkerPlaces
    BY <1>1, <1>2, SubmitKeeps DEF CallInv
  <1>4. SoftOK' /\ ClientsOK'
    BY <1>1 DEF CallInv, SoftOK, TimerPlaces, ClientsOK, clientvars
  <1> QED BY <1>1, <1>2, <1>3, <1>4 DEF CallInv

LEMMA TimerStepKeeps ==
  ASSUME CallInv, TimerStep
  PROVE  CallInv'
  <1>1. CASE TimerThread /\ UNCHANGED <<queuevars, wpc, clientvars>>
    BY <1>1, TimerThreadKeeps
       DEF CallInv, queuevars, clientvars, QueueOK, PendingListed, ClientsOK
  <1>2. CASE HandlerStop
    BY <1>2, HandlerStopKeeps
  <1>3. CASE HandlerSubmit
    BY <1>3, HandlerSubmitKeeps
  <1> QED BY <1>1, <1>2, <1>3 DEF TimerStep

LEMMA BeginKeeps ==
  ASSUME CallInv, NEW c \in Client, NEW w \in Work,
         SubmitWork(c, w) \/ CancelWork(c, w) \/ CancelSync(c, w)
           \/ SubmitDelayed(c, w) \/ CancelDelayed(c, w)
  PROVE  CallInv'
  <1>0. UNCHANGED softvars /\ SoftOK'
    BY DEF SubmitWork, CancelWork, CancelSync, SubmitDelayed, CancelDelayed, CallInv,
           softvars, SoftOK
  <1>1. CASE SubmitWork(c, w)
    <2>1. Submit(w) /\ UNCHANGED clientvars
      BY <1>1 DEF SubmitWork
    <2>2. QueueOK' /\ wpc' \in WorkerPlaces
      BY <2>1, SubmitKeeps DEF CallInv
    <2> QED BY <1>0, <2>1, <2>2 DEF CallInv, clientvars, ClientsOK
  <1>2. CASE CancelWork(c, w)
    <2>1. Unqueue(w) /\ UNCHANGED <<wpc, clientvars>>
      BY <1>2 DEF CancelWork
    <2>2. QueueOK'
      BY <2>1, UnqueueKeeps DEF CallInv
    <2> QED BY <1>0, <2>1, <2>2 DEF CallInv, clientvars, ClientsOK
  <1>3. CASE CancelSync(c, w)
    <2>1. ASSUME work_current = w PROVE CallInv'
      <3>1. Call(c, w, "sync") /\ UNCHANGED <<queuevars, wpc, again, ticks>>
        BY <1>3, <2>1 DEF CancelSync
      <3>2. ClientsOK'
        BY <3>1, ClientCalls DEF CallInv, ClientsOK, ClientPlaces, Outside
      <3> QED BY <1>0, <3>1, <3>2 DEF CallInv, queuevars, QueueOK, PendingListed
    <2>2. ASSUME work_current # w PROVE CallInv'
      <3>1. Unqueue(w) /\ UNCHANGED <<wpc, clientvars>>
        BY <1>3, <2>2 DEF CancelSync
      <3>2. QueueOK'
        BY <3>1, UnqueueKeeps DEF CallInv
      <3> QED BY <1>0, <3>1, <3>2 DEF CallInv, clientvars, ClientsOK
    <2> QED BY <2>1, <2>2
  <1>4. CASE SubmitDelayed(c, w)
    <2>1. /\ w \in Timers
          /\ UNCHANGED <<work_list, work_current, pending, submitting, workqueue, wpc>>
          /\ delayed' \in {delayed, delayed \cup {w}} /\ ticks' \in {ticks, ticks \cup {c}}
          /\ \/ Call(c, w, "cancel") /\ again' = again \cup {c}
             \/ Call(c, w, "attach") /\ again' = again
      BY <1>4 DEF SubmitDelayed
    <2>2. again' \subseteq Client /\ ticks' \subseteq Client
      BY <2>1 DEF CallInv, ClientsOK
    <2>3. ClientsOK'
      BY <2>1, <2>2, ClientCalls DEF CallInv, ClientPlaces
    <2>4. QueueOK'
      BY <2>1 DEF CallInv, QueueOK, PendingListed
    <2> QED BY <1>0, <2>1, <2>3, <2>4 DEF CallInv
  <1>5. CASE CancelDelayed(c, w)
    <2>1. /\ w \in Timers /\ Call(c, w, "cancel")
          /\ UNCHANGED <<queuevars, wpc, again, ticks>>
      BY <1>5 DEF CancelDelayed, CallInv, QueueOK
    <2>2. ClientsOK'
      BY <2>1, ClientCalls DEF CallInv, ClientsOK, ClientPlaces
    <2> QED BY <1>0, <2>1, <2>2 DEF CallInv, queuevars, QueueOK, PendingListed
  <1> QED BY <1>1, <1>2, <1>3, <1>4, <1>5

LEMMA GoOnKeeps ==
  ASSUME CallInv, NEW c \in Client, GoOn(c)
  PROVE  CallInv'
  <1>0. /\ work[c] \in Timers => work[c] \in Work
        /\ pc[c] \notin Outside => work[c] \in Timers
        /\ pc[c] # "run" => work[c] \in Work
        /\ again \subseteq Client /\ ticks \subseteq Client /\ ClientsOK
    BY WorkQueueAssumption DEF CallInv, ClientsOK
  <1>1. CASE CancelSynced(c)
    <2>1. /\ pending' = pending \ {work[c]} /\ Return(c)
          /\ UNCHANGED <<softvars, work_list, work_current, submitting, delayed, workqueue, wpc>>
      BY <1>1 DEF CancelSynced
    <2>2. ClientsOK'
      BY <1>0, <2>1, ClientReturns
    <2> QED BY <2>1, <2>2 DEF CallInv, softvars, SoftOK, QueueOK, PendingListed
  <1>2. CASE CancelLook(c)
    <2>1. /\ work[c] \in Timers /\ UNCHANGED <<softvars, queuevars, wpc>>
          /\ \/ Return(c)
             \/ /\ \E at \in ClientPlaces \ Outside : Goes(c, at)
                /\ UNCHANGED <<work, again, ticks>>
      BY <1>0, <1>2 DEF CancelLook, ClientPlaces, Outside
    <2>2. ClientsOK'
      BY <1>0, <2>1, ClientReturns, ClientGoes
    <2> QED BY <2>1, <2>2
            DEF CallInv, softvars, queuevars, SoftOK, QueueOK, PendingListed
  <1>3. CASE CancelUnqueue(c)
    <2>1. pc[c] = "unqueue" /\ work[c] \in Timers /\ UNCHANGED <<softvars, wpc>>
      BY <1>0, <1>3 DEF CancelUnqueue, Outside
    <2>2. \/ Return(c) /\ UNCHANGED queuevars
          \/ Unqueue(work[c]) /\ Goes(c, "detach") /\ UNCHANGED <<work, again, ticks>>
      BY <1>3 DEF CancelUnqueue
    <2>3. ClientsOK'
      BY <1>0, <2>1, <2>2, ClientReturns, ClientGoes DEF ClientPlaces, Outside
    <2>4. QueueOK'
      BY <1>0, <2>1, <2>2, UnqueueKeeps DEF CallInv, queuevars, QueueOK, PendingListed
    <2> QED BY <2>1, <2>3, <2>4 DEF CallInv, softvars, SoftOK
  <1>4. CASE CancelStop(c)
    <2>1. /\ pc[c] = "stop" /\ work[c] \in Timers /\ SoftStop(work[c])
          /\ submitting' = submitting \ {work[c]} /\ Goes(c, "detach")
          /\ UNCHANGED <<work_list, work_current, pending, delayed, workqueue, wpc, work,
                         again, ticks>>
      BY <1>0, <1>4 DEF CancelStop, Outside
    <2>2. ClientsOK'
      BY <1>0, <2>1, ClientGoes DEF ClientPlaces, Outside
    <2>3. SoftOK'
      BY <2>1, SoftStopKeeps DEF CallInv
    <2> QED BY <2>1, <2>2, <2>3 DEF CallInv, QueueOK, PendingListed
  <1>5. CASE CancelDetach(c)
    <2>1. /\ pc[c] = "detach" /\ work[c] \in Timers
          /\ workqueue' = workqueue \ {work[c]} /\ pending' = pending \ {work[c]}
          /\ UNCHANGED <<softvars, work_list, work_current, submitting, delayed, wpc>>
      BY <1>0, <1>5 DEF CancelDetach, Outside
    <2>2. \/ Return(c)
          \/ Goes(c, "attach") /\ again' = again \ {c} /\ UNCHANGED <<work, ticks>>
      BY <1>5 DEF CancelDetach
    <2>3. ClientsOK'
      BY <1>0, <2>1, <2>2, ClientReturns, ClientGoes DEF ClientPlaces, Outside
    <2> QED BY <2>1, <2>3 DEF CallInv, softvars, SoftOK, QueueOK, PendingListed
  <1>6. CASE Attach(c)
    <2>1. /\ pc[c] = "attach" /\ work[c] \in Timers /\ work[c] \in Work
          /\ workqueue' = workqueue \cup {work[c]}
          /\ Goes(c, "arm") \/ Goes(c, "submit")
          /\ UNCHANGED <<softvars, work_list, work_current, pending, submitting, delayed, wpc,
                         work, again, ticks>>
      BY <1>0, <1>6 DEF Attach, Outside
    <2>2. ClientsOK'
      BY <1>0, <2>1, ClientGoes DEF ClientPlaces, Outside
    <2> QED BY <2>1, <2>2 DEF CallInv, softvars, SoftOK, QueueOK, PendingListed
  <1>7. CASE SubmitNow(c)
    <2>1. /\ work[c] \in Work /\ Submit(work[c]) /\ Return(c) /\ UNCHANGED softvars
      BY <1>0, <1>7 DEF SubmitNow
    <2>2. ClientsOK' /\ QueueOK' /\ wpc' \in WorkerPlaces
      BY <1>0, <2>1, ClientReturns, SubmitKeeps DEF CallInv
    <2> QED BY <2>1, <2>2 DEF CallInv, softvars, SoftOK
  <1>8. CASE Arm(c)
    <2>1. /\ pc[c] = "arm" /\ work[c] \in Timers
          /\ submitting' = submitting \cup {work[c]} /\ active' = active \ {work[c]}
          /\ Goes(c, "start")
          /\ UNCHANGED <<soft, late, tpc, n, reached, t, work_list, work_current, pending,
                         delayed, workqueue, wpc, work, again, ticks>>
      BY <1>0, <1>8 DEF Arm, Outside
    <2>2. ClientsOK'
      BY <1>0, <2>1, ClientGoes DEF ClientPlaces, Outside
    <2> QED BY <2>1, <2>2 DEF CallInv, SoftOK, QueueOK, PendingListed
  <1>9. CASE StartTimer(c)
    <2>1. /\ pc[c] = "start" /\ work[c] \in Timers /\ SoftStart(work[c]) /\ Return(c)
          /\ UNCHANGED <<queuevars, wpc>>
      BY <1>0, <1>9 DEF StartTimer, Outside
    <2>2. ClientsOK' /\ SoftOK'
      BY <1>0, <2>1, ClientReturns, SoftStartKeeps DEF CallInv
    <2> QED BY <2>1, <2>2 DEF CallInv, queuevars, QueueOK, PendingListed
  <1> QED BY <1>1, <1>2, <1>3, <1>4, <1>5, <1>6, <1>7, <1>8, <1>9 DEF GoOn

LEMMA CallInvInit == Init => CallInv
  <1> SUFFICES ASSUME Init PROVE CallInv
    OBVIOUS
  <1>1. QueueOK
    BY DEF Init, QueueOK, PendingListed, IsInjective
  <1>2. SoftOK
    BY DEF Init, SoftInit, SoftOK, TimerPlaces, IsInjective
  <1>3. ClientsOK
    BY DEF Init, ClientsOK, ClientPlaces, Outside
  <1> QED BY <1>1, <1>2, <1>3 DEF Init, CallInv, WorkerPlaces

LEMMA CallInvNext == CallInv /\ [Next]_vars => CallInv'
  <1> SUFFICES ASSUME CallInv, [Next]_vars PROVE CallInv'
    OBVIOUS
  <1>1. CASE Worker
    BY <1>1, WorkerKeeps
  <1>2. CASE TimerStep
    BY <1>2, TimerStepKeeps
  <1>3. CASE Unblock
    BY <1>3 DEF Unblock, CallInv, softvars, queuevars, clientvars, SoftOK, QueueOK,
                PendingListed, ClientsOK, WorkerPlaces
  <1>4. CASE Clock
    <2>1. (Elapse \/ DelayEnds) /\ UNCHANGED <<queuevars, wpc, clientvars>>
      BY <1>4 DEF Clock
    <2>2. SoftOK'
      BY <2>1, ClockKeeps DEF CallInv
    <2> QED BY <2>1, <2>2
            DEF CallInv, queuevars, clientvars, QueueOK, PendingListed, ClientsOK
  <1>5. ASSUME NEW c \in Client, Begin(c) PROVE CallInv'
    BY <1>5, BeginKeeps DEF Begin
  <1>6. ASSUME NEW c \in Client, GoOn(c) PROVE CallInv'
    BY <1>6, GoOnKeeps
  <1>7. CASE UNCHANGED vars
    BY <1>7 DEF vars, CallInv, softvars, queuevars, clientvars, SoftOK, QueueOK,
                PendingListed, ClientsOK
  <1> QED BY <1>1, <1>2, <1>3, <1>4, <1>5, <1>6, <1>7 DEF Next

(* CallInv is an invariant of the work queue, whoever is more urgent.      *)
THEOREM WorkQueueInvariant == Spec => []CallInv
  BY CallInvInit, CallInvNext, PTL DEF Spec

(* No interleaving of _workqueue_submit_work, the cancels, the timeout     *)
(* handler and the worker marks a work as pending that is not in the list, *)
(* or lists one twice: a submit that is refused as busy is for a work that *)
(* runs or will run.                                                       *)
THEOREM WorkQueueFlags == Spec => []FlagsExact
  BY WorkQueueInvariant, CallInvFlags, PTL

-----------------------------------------------------------------------------
(* The deployment that the queue is safe in *)

(* The worker is more urgent than the timer thread and this one than every *)
(* client, no interrupt handler submits, no work is submitted now with a   *)
(* delay and now without, and whoever submits or cancels delayed works     *)
(* locks the scheduler for the call.                                       *)
Deployed ==
  /\ Irq = {} /\ Mixed = {}
  /\ Rank["worker"] < Rank["timer"]
  /\ \A c \in Client :
       /\ Rank["timer"] < Rank[c]
       /\ (Submits[c] \cup Cancels[c]) \cap Timers # {} => c \in Locking

(* Within a call for a delayed work                                        *)
Busy(c) == pc[c] \notin Outside

(* One party at a time: while a client is within a call nobody else is,    *)
(* and the worker and the timer thread are where they cannot see the work. *)
Turns ==
  /\ \A c \in Client : Busy(c) =>
       /\ c \in Locking
       /\ tpc \in {"asleep", "delay", "enter"} /\ wpc \in {"asleep", "blocked", "done"}
       /\ \A d \in Client : Busy(d) => d = c
  /\ wpc \in {"take", "suspend"} => tpc # "check"

(* What the worker and the timer thread saw in their lists still holds.    *)
Sleeps ==
  /\ wpc \in {"suspend", "asleep"} => work_list = <<>>
  /\ wpc = "take" => work_list # <<>>
  /\ tpc \in {"suspend", "asleep"} => soft = <<>>
  /\ work_current # None <=> wpc \in {"work_func", "blocked", "done"}

Armed(u) ==
  \/ Contains(soft, u) \/ (tpc = "callback" /\ t = u)
  \/ \E c \in Client : pc[c] = "start" /\ work[c] = u

(* A delayed work has its queue as long as it is listed or its timer is    *)
(* armed, and never both.                                                  *)
Marks ==
  \A u \in Timers :
    /\ Contains(work_list, u) => u \in pending
    /\ u \in pending => u \in workqueue /\ u \notin submitting
    /\ u \in submitting => u \in workqueue
    /\ u \in submitting <=> Armed(u)

Handler ==
  /\ tpc = "callback" => ~Contains(soft, t)
  /\ tpc = "submit" => t \in workqueue /\ t \notin pending /\ t \notin submitting

(* What a client has established at each step of its call                  *)
Phase ==
  \A c \in Client :
    /\ pc[c] \in {"sync", "synced"} => work[c] \notin Timers
    /\ pc[c] = "pending?" => work[c] \in workqueue
    /\ pc[c] \in {"submitting?", "stop", "detach", "attach", "submit", "arm", "start"} =>
         work[c] \notin pending
    /\ pc[c] = "unqueue" => work[c] \in pending
    /\ pc[c] \in {"detach", "attach", "submit", "arm"} => work[c] \notin submitting
    /\ pc[c] \in {"submit", "arm", "start"} => work[c] \in workqueue
    /\ pc[c] = "start" => ~Contains(soft, work[c])

Held == Turns /\ Sleeps /\ Marks /\ Handler /\ Phase /\ WalkInList

DeployInv == CallInv /\ Held

-----------------------------------------------------------------------------
(* Who may run *)

LEMMA LockedByBusy ==
  ASSUME ClientsOK, Turns
  PROVE  /\ \A c \in Client : Busy(c) => c \in LockedBy
         /\ \A x \in LockedBy : (x \in Client /\ Busy(x)) \/ (x = "timer" /\ tpc = "check")
         /\ tpc = "check" => "timer" \in LockedBy
  <1>1. \A c \in Client : Busy(c) => c \in Locking /\ ClientReady(c) /\ pc[c] # "synced"
    BY DEF Turns, Busy, Outside, ClientReady
  <1>2. \A c \in Locking : ClientReady(c) /\ pc[c] # "synced" => c \in Client /\ Busy(c)
    BY WorkQueueAssumption DEF Busy, Outside, ClientReady
  <1> QED BY <1>1, <1>2 DEF LockedBy

LEMMA WorkerRuns ==
  ASSUME Deployed, ClientsOK, Turns, MayRun("worker")
  PROVE  tpc # "check" /\ \A c \in Client : ~Busy(c)
  <1>1. "worker" \notin Irq /\ "worker" \notin Client
    BY WorkQueueAssumption DEF Deployed
  <1>2. LockedBy = {}
    BY <1>1, LockedByBusy DEF MayRun
  <1> QED BY <1>2, LockedByBusy

LEMMA TimerRuns ==
  ASSUME Deployed, ClientsOK, Turns, MayRun("timer")
  PROVE  /\ tpc = "check" \/ wpc \in {"asleep", "blocked"}
         /\ \A c \in Client : ~Busy(c)
  <1>1. "timer" \notin Irq /\ "timer" \notin Client
    BY WorkQueueAssumption DEF Deployed
  <1>2. CASE LockedBy # {}
    <2>1. tpc = "check"
      BY <1>1, <1>2, LockedByBusy DEF MayRun
    <2> QED BY <2>1 DEF Turns
  <1>3. CASE LockedBy = {}
    <2>1. ~WorkerReady
      BY <1>1, <1>3 DEF MayRun, MoreUrgent, Deployed
    <2> QED BY <1>3, <2>1, LockedByBusy DEF WorkerReady
  <1> QED BY <1>2, <1>3

LEMMA ClientRuns ==
  ASSUME Deployed, ClientsOK, Turns, NEW c \in Client, MayRun(c)
  PROVE  \/ Busy(c)
         \/ /\ wpc \in {"asleep", "blocked"} /\ tpc \in {"asleep", "delay"}
            /\ \A d \in Client : ~Busy(d)
  <1>1. c \notin Irq /\ c # "timer"
    BY WorkQueueAssumption DEF Deployed
  <1>2. CASE LockedBy # {}
    BY <1>1, <1>2, LockedByBusy DEF MayRun
  <1>3. CASE LockedBy = {}
    <2>0. Rank["worker"] < Rank[c] /\ Rank["timer"] < Rank[c]
      <3>1. /\ Rank["worker"] \in Nat /\ Rank["timer"] \in Nat /\ Rank[c] \in Nat
        BY WorkQueueAssumption
      <3> QED BY <3>1 DEF Deployed
    <2>1. ~WorkerReady /\ ~TimerThreadReady
      BY <1>1, <1>3, <2>0 DEF MayRun, MoreUrgent
    <2> QED BY <1>3, <2>1, LockedByBusy DEF WorkerReady, TimerThreadReady
  <1> QED BY <1>2, <1>3

-----------------------------------------------------------------------------
(* The worker *)

LEMMA WorkerHeld ==
  ASSUME Deployed, DeployInv, Worker
  PROVE  Held'
  <1>0. /\ tpc # "check" /\ \A c \in Client : ~Busy(c)
        /\ CallInv /\ Turns /\ Sleeps /\ Marks /\ Handler /\ Phase /\ WalkInList
        /\ UNCHANGED <<soft, tpc, n, t>>
    BY WorkerRuns DEF Worker, DeployInv, Held, CallInv, softvars
  <1>1. /\ WalkInList' /\ (tpc \in {"suspend", "asleep"} => soft = <<>>)'
        /\ (tpc # "check")'
    BY <1>0 DEF WalkInList, Sleeps
  <1>2. CASE WorkerLook \/ WorkerSuspend \/ WorkFunc \/ WorkerClean
    <2>1. UNCHANGED <<work_list, pending, submitting, workqueue, pc, work>>
      BY <1>2 DEF WorkerLook, WorkerSuspend, WorkFunc, WorkerClean, queuevars, clientvars
    <2>2. Turns'
      BY <1>0, <1>1, <2>1 DEF Turns, Busy
    <2>3. Marks' /\ Handler' /\ Phase'
      BY <1>0, <2>1 DEF Marks, Armed, Handler, Phase
    <2>4. Sleeps'
      BY <1>0, <1>1, <1>2, <2>1
         DEF Sleeps, WorkerLook, WorkerSuspend, WorkFunc, WorkerClean, queuevars
    <2> QED BY <1>1, <2>2, <2>3, <2>4 DEF Held
  <1>3. CASE WorkerTake
    <2> DEFINE h == Head(work_list)
    <2>1. /\ h \in Work /\ Contains(work_list, h)
          /\ \A x : Contains(work_list', x) <=> Contains(work_list, x) /\ x # h
          /\ pending' = pending \ {h} /\ workqueue' = workqueue \ {h}
          /\ work_current' = h /\ wpc' = "work_func"
          /\ UNCHANGED <<submitting, pc, work>>
      BY <1>0, <1>3, TakeKeeps DEF CallInv, clientvars
    <2> HIDE DEF h
    <2>2. Turns'
      BY <1>0, <2>1 DEF Turns, Busy
    <2>3. Sleeps'
      BY <1>0, <1>1, <2>1, WorkQueueAssumption DEF Sleeps
    <2>4. h \in Timers => h \in pending /\ h \notin submitting
      BY <1>0, <2>1 DEF Marks
    <2>5. \A u : Armed(u)' <=> Armed(u)
      BY <1>0, <2>1 DEF Armed
    <2>6. Marks'
      BY <1>0, <2>1, <2>4, <2>5 DEF Marks
    <2>7. Handler'
      <3>1. tpc = "submit" => t \in Timers
        BY <1>0 DEF CallInv, SoftOK
      <3> QED BY <1>0, <2>1, <2>4, <3>1 DEF Handler
    <2>8. Phase'
      BY <1>0, <2>1 DEF Phase, Busy, Outside
    <2> QED BY <1>1, <2>2, <2>3, <2>6, <2>7, <2>8 DEF Held
  <1>4. CASE WorkerAck
    <2>1. /\ wpc = "ack" /\ wpc' = "look"
          /\ UNCHANGED <<work_list, work_current, pending, submitting, workqueue>>
      BY <1>4 DEF WorkerAck, queuevars
    <2>2. \A c \in Client : /\ work'[c] = work[c]
                            /\ pc'[c] = IF pc[c] = "sync" THEN "synced" ELSE pc[c]
      BY <1>0, <1>4, AckKeeps DEF CallInv
    <2>3. \A c \in Client : pc'[c] \in Outside
      BY <1>0, <2>2 DEF Busy, Outside
    <2>4. Turns'
      BY <2>1, <2>3 DEF Turns, Busy
    <2>5. Sleeps'
      BY <1>0, <1>1, <2>1 DEF Sleeps
    <2>6. \A u : Armed(u)' <=> Armed(u)
      BY <1>0, <2>2, <2>3 DEF Armed, Outside, Busy
    <2>7. Marks' /\ Handler'
      BY <1>0, <2>1, <2>6 DEF Marks, Handler
    <2>8. Phase'
      BY <1>0, <2>1, <2>2, <2>3 DEF Phase, Outside
    <2> QED BY <1>1, <2>4, <2>5, <2>7, <2>8 DEF Held
  <1> QED BY <1>2, <1>3, <1>4 DEF Worker

-----------------------------------------------------------------------------
(* The timer thread *)

LEMMA TimerThreadHeld ==
  ASSUME Deployed, DeployInv, MayRun("timer"), TimerThread,
         UNCHANGED <<queuevars, wpc, clientvars>>
  PROVE  Held'
  <1>0. /\ tpc = "check" \/ wpc \in {"asleep", "blocked"}
        /\ \A c \in Client : ~Busy(c)
        /\ CallInv /\ SoftOK /\ Turns /\ Sleeps /\ Marks /\ Handler /\ Phase /\ WalkInList
        /\ UNCHANGED <<work_list, work_current, pending, submitting, workqueue, wpc, pc, work>>
    BY TimerRuns DEF DeployInv, Held, CallInv, queuevars, clientvars
  <1>1. \A c \in Client : pc'[c] \in Outside /\ pc[c] \in Outside
    BY <1>0 DEF Busy
  <1>2. \A u : (Armed(u) <=> Contains(soft, u) \/ (tpc = "callback" /\ t = u))
               /\ (Armed(u) <=> Contains(soft, u) \/ (tpc = "callback" /\ t = u))'
    BY <1>1 DEF Armed, Outside
  <1>3. Phase'
    BY <1>0, <1>1 DEF Phase, Outside
  <1>4. CASE TimerLook \/ TimerSuspend \/ CheckEnter \/ CheckNext \/ CheckLeave
    <2>1. /\ UNCHANGED soft
          /\ tpc # "callback" /\ tpc' \notin {"callback", "submit"}
          /\ tpc' = "check" => wpc \in {"asleep", "blocked"}
          /\ tpc' \in {"suspend", "asleep"} => soft = <<>>
      BY <1>0, <1>4 DEF TimerLook, TimerSuspend, CheckEnter, CheckNext, CheckLeave, Sleeps
    <2>2. Turns'
      BY <1>0, <1>1, <2>1 DEF Turns, Busy
    <2>3. Sleeps'
      BY <1>0, <2>1 DEF Sleeps
    <2>4. Marks' /\ Handler'
      BY <1>0, <1>2, <2>1 DEF Marks, Handler
    <2>5. WalkInList'
      <3>1. CASE TimerLook \/ TimerSuspend \/ CheckLeave
        BY <3>1 DEF TimerLook, TimerSuspend, CheckLeave, WalkInList
      <3>2. CASE CheckEnter
        BY <1>0, <2>1, <3>2, FirstNodeListed DEF CheckEnter, WalkInList
      <3>3. CASE CheckNext
        BY <1>0, <2>1, <3>3 DEF CheckNext, WalkInList
      <3> QED BY <1>4, <3>1, <3>2, <3>3
    <2> QED BY <1>3, <2>2, <2>3, <2>4, <2>5 DEF Held
  <1>5. CASE CheckPick
    <2>1. /\ n \in Timers /\ tpc = "check" /\ tpc' = "callback" /\ t' = n
          /\ \A x : Contains(soft', x) <=> Contains(soft, x) /\ x # n
          /\ Contains(soft, n) => n' = End \/ Contains(soft', n')
      BY <1>0, <1>5, PickKeeps
    <2>2. Contains(soft, n)
      BY <1>0, <2>1, SoftTimerAssumption DEF WalkInList
    <2>3. Turns' /\ Sleeps'
      BY <1>0, <1>1, <2>1 DEF Turns, Busy, Sleeps
    <2>4. \A u : Armed(u)' <=> Armed(u)
      BY <1>2, <2>1, <2>2
    <2>5. Marks'
      BY <1>0, <2>4 DEF Marks
    <2>6. Handler' /\ WalkInList'
      BY <2>1, <2>2 DEF Handler, WalkInList
    <2> QED BY <1>3, <2>3, <2>5, <2>6 DEF Held
  <1> QED BY <1>4, <1>5 DEF TimerThread

LEMMA HandlerHeld ==
  ASSUME Deployed, DeployInv, MayRun("timer"), HandlerStop \/ HandlerSubmit
  PROVE  Held'
  <1>0. /\ tpc = "check" \/ wpc \in {"asleep", "blocked"}
        /\ \A c \in Client : ~Busy(c)
        /\ CallInv /\ Turns /\ Sleeps /\ Marks /\ Handler /\ Phase /\ WalkInList
    BY TimerRuns DEF DeployInv, Held, CallInv
  <1>1. UNCHANGED <<n, t, pc, work>>
    BY DEF HandlerStop, HandlerSubmit, clientvars
  <1>2. \A c \in Client : pc'[c] \in Outside /\ pc[c] \in Outside
    BY <1>0, <1>1 DEF Busy
  <1>3. \A u : (Armed(u) <=> Contains(soft, u) \/ (tpc = "callback" /\ t = u))
               /\ (Armed(u) <=> Contains(soft, u) \/ (tpc = "callback" /\ t = u))'
    BY <1>2 DEF Armed, Outside
  <1>4. Phase'
    BY <1>0, <1>1, <1>2 DEF Phase, Outside
  <1>5. CASE HandlerStop
    <2>1. /\ tpc = "callback" /\ tpc' = "submit" /\ t \in Timers
          /\ \A x : Contains(soft', x) <=> Contains(soft, x) /\ x # t
          /\ submitting' = submitting \ {t}
          /\ UNCHANGED <<work_list, work_current, pending, workqueue, wpc>>
      BY <1>0, <1>5, HandlerStopKeeps
    <2>2. ~Contains(soft, t) /\ t \in workqueue /\ t \notin pending
      BY <1>0, <1>3, <2>1 DEF Handler, Marks
    <2>3. Turns' /\ Sleeps'
      BY <1>0, <1>2, <2>1 DEF Turns, Busy, Sleeps
    <2>4. Marks'
      BY <1>0, <1>3, <2>1, <2>2 DEF Marks
    <2>5. Handler' /\ WalkInList'
      BY <1>0, <1>1, <2>1, <2>2 DEF Handler, WalkInList
    <2> QED BY <1>4, <2>3, <2>4, <2>5 DEF Held
  <1>6. CASE HandlerSubmit
    <2>1. /\ tpc = "submit" /\ tpc' = "called" /\ t \in Timers /\ t \in Work /\ Submit(t)
          /\ UNCHANGED soft
      BY <1>0, <1>6, HandlerSubmitKeeps, WorkQueueAssumption
    <2>2. /\ UNCHANGED <<work_current, submitting, workqueue>>
          /\ wpc' = wpc \/ (wpc = "asleep" /\ wpc' = "take" /\ work_list' # <<>>)
          /\ wpc = "asleep" /\ work_current = None => wpc' = "take" \/ t \in pending
          /\ \/ UNCHANGED <<work_list, pending>>
             \/ /\ pending' = pending \cup {t} /\ work_list' # <<>>
                /\ \A x : Contains(work_list', x) <=> Contains(work_list, x) \/ x = t
      BY <1>0, <2>1, SubmitKeeps DEF CallInv
    <2>3. t \in workqueue /\ t \notin pending /\ t \notin submitting
      BY <1>0, <2>1 DEF Handler
    <2>4. Turns' /\ Sleeps'
      BY <1>0, <1>2, <2>1, <2>2, <2>3 DEF Turns, Busy, Sleeps
    <2>5. Marks'
      BY <1>0, <1>1, <1>3, <2>1, <2>2, <2>3 DEF Marks
    <2>6. Handler' /\ WalkInList'
      BY <1>0, <1>1, <2>1 DEF Handler, WalkInList
    <2> QED BY <1>4, <2>4, <2>5, <2>6 DEF Held
  <1> QED BY <1>5, <1>6

-----------------------------------------------------------------------------
(* The clients *)

(* A client that is not within a call finds nobody else within one.        *)
LEMMA BeginHeld ==
  ASSUME Deployed, DeployInv, NEW c \in Client, MayRun(c), NEW w \in Work,
         SubmitWork(c, w) \/ CancelWork(c, w) \/ CancelSync(c, w)
           \/ SubmitDelayed(c, w) \/ CancelDelayed(c, w)
  PROVE  Held'
  <1>0. /\ wpc \in {"asleep", "blocked"} /\ tpc \in {"asleep", "delay"}
        /\ \A d \in Client : ~Busy(d)
        /\ CallInv /\ ClientsOK /\ Turns /\ Sleeps /\ Marks /\ Handler /\ Phase /\ WalkInList
        /\ UNCHANGED <<soft, tpc, n, t>> /\ pc[c] = "run"
    <2>1. pc[c] = "run" /\ ~Busy(c) /\ UNCHANGED <<soft, tpc, n, t>>
      BY DEF SubmitWork, CancelWork, CancelSync, SubmitDelayed, CancelDelayed, Busy,
             Outside, softvars
    <2> QED BY <2>1, ClientRuns DEF DeployInv, Held, CallInv
  <1>1. WalkInList' /\ Handler'
    BY <1>0 DEF WalkInList, Handler
  <1>2. \A d \in Client : pc[d] \in Outside
    BY <1>0 DEF Busy
  <1>3. CASE SubmitWork(c, w)
    <2>1. w \notin Timers /\ Submit(w) /\ UNCHANGED <<pc, work>>
      BY <1>3 DEF SubmitWork, Deployed, clientvars
    <2>2. /\ UNCHANGED <<work_current, submitting, workqueue>>
          /\ wpc' = wpc \/ (wpc = "asleep" /\ wpc' = "take" /\ work_list' # <<>>)
          /\ wpc = "asleep" /\ work_current = None => wpc' = "take" \/ w \in pending
          /\ \/ UNCHANGED <<work_list, pending>>
             \/ /\ pending' = pending \cup {w} /\ work_list' # <<>>
                /\ \A x : Contains(work_list', x) <=> Contains(work_list, x) \/ x = w
      BY <1>0, <2>1, SubmitKeeps DEF CallInv
    <2>3. wpc = "asleep" => w \notin pending
      <3>1. wpc = "asleep" => work_list = <<>> /\ work_list \in Seq(Work)
        BY <1>0 DEF Sleeps, CallInv, QueueOK
      <3>2. wpc = "asleep" => ~Contains(work_list, w)
        BY <3>1, EmptyContains
      <3> QED BY <1>0, <3>2 DEF CallInv, QueueOK, PendingListed
    <2>4. Turns'
      BY <1>0, <1>2, <2>1, <2>2 DEF Turns, Busy
    <2>5. Sleeps'
      BY <1>0, <2>2, <2>3 DEF Sleeps
    <2>6. Marks'
      <3>1. \A u : Armed(u)' <=> Armed(u)
        BY <1>0, <2>1 DEF Armed
      <3> QED BY <1>0, <2>1, <2>2, <3>1 DEF Marks
    <2>7. Phase'
      BY <1>0, <1>2, <2>1 DEF Phase, Outside
    <2> QED BY <1>1, <2>4, <2>5, <2>6, <2>7 DEF Held
  <1>4. ASSUME Unqueue(w), UNCHANGED <<wpc, clientvars>> PROVE Held'
    <2>1. /\ \A x : Contains(work_list', x) <=> Contains(work_list, x) /\ x # w
          /\ pending' = pending \ {w} /\ QueueOK'
          /\ UNCHANGED <<work_current, submitting, workqueue, wpc, pc, work>>
      BY <1>0, <1>4, UnqueueKeeps DEF CallInv, clientvars
    <2>2. wpc' = "asleep" => work_list' = <<>>
      <3>1. wpc = "asleep" => \A x \in Work : ~Contains(work_list, x)
        BY <1>0, EmptyContains DEF Sleeps, CallInv, QueueOK
      <3>2. wpc = "asleep" => \A x \in Work : ~Contains(work_list', x)
        BY <2>1, <3>1
      <3>3. work_list' \in Seq(Work)
        BY <2>1 DEF QueueOK
      <3> QED BY <2>1, <3>2, <3>3, EmptyContains
    <2>3. Turns' /\ Sleeps'
      BY <1>0, <1>2, <2>1, <2>2 DEF Turns, Busy, Sleeps
    <2>4. Marks'
      <3>1. \A u : Armed(u)' <=> Armed(u)
        BY <1>0, <2>1 DEF Armed
      <3> QED BY <1>0, <2>1, <3>1 DEF Marks
    <2>5. Phase'
      BY <1>0, <1>2, <2>1 DEF Phase, Outside
    <2> QED BY <1>1, <2>3, <2>4, <2>5 DEF Held
  <1>5. CASE CancelWork(c, w)
    BY <1>4, <1>5 DEF CancelWork
  <1>6. ASSUME NEW at \in {"sync", "cancel", "attach"}, Call(c, w, at),
               at = "sync" => w \notin Timers,
               at # "sync" => w \in Timers /\ c \in Locking,
               at = "attach" => w \notin workqueue,
               UNCHANGED <<work_list, work_current, pending, submitting, workqueue, wpc>>,
               again' \subseteq Client, ticks' \subseteq Client
        PROVE  Held'
    <2>1. /\ at \in ClientPlaces \ {"run"} /\ (at \notin Outside => w \in Timers)
      BY <1>6 DEF ClientPlaces, Outside
    <2>2. /\ pc'[c] = at /\ work'[c] = w
          /\ \A d \in Client : d # c => pc'[d] = pc[d] /\ work'[d] = work[d]
      BY <1>0, <1>6, <2>1, ClientCalls
    <2>3. \A d \in Client : pc'[d] \notin Outside => d = c /\ at # "sync"
      BY <1>2, <2>2 DEF Outside
    <2>4. Turns'
      BY <1>0, <1>6, <2>3 DEF Turns, Busy
    <2>5. Sleeps'
      BY <1>0, <1>6 DEF Sleeps
    <2>6. Marks'
      <3>1. \A u : Armed(u)' <=> Armed(u)
        BY <1>0, <1>2, <1>6, <2>2 DEF Armed, Outside
      <3> QED BY <1>0, <1>6, <3>1 DEF Marks
    <2>7. Phase'
      <3>1. at = "attach" => w \notin pending /\ w \notin submitting
        BY <1>0, <1>6 DEF Marks
      <3>2. ASSUME NEW d \in Client, d # c
            PROVE  /\ pc'[d] \in Outside
                   /\ pc'[d] \in {"sync", "synced"} => work'[d] \notin Timers
        BY <1>0, <1>2, <2>2, <3>2 DEF Phase
      <3> QED BY <1>6, <2>2, <3>1, <3>2 DEF Phase, Outside
    <2> QED BY <1>1, <2>4, <2>5, <2>6, <2>7 DEF Held
  <1>7. again \subseteq Client /\ ticks \subseteq Client
    BY <1>0 DEF ClientsOK
  <1>8. CASE CancelSync(c, w)
    BY <1>4, <1>6, <1>7, <1>8 DEF CancelSync, queuevars
  <1>9. ASSUME w \in (Submits[c] \cup Cancels[c]) \cap Timers PROVE c \in Locking
    BY <1>9 DEF Deployed
  <1>10. CASE SubmitDelayed(c, w)
    <2>1. /\ w \in Submits[c] /\ w \in Timers
          /\ UNCHANGED <<work_list, work_current, pending, submitting, workqueue, wpc>>
          /\ ticks' \in {ticks, ticks \cup {c}} /\ again' \in {again, again \cup {c}}
          /\ Call(c, w, "cancel") \/ (Call(c, w, "attach") /\ w \notin workqueue)
      BY <1>10 DEF SubmitDelayed
    <2> QED BY <1>6, <1>7, <1>9, <2>1
  <1>11. CASE CancelDelayed(c, w)
    <2>1. /\ w \in Cancels[c] /\ w \in Timers /\ Call(c, w, "cancel")
          /\ UNCHANGED <<work_list, work_current, pending, submitting, workqueue, wpc,
                         again, ticks>>
      BY <1>0, <1>11 DEF CancelDelayed, CallInv, QueueOK, queuevars
    <2> QED BY <1>6, <1>7, <1>9, <2>1
  <1> QED BY <1>3, <1>5, <1>8, <1>10, <1>11

LEMMA SyncedHeld ==
  ASSUME Deployed, DeployInv, NEW c \in Client, CancelSynced(c)
  PROVE  Held'
  <1>0. /\ CallInv /\ ClientsOK /\ Turns /\ Sleeps /\ Marks /\ Handler /\ Phase /\ WalkInList
    BY DEF DeployInv, Held, CallInv
  <1>1. /\ pc[c] = "synced" /\ pending' = pending \ {work[c]} /\ Return(c)
        /\ UNCHANGED <<soft, tpc, n, t, work_list, work_current, submitting, workqueue, wpc>>
    BY DEF CancelSynced, softvars
  <1>2. work[c] \notin Timers
    BY <1>0, <1>1 DEF Phase
  <1>3. /\ pc'[c] = "run"
        /\ \A d \in Client : d # c => pc'[d] = pc[d] /\ work'[d] = work[d]
    BY <1>0, <1>1, ClientReturns
  <1>4. \A u : Armed(u)' <=> Armed(u)
    BY <1>1, <1>3 DEF Armed
  <1>5. Turns' /\ Sleeps' /\ WalkInList'
    BY <1>0, <1>1, <1>3 DEF Turns, Busy, Outside, Sleeps, WalkInList
  <1>6. Marks' /\ Handler'
    BY <1>0, <1>1, <1>2, <1>4 DEF Marks, Handler
  <1>7. Phase'
    <2>1. \A d \in Client : pc[d] = "unqueue" => work[d] \in Timers
      BY <1>0 DEF ClientsOK, Outside
    <2> QED BY <1>0, <1>1, <1>2, <1>3, <2>1 DEF Phase
  <1> QED BY <1>5, <1>6, <1>7 DEF Held

(* A step of a client within a call, which has the scheduler to itself: it *)
(* is enough to look at what it does to its own work.                      *)
LEMMA BusyHeld ==
  ASSUME DeployInv, NEW c \in Client, Busy(c), NEW u, u = work[c],
         \A d \in Client : d # c => pc'[d] = pc[d] /\ work'[d] = work[d],
         pc'[c] = "run" \/ (Busy(c)' /\ work'[c] = u /\ wpc' = wpc /\ tpc' = tpc),
         tpc' = tpc \/ (tpc' = "enter" /\ tpc \in {"asleep", "delay"}),
         wpc' = wpc \/ (wpc = "asleep" /\ wpc' = "take" /\ work_list' # <<>>),
         wpc' = "asleep" => work_list' = <<>>, tpc' = "asleep" => soft' = <<>>,
         work_current' = work_current,
         \A x : x # u =>
           /\ Contains(work_list', x) <=> Contains(work_list, x)
           /\ Contains(soft', x) <=> Contains(soft, x)
           /\ x \in pending' <=> x \in pending
           /\ x \in submitting' <=> x \in submitting
           /\ x \in workqueue' <=> x \in workqueue,
         Contains(work_list', u) => u \in pending',
         u \in pending' => u \in workqueue' /\ u \notin submitting',
         u \in submitting' => u \in workqueue',
         u \in submitting' <=> Contains(soft', u) \/ pc'[c] = "start",
         pc'[c] = "pending?" => u \in workqueue',
         pc'[c] \in {"submitting?", "stop", "detach", "attach", "submit", "arm", "start"} =>
           u \notin pending',
         pc'[c] = "unqueue" => u \in pending',
         pc'[c] \in {"detach", "attach", "submit", "arm"} => u \notin submitting',
         pc'[c] \in {"submit", "arm", "start"} => u \in workqueue',
         pc'[c] = "start" => ~Contains(soft', u)
  PROVE  Held'
  <1>0. /\ CallInv /\ ClientsOK /\ Turns /\ Sleeps /\ Marks /\ Handler /\ Phase /\ WalkInList
        /\ u \in Timers
    BY DEF DeployInv, Held, CallInv, ClientsOK, Busy
  <1>1. /\ c \in Locking /\ wpc \in {"asleep", "blocked", "done"}
        /\ tpc \in {"asleep", "delay", "enter"} /\ tpc' \in {"asleep", "delay", "enter"}
        /\ \A d \in Client : d # c => pc'[d] \in Outside /\ pc[d] \in Outside
    BY <1>0 DEF Turns, Busy
  <1>2. Turns'
    <2>1. ASSUME NEW d \in Client, Busy(d)'
          PROVE  /\ d = c /\ d \in Locking
                 /\ tpc' \in {"asleep", "delay", "enter"} /\ wpc' \in {"asleep", "blocked", "done"}
      BY <1>1, <2>1 DEF Busy, Outside
    <2>2. tpc' # "check"
      BY <1>1
    <2> QED BY <2>1, <2>2 DEF Turns
  <1>3. Sleeps'
    BY <1>0, <1>1 DEF Sleeps
  <1>4. Handler' /\ WalkInList'
    BY <1>1 DEF Handler, WalkInList
  <1>5. Phase'
    <2>1. \A d \in Client : d # c /\ pc'[d] \in {"sync", "synced"} => work'[d] \notin Timers
      BY <1>0 DEF Phase
    <2>2. pc'[c] # "run" => work'[c] = u /\ pc'[c] \notin {"sync", "synced"}
      BY DEF Busy, Outside
    <2> QED BY <1>1, <2>1, <2>2 DEF Phase, Outside
  <1>6. Marks'
    <2>1. \A x : Armed(x) <=> Contains(soft, x) \/ (pc[c] = "start" /\ u = x)
      BY <1>1 DEF Armed, Outside
    <2>2. \A x : Armed(x)' <=> Contains(soft', x) \/ (pc'[c] = "start" /\ u = x)
      BY <1>1 DEF Armed, Outside
    <2>3. ASSUME NEW x \in Timers, x # u
          PROVE  /\ Contains(work_list', x) => x \in pending'
                 /\ x \in pending' => x \in workqueue' /\ x \notin submitting'
                 /\ x \in submitting' => x \in workqueue'
                 /\ x \in submitting' <=> Armed(x)'
      BY <1>0, <2>1, <2>2, <2>3 DEF Marks
    <2> QED BY <2>2, <2>3 DEF Marks
  <1> QED BY <1>2, <1>3, <1>4, <1>5, <1>6 DEF Held

LEMMA GoOnHeld ==
  ASSUME Deployed, DeployInv, NEW c \in Client, GoOn(c)
  PROVE  Held'
  <1>0. /\ CallInv /\ ClientsOK /\ QueueOK /\ SoftOK /\ Turns /\ Sleeps /\ Marks /\ Handler
        /\ Phase
    BY DEF DeployInv, Held, CallInv
  <1>1. CASE CancelSynced(c)
    BY <1>1, SyncedHeld
  <1>2. CASE pc[c] \in Outside /\ ~CancelSynced(c)
    <2>1. pc[c] \notin {"cancel", "pending?", "submitting?", "unqueue", "stop", "detach",
                        "attach", "submit", "arm", "start"}
      BY <1>2 DEF Outside
    <2> QED BY <1>2, <2>1 DEF GoOn, CancelLook, CancelUnqueue, CancelStop, CancelDetach,
                              Attach, SubmitNow, Arm, StartTimer
  <1>3. ASSUME Busy(c) PROVE Held'
    <2> DEFINE u == work[c]
    <2>0. /\ u \in Timers /\ u \in Work
          /\ wpc \in {"asleep", "blocked", "done"} /\ tpc \in {"asleep", "delay", "enter"}
      BY <1>0, <1>3, WorkQueueAssumption DEF ClientsOK, Busy, Turns
    <2>1. /\ Contains(work_list, u) => u \in pending
          /\ u \in pending => u \in workqueue /\ u \notin submitting
          /\ u \in submitting => u \in workqueue
          /\ u \in submitting <=> Contains(soft, u) \/ pc[c] = "start"
      <3>1. \A d \in Client : d # c => pc[d] \in Outside
        BY <1>0, <1>3 DEF Turns, Busy
      <3>2. Armed(u) <=> Contains(soft, u) \/ pc[c] = "start"
        BY <2>0, <3>1 DEF Armed, Outside
      <3> QED BY <1>0, <2>0, <3>2 DEF Marks
    <2>2. /\ pc[c] = "pending?" => u \in workqueue
          /\ pc[c] \in {"submitting?", "stop", "detach", "attach", "submit", "arm", "start"} =>
               u \notin pending
          /\ pc[c] = "unqueue" => u \in pending
          /\ pc[c] \in {"detach", "attach", "submit", "arm"} => u \notin submitting
          /\ pc[c] \in {"submit", "arm", "start"} => u \in workqueue
          /\ pc[c] = "start" => ~Contains(soft, u)
      BY <1>0 DEF Phase
    <2>3. /\ wpc = "asleep" => work_list = <<>> /\ work_current = None
          /\ tpc = "asleep" => soft = <<>>
      BY <1>0 DEF Sleeps
    <2>4. Return(c) => /\ pc'[c] = "run"
                       /\ \A d \in Client : d # c => pc'[d] = pc[d] /\ work'[d] = work[d]
      BY <1>0, ClientReturns
    <2>5. ASSUME NEW at \in ClientPlaces \ Outside, Goes(c, at), work' = work,
                 again' \subseteq Client, ticks' \subseteq Client
          PROVE  /\ pc'[c] = at /\ work'[c] = u /\ Busy(c)'
                 /\ \A d \in Client : d # c => pc'[d] = pc[d] /\ work'[d] = work[d]
      <3>1. /\ pc'[c] = at /\ work'[c] = u
            /\ \A d \in Client : d # c => pc'[d] = pc[d] /\ work'[d] = work[d]
        BY <1>0, <2>0, <2>5, ClientGoes
      <3> QED BY <3>1 DEF Busy
    <2>6. again \subseteq Client /\ ticks \subseteq Client
      BY <1>0 DEF ClientsOK
    <2>7. {"pending?", "submitting?", "unqueue", "stop", "detach", "attach", "submit", "arm",
           "start"} \subseteq ClientPlaces \ Outside
      BY DEF ClientPlaces, Outside
    <2> HIDE DEF u
    <2>8. u = work[c]
      BY DEF u
    <2>9. CASE CancelLook(c)
      <3>0. UNCHANGED <<soft, tpc, work_list, work_current, pending, submitting, workqueue, wpc>>
        BY <2>9 DEF CancelLook, softvars, queuevars
      <3>1. CASE pc[c] = "cancel" /\ Return(c)
        BY <1>3, <2>0, <2>1, <2>3, <2>4, <2>8, <3>0, <3>1, BusyHeld
      <3>2. CASE pc[c] = "cancel" /\ u \in workqueue /\ Goes(c, "pending?")
                 /\ UNCHANGED <<work, again, ticks>>
        <4>1. /\ pc'[c] = "pending?" /\ work'[c] = u /\ Busy(c)'
              /\ \A d \in Client : d # c => pc'[d] = pc[d] /\ work'[d] = work[d]
          BY <2>5, <2>6, <2>7, <3>2
        <4> QED BY <1>3, <2>0, <2>1, <2>3, <2>8, <3>0, <3>2, <4>1, BusyHeld
      <3>3. CASE /\ pc[c] \in {"pending?", "submitting?"}
                 /\ \/ u \in pending /\ Goes(c, "unqueue")
                    \/ u \notin pending /\ Goes(c, "submitting?")
                    \/ u \in submitting /\ u \notin pending /\ Goes(c, "stop")
                    \/ u \notin submitting /\ u \notin pending /\ Goes(c, "detach")
                 /\ UNCHANGED <<work, again, ticks>>
        <4>1. /\ \/ u \in pending /\ pc'[c] = "unqueue"
                 \/ u \notin pending /\ pc'[c] = "submitting?"
                 \/ u \in submitting /\ u \notin pending /\ pc'[c] = "stop"
                 \/ u \notin submitting /\ u \notin pending /\ pc'[c] = "detach"
              /\ work'[c] = u /\ Busy(c)'
              /\ \A d \in Client : d # c => pc'[d] = pc[d] /\ work'[d] = work[d]
          BY <2>5, <2>6, <2>7, <3>3
        <4> QED BY <1>3, <2>0, <2>1, <2>3, <2>8, <3>0, <3>3, <4>1, BusyHeld
      <3> QED BY <2>2, <2>8, <2>9, <3>1, <3>2, <3>3 DEF CancelLook
    <2>10. CASE CancelUnqueue(c)
      <3>0. pc[c] = "unqueue" /\ UNCHANGED <<soft, tpc, wpc>>
        BY <2>10 DEF CancelUnqueue, softvars
      <3>1. CASE Return(c) /\ UNCHANGED queuevars
        <4>1. UNCHANGED <<work_list, work_current, pending, submitting, workqueue>>
          BY <3>1 DEF queuevars
        <4> QED BY <1>3, <2>0, <2>1, <2>3, <2>4, <2>8, <3>0, <3>1, <4>1, BusyHeld
      <3>2. CASE Unqueue(u) /\ Goes(c, "detach") /\ UNCHANGED <<work, again, ticks>>
        <4>1. /\ pc'[c] = "detach" /\ work'[c] = u /\ Busy(c)'
              /\ \A d \in Client : d # c => pc'[d] = pc[d] /\ work'[d] = work[d]
          BY <2>5, <2>6, <2>7, <3>2
        <4>2. /\ \A x : Contains(work_list', x) <=> Contains(work_list, x) /\ x # u
              /\ pending' = pending \ {u} /\ QueueOK'
              /\ UNCHANGED <<work_current, submitting, workqueue>>
          BY <1>0, <2>0, <3>2, UnqueueKeeps
        <4>3. wpc # "asleep" /\ u \notin submitting
          <5>1. Contains(work_list, u)
            BY <1>0, <2>2, <3>0 DEF QueueOK, PendingListed
          <5>2. work_list # <<>>
            BY <5>1 DEF Contains
          <5> QED BY <2>1, <2>2, <2>3, <3>0, <5>2
        <4> QED BY <1>3, <2>0, <2>1, <2>3, <2>8, <3>0, <4>1, <4>2, <4>3, BusyHeld
      <3> QED BY <2>8, <2>10, <3>1, <3>2 DEF CancelUnqueue
    <2>11. CASE CancelStop(c)
      <3>0. /\ pc[c] = "stop" /\ SoftStop(u) /\ submitting' = submitting \ {u}
            /\ Goes(c, "detach")
            /\ UNCHANGED <<work_list, work_current, pending, workqueue, wpc, work, again, ticks>>
        BY <2>8, <2>11 DEF CancelStop
      <3>1. /\ pc'[c] = "detach" /\ work'[c] = u /\ Busy(c)'
            /\ \A d \in Client : d # c => pc'[d] = pc[d] /\ work'[d] = work[d]
        BY <2>5, <2>6, <2>7, <3>0
      <3>2. /\ UNCHANGED tpc /\ SoftOK'
            /\ \A x : Contains(soft', x) <=> Contains(soft, x) /\ x # u
        BY <1>0, <2>0, <3>0, SoftStopKeeps
      <3>3. tpc' = "asleep" => soft' = <<>>
        <4>1. soft \in Seq(Timers) /\ soft' \in Seq(Timers)
          BY <1>0, <3>2 DEF SoftOK
        <4>2. tpc = "asleep" => \A x \in Timers : ~Contains(soft, x)
          BY <2>3, <4>1, EmptyContains
        <4>3. tpc = "asleep" => \A x \in Timers : ~Contains(soft', x)
          BY <3>2, <4>2
        <4> QED BY <3>2, <4>1, <4>3, EmptyContains
      <3> QED BY <1>3, <2>0, <2>1, <2>2, <2>3, <2>8, <3>0, <3>1, <3>2, <3>3, BusyHeld
    <2>12. CASE CancelDetach(c)
      <3>0. /\ pc[c] = "detach"
            /\ workqueue' = workqueue \ {u} /\ pending' = pending \ {u}
            /\ UNCHANGED <<soft, tpc, work_list, work_current, submitting, wpc>>
        BY <2>8, <2>12 DEF CancelDetach, softvars
      <3>1. CASE Return(c)
        BY <1>3, <2>0, <2>1, <2>2, <2>3, <2>4, <2>8, <3>0, <3>1, BusyHeld
      <3>2. CASE Goes(c, "attach") /\ again' = again \ {c} /\ UNCHANGED <<work, ticks>>
        <4>1. /\ pc'[c] = "attach" /\ work'[c] = u /\ Busy(c)'
              /\ \A d \in Client : d # c => pc'[d] = pc[d] /\ work'[d] = work[d]
          BY <2>5, <2>6, <2>7, <3>2
        <4> QED BY <1>3, <2>0, <2>1, <2>2, <2>3, <2>8, <3>0, <4>1, BusyHeld
      <3> QED BY <2>12, <3>1, <3>2 DEF CancelDetach
    <2>13. CASE Attach(c)
      <3>0. /\ pc[c] = "attach" /\ workqueue' = workqueue \cup {u}
            /\ Goes(c, "arm") \/ Goes(c, "submit")
            /\ UNCHANGED <<soft, tpc, work_list, work_current, pending, submitting, wpc, work,
                           again, ticks>>
        BY <2>8, <2>13 DEF Attach, softvars
      <3>1. /\ pc'[c] \in {"arm", "submit"} /\ work'[c] = u /\ Busy(c)'
            /\ \A d \in Client : d # c => pc'[d] = pc[d] /\ work'[d] = work[d]
        BY <2>5, <2>6, <2>7, <3>0
      <3> QED BY <1>3, <2>0, <2>1, <2>2, <2>3, <2>8, <3>0, <3>1, BusyHeld
    <2>14. CASE SubmitNow(c)
      <3>0. pc[c] = "submit" /\ Submit(u) /\ Return(c) /\ UNCHANGED <<soft, tpc>>
        BY <2>8, <2>14 DEF SubmitNow, softvars
      <3>1. /\ UNCHANGED <<work_current, submitting, workqueue>>
            /\ wpc' = wpc \/ (wpc = "asleep" /\ wpc' = "take" /\ work_list' # <<>>)
            /\ wpc = "asleep" /\ work_current = None => wpc' = "take" \/ u \in pending
            /\ \/ UNCHANGED <<work_list, pending>>
               \/ /\ pending' = pending \cup {u} /\ work_list' # <<>>
                  /\ \A x : Contains(work_list', x) <=> Contains(work_list, x) \/ x = u
        BY <1>0, <2>0, <3>0, SubmitKeeps DEF CallInv
      <3>2. wpc' = "asleep" => work_list' = <<>>
        BY <2>2, <2>3, <3>0, <3>1
      <3> QED BY <1>3, <2>0, <2>1, <2>2, <2>3, <2>4, <2>8, <3>0, <3>1, <3>2, BusyHeld
    <2>15. CASE Arm(c)
      <3>0. /\ pc[c] = "arm" /\ submitting' = submitting \cup {u} /\ Goes(c, "start")
            /\ UNCHANGED <<soft, tpc, work_list, work_current, pending, workqueue, wpc, work,
                           again, ticks>>
        BY <2>8, <2>15 DEF Arm
      <3>1. /\ pc'[c] = "start" /\ work'[c] = u /\ Busy(c)'
            /\ \A d \in Client : d # c => pc'[d] = pc[d] /\ work'[d] = work[d]
        BY <2>5, <2>6, <2>7, <3>0
      <3> QED BY <1>3, <2>0, <2>1, <2>2, <2>3, <2>8, <3>0, <3>1, BusyHeld
    <2>16. CASE StartTimer(c)
      <3>0. /\ pc[c] = "start" /\ SoftStart(u) /\ Return(c)
            /\ UNCHANGED <<work_list, work_current, pending, submitting, workqueue, wpc>>
        BY <2>8, <2>16 DEF StartTimer, queuevars
      <3>1. /\ soft' # <<>> /\ tpc' = TimerThreadResumed
            /\ \A x : Contains(soft', x) <=> Contains(soft, x) \/ x = u
        BY <1>0, <2>0, <3>0, SoftStartKeeps
      <3>2. /\ tpc' # "asleep"
            /\ tpc' = tpc \/ (tpc' = "enter" /\ tpc \in {"asleep", "delay"})
        BY <2>0, <3>1 DEF TimerThreadResumed
      <3> QED BY <1>3, <2>0, <2>1, <2>2, <2>3, <2>4, <2>8, <3>0, <3>1, <3>2, BusyHeld
    <2>17. pc[c] # "synced"
      BY <1>3 DEF Busy, Outside
    <2> QED BY <2>9, <2>10, <2>11, <2>12, <2>13, <2>14, <2>15, <2>16, <2>17
            DEF GoOn, CancelSynced
  <1> QED BY <1>1, <1>2, <1>3 DEF Busy

-----------------------------------------------------------------------------
(* What the deployment guarantees *)

LEMMA DeployInvInit == Init => DeployInv
  <1> SUFFICES ASSUME Init PROVE DeployInv
    OBVIOUS
  <1>1. CallInv
    BY CallInvInit
  <1>2. /\ soft = <<>> /\ tpc = "look" /\ work_list = <<>> /\ work_current = None
        /\ pending = {} /\ submitting = {} /\ wpc = "look" /\ \A c \in Client : pc[c] = "run"
    BY DEF Init, SoftInit
  <1>3. \A x : ~Contains(soft, x) /\ ~Contains(work_list, x)
    BY <1>2 DEF Contains
  <1>4. Turns /\ Sleeps /\ Handler /\ Phase /\ WalkInList
    BY <1>2 DEF Turns, Busy, Outside, Sleeps, Handler, Phase, WalkInList
  <1>5. Marks
    BY <1>2, <1>3 DEF Marks, Armed
  <1> QED BY <1>1, <1>4, <1>5 DEF DeployInv, Held

LEMMA DeployInvNext ==
  ASSUME Deployed, DeployInv, [Next]_vars
  PROVE  DeployInv'
  <1>0. CallInv'
    BY CallInvNext DEF DeployInv
  <1>1. CASE Worker
    BY <1>0, <1>1, WorkerHeld DEF DeployInv
  <1>2. CASE TimerStep
    BY <1>0, <1>2, TimerThreadHeld, HandlerHeld DEF DeployInv, TimerStep
  <1>3. CASE Unblock \/ Clock
    <2>1. /\ UNCHANGED <<soft, n, t, work_list, work_current, pending, submitting, workqueue,
                         pc, work>>
          /\ wpc' = wpc \/ (wpc = "blocked" /\ wpc' = "done")
          /\ tpc' = tpc \/ (tpc = "delay" /\ tpc' = "enter")
      BY <1>3, ClockKeeps
         DEF Unblock, Clock, softvars, queuevars, clientvars, DeployInv, CallInv
    <2>2. Turns' /\ Sleeps' /\ WalkInList' /\ Handler' /\ Phase'
      BY <2>1 DEF DeployInv, Held, Turns, Busy, Sleeps, WalkInList, Handler, Phase
    <2>3. \A u : Armed(u)' <=> Armed(u)
      BY <2>1 DEF Armed
    <2>4. Marks'
      BY <2>1, <2>3 DEF DeployInv, Held, Marks
    <2> QED BY <1>0, <2>2, <2>4 DEF DeployInv, Held
  <1>4. ASSUME NEW c \in Client, Begin(c) PROVE DeployInv'
    BY <1>0, <1>4, BeginHeld DEF DeployInv, Begin
  <1>5. ASSUME NEW c \in Client, GoOn(c) PROVE DeployInv'
    BY <1>0, <1>5, GoOnHeld DEF DeployInv
  <1>6. CASE UNCHANGED vars
    <2>1. UNCHANGED <<soft, n, t, tpc, wpc, work_list, work_current, pending, submitting,
                      workqueue, pc, work>>
      BY <1>6 DEF vars, softvars, queuevars, clientvars
    <2>2. Turns' /\ Sleeps' /\ WalkInList' /\ Handler' /\ Phase'
      BY <2>1 DEF DeployInv, Held, Turns, Busy, Sleeps, WalkInList, Handler, Phase
    <2>3. Marks'
      BY <2>1 DEF DeployInv, Held, Marks, Armed
    <2> QED BY <1>0, <2>2, <2>3 DEF DeployInv, Held
  <1> QED BY <1>1, <1>2, <1>3, <1>4, <1>5, <1>6 DEF Next

LEMMA DeployInvLive == DeployInv => PointersLive /\ SleepsOnlyIdle
  BY DEF DeployInv, Held, Sleeps, Handler, PointersLive, TakesWork, HandlerHasQueue,
         SleepsOnlyIdle

(* The step in which a cancel of a delayed work returns                    *)
LEMMA DetachStep ==
  ASSUME Deployed, DeployInv, [Next]_vars,
         NEW c \in Client, pc[c] = "detach", pc'[c] = "run"
  PROVE  ~Contains(work_list', work[c])
  <1>0. CallInv /\ ClientsOK /\ Turns /\ Marks /\ Phase /\ Busy(c)
    BY DEF DeployInv, Held, CallInv, Busy, Outside
  <1>1. ~Worker
    BY <1>0, WorkerRuns DEF Worker
  <1>2. ~TimerStep
    BY <1>0, TimerRuns DEF TimerStep
  <1>3. ~(Unblock \/ Clock \/ UNCHANGED vars)
    BY DEF Unblock, Clock, vars, clientvars
  <1>4. ASSUME NEW d \in Client, Begin(d) PROVE FALSE
    <2>1. pc[d] = "run" /\ MayRun(d)
      BY <1>4 DEF Begin, SubmitWork, CancelWork, CancelSync, SubmitDelayed, CancelDelayed
    <2> QED BY <1>0, <2>1, ClientRuns DEF Busy, Outside
  <1>5. ASSUME NEW d \in Client, GoOn(d) PROVE d = c
    <2>1. Busy(d)
      BY <1>0, <1>5, ClientRuns DEF GoOn
    <2> QED BY <1>0, <2>1 DEF Turns
  <1>6. GoOn(c)
    BY <1>1, <1>2, <1>3, <1>4, <1>5 DEF Next
  <1>7. work_list' = work_list
    BY <1>6 DEF GoOn, CancelSynced, CancelLook, CancelUnqueue, CancelStop, CancelDetach,
                Attach, SubmitNow, Arm, StartTimer
  <1>8. work[c] \in Timers /\ work[c] \notin pending
    BY <1>0 DEF ClientsOK, Busy, Phase
  <1> QED BY <1>0, <1>7, <1>8 DEF Marks

(* DeployInv is an invariant of the work queue as it has to be deployed.   *)
THEOREM DeployedInvariant == Deployed => (Spec => []DeployInv)
  <1> SUFFICES ASSUME Deployed PROVE Spec => []DeployInv
    OBVIOUS
  <1>1. DeployInv /\ [Next]_vars => DeployInv'
    BY DeployInvNext
  <1> QED BY <1>1, DeployInvInit, PTL DEF Spec

(* For any number of clients, works and timers: the worker that is resumed *)
(* finds a work in its list, the timeout handler a queue to submit to, and *)
(* rt_soft_timer_check the node it kept over a timeout function, though    *)
(* none of the three looks again.                                          *)
THEOREM DeployedPointers == Deployed => (Spec => []PointersLive)
  <1> SUFFICES ASSUME Deployed PROVE Spec => []PointersLive
    OBVIOUS
  <1>1. Spec => []DeployInv
    BY DeployedInvariant
  <1> QED BY <1>1, DeployInvLive, PTL

(* Neither the worker nor the timer thread, which look at their lists,     *)
(* unlock and then suspend, sleeps beside a work or a timer that came in   *)
(* between.                                                                *)
THEOREM DeployedSleeps == Deployed => (Spec => []SleepsOnlyIdle)
  <1> SUFFICES ASSUME Deployed PROVE Spec => []SleepsOnlyIdle
    OBVIOUS
  <1>1. Spec => []DeployInv
    BY DeployedInvariant
  <1> QED BY <1>1, DeployInvLive, PTL

(* When _workqueue_cancel_delayed_work has succeeded the work is not in    *)
(* the list, whether its timer was running, its handler had submitted it   *)
(* or neither.                                                             *)
THEOREM DeployedCancel == Deployed => (Spec => CancelledGone)
  <1> SUFFICES ASSUME Deployed PROVE Spec => CancelledGone
    OBVIOUS
  <1>1. Spec => []DeployInv
    BY DeployedInvariant
  <1>2. DeployInv /\ [Next]_vars =>
          [\A c \in Client : pc[c] = "detach" /\ pc'[c] = "run" =>
             ~Contains(work_list', work[c])]_vars
    BY DetachStep
  <1> QED BY <1>1, <1>2, PTL DEF Spec, CancelledGone
=============================================================================
