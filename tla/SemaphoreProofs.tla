--------------------------- MODULE SemaphoreProofs ---------------------------
(***************************************************************************)
(* Proofs about Semaphore, for any finite set of threads, any priorities,  *)
(* which may change at any time, either order of waiting, and a value of   *)
(* any width.                                                              *)
(***************************************************************************)
EXTENDS Semaphore, KernelLemmas

-----------------------------------------------------------------------------
(* The suspend list *)

InOrder(q, pr) ==
  Flag = "PRIO" => \A i, j \in 1 .. Len(q) : i < j => pr[q[i]] <= pr[q[j]]

(* rt_ipc_list_suspend adds the thread, and keeps the order if there is    *)
(* one.                                                                    *)
LEMMA SuspendList ==
  ASSUME NEW q \in Seq(Thread), IsInjective(q), NEW pr \in [Thread -> Nat],
         NEW t \in Thread, ~Contains(q, t)
  PROVE  LET r == ListSuspend(q, t, Flag, pr)
         IN  /\ r \in Seq(Thread) /\ IsInjective(r)
             /\ InOrder(q, pr) => InOrder(r, pr)
             /\ \A x : Contains(r, x) <=> Contains(q, x) \/ x = t
  <1> DEFINE I == {k \in 1 .. Len(q) : pr[t] < pr[q[k]]}
             i == SelectInSeq(q, LAMBDA u : pr[t] < pr[u])
             r == ListSuspend(q, t, Flag, pr)
  <1>0. /\ Len(q) \in Nat /\ pr[t] \in Nat
        /\ \A k \in 1 .. Len(q) : q[k] \in Thread /\ pr[q[k]] \in Nat
    OBVIOUS
  <1>1. i = IF I # {} THEN Min(I) ELSE 0
    BY DEF SelectInSeq
  <1>2. r = IF Flag = "PRIO" /\ i # 0 THEN InsertAt(q, i, t) ELSE Append(q, t)
    BY DEF ListSuspend
  <1> HIDE DEF i, r
  <1>3. I # {} => Min(I) \in I /\ \A k \in I : Min(I) <= k
    <2>1. I \subseteq Nat
      BY <1>0
    <2> QED BY <2>1, MinNat
  <1>4. CASE ~(Flag = "PRIO" /\ i # 0)
    <2>1. r = Append(q, t)
      BY <1>2, <1>4
    <2>2. InOrder(q, pr) => InOrder(r, pr)
      <3> SUFFICES ASSUME InOrder(q, pr), Flag = "PRIO",
                          NEW j \in 1 .. Len(r), NEW k \in 1 .. Len(r), j < k
                   PROVE  pr[r[j]] <= pr[r[k]]
        BY DEF InOrder
      <3>0. Len(r) = Len(q) + 1 /\ j \in 1 .. Len(q) + 1 /\ k \in 1 .. Len(q) + 1
        BY <2>1, AppendProperties
      <3>1. I = {}
        BY <1>0, <1>1, <1>3, <1>4
      <3>2. j \in 1 .. Len(q) /\ r[j] = q[j]
        BY <1>0, <3>0, <2>1, AppendProperties
      <3>3. CASE k = Len(q) + 1
        BY <1>0, <3>0, <2>1, <3>1, <3>2, <3>3, AppendProperties
      <3>4. CASE k # Len(q) + 1
        <4>1. k \in 1 .. Len(q) /\ r[k] = q[k]
          BY <1>0, <3>0, <2>1, <3>4, AppendProperties
        <4> QED BY <3>2, <4>1 DEF InOrder
      <3> QED BY <3>3, <3>4
    <2> QED BY <2>1, <2>2, AppendContains DEF r
  <1>5. CASE Flag = "PRIO" /\ i # 0
    <2>1. r = InsertAt(q, i, t) /\ i \in I /\ i \in 1 .. Len(q) /\ \A k \in I : i <= k
      BY <1>1, <1>2, <1>3, <1>5
    <2>2. /\ r \in Seq(Thread) /\ IsInjective(r) /\ Len(r) = Len(q) + 1
          /\ \A x : Contains(r, x) <=> Contains(q, x) \/ x = t
          /\ \A j \in 1 .. Len(q) + 1 :
               r[j] = IF j < i THEN q[j] ELSE IF j = i THEN t ELSE q[j - 1]
      <3>1. i \in 1 .. Len(q) + 1
        BY <2>1
      <3>2. /\ InsertAt(q, i, t) \in Seq(Thread)
            /\ Len(InsertAt(q, i, t)) = Len(q) + 1
            /\ \A j \in 1 .. Len(q) + 1 :
                 InsertAt(q, i, t)[j] = IF j < i THEN q[j] ELSE IF j = i THEN t ELSE q[j - 1]
        BY <3>1, InsertContains
      <3>3. /\ \A x : Contains(InsertAt(q, i, t), x) <=> Contains(q, x) \/ x = t
            /\ IsInjective(InsertAt(q, i, t))
        BY <3>1, InsertContains, Zenon
      <3> QED BY <2>1, <3>2, <3>3
    <2>3. ASSUME NEW k \in 1 .. Len(q), k < i PROVE pr[q[k]] <= pr[t]
      BY <1>0, <2>1, <2>3
    <2>4. InOrder(q, pr) => InOrder(r, pr)
      <3> SUFFICES ASSUME InOrder(q, pr), NEW j \in 1 .. Len(q) + 1, NEW k \in 1 .. Len(q) + 1, j < k
                   PROVE  pr[r[j]] <= pr[r[k]]
        BY <2>2 DEF InOrder
      <3>0. \A m, n \in 1 .. Len(q) : m < n => pr[q[m]] <= pr[q[n]]
        BY <1>5 DEF InOrder
      <3>i. i \in 1 .. Len(q) /\ Len(q) \in Nat
        BY <1>0, <2>1
      <3>k. ASSUME NEW m \in 1 .. Len(q), m >= i PROVE pr[t] <= pr[q[m]]
        <4>1. pr[t] < pr[q[i]]
          BY <2>1
        <4>2. pr[t] \in Nat /\ pr[q[i]] \in Nat /\ pr[q[m]] \in Nat
          BY <1>0, <3>i
        <4>3. CASE m = i
          BY <4>1, <4>2, <4>3
        <4>4. CASE i < m
          BY <3>0, <3>i, <4>1, <4>2, <4>4
        <4> QED BY <3>i, <3>k, <4>3, <4>4
      <3> HIDE DEF I
      <3>r. \A m \in 1 .. Len(q) + 1 : /\ m < i => r[m] = q[m]
                                       /\ m = i => r[m] = t
                                       /\ m > i => r[m] = q[m - 1]
        <4> SUFFICES ASSUME NEW m \in 1 .. Len(q) + 1
                     PROVE  /\ m < i => r[m] = q[m]
                            /\ m = i => r[m] = t
                            /\ m > i => r[m] = q[m - 1]
          OBVIOUS
        <4>1. r[m] = IF m < i THEN q[m] ELSE IF m = i THEN t ELSE q[m - 1]
          BY <2>2
        <4> QED BY <3>i, <4>1
      <3>1. CASE k < i
        <4>1. j \in 1 .. Len(q) /\ k \in 1 .. Len(q) /\ j < i
          BY <3>i, <3>1
        <4>2. r[j] = q[j] /\ r[k] = q[k]
          BY <3>r, <3>1, <4>1
        <4> QED BY <4>1, <4>2, <3>0
      <3>2. CASE k = i
        <4>1. j \in 1 .. Len(q) /\ j < i
          BY <3>i, <3>2
        <4>2. r[j] = q[j] /\ r[k] = t
          BY <3>r, <3>2, <4>1
        <4> QED BY <4>1, <4>2, <2>3
      <3>3. CASE j = i
        <4>1. k - 1 \in 1 .. Len(q) /\ k - 1 >= i /\ k > i
          BY <3>i, <3>3
        <4>2. r[k] = q[k - 1] /\ r[j] = t
          BY <3>r, <3>3, <4>1
        <4> QED BY <4>1, <4>2, <3>k
      <3>4. CASE j < i /\ k > i
        <4>1. k - 1 \in 1 .. Len(q) /\ j < k - 1 /\ j \in 1 .. Len(q)
          BY <3>i, <3>4
        <4>2. r[k] = q[k - 1] /\ r[j] = q[j]
          BY <3>r, <3>4
        <4> QED BY <4>1, <4>2, <3>0
      <3>5. CASE j > i
        <4>1. /\ k - 1 \in 1 .. Len(q) /\ j - 1 < k - 1 /\ k > i
              /\ j - 1 \in 1 .. Len(q)
          BY <3>i, <3>5
        <4>2. r[k] = q[k - 1] /\ r[j] = q[j - 1]
          BY <3>r, <3>5, <4>1
        <4> QED BY <4>1, <4>2, <3>0
      <3> QED BY <3>i, <3>1, <3>2, <3>3, <3>4, <3>5
    <2> QED BY <2>2, <2>4 DEF r
  <1> QED BY <1>4, <1>5

(* A thread that leaves the list leaves the others in order.               *)
LEMMA RemoveList ==
  ASSUME NEW q \in Seq(Thread), IsInjective(q), NEW pr \in [Thread -> Nat],
         NEW t \in Thread
  PROVE  LET r == RemoveFirst(q, t)
         IN  /\ r \in Seq(Thread) /\ IsInjective(r)
             /\ InOrder(q, pr) => InOrder(r, pr)
             /\ \A x : Contains(r, x) <=> Contains(q, x) /\ x # t
  <1> DEFINE r == RemoveFirst(q, t)
  <1>1. /\ r \in Seq(Thread) /\ IsInjective(r)
        /\ \A x : Contains(r, x) <=> Contains(q, x) /\ x # t
        /\ \A j, k \in 1 .. Len(r) : j < k =>
             \E a, b \in 1 .. Len(q) : a < b /\ r[j] = q[a] /\ r[k] = q[b]
    BY RemoveContains
  <1> HIDE DEF r
  <1>2. InOrder(q, pr) => InOrder(r, pr)
    <2> SUFFICES ASSUME InOrder(q, pr), Flag = "PRIO", NEW j \in 1 .. Len(r), NEW k \in 1 .. Len(r), j < k
                 PROVE  pr[r[j]] <= pr[r[k]]
      BY DEF InOrder
    <2>1. PICK a \in 1 .. Len(q), b \in 1 .. Len(q) : a < b /\ r[j] = q[a] /\ r[k] = q[b]
      BY <1>1
    <2> QED BY <2>1 DEF InOrder
  <1> QED BY <1>1, <1>2 DEF r

LEMMA EmptyList ==
  /\ <<>> \in Seq(Thread) /\ IsInjective(<<>>)
  /\ (\A pr : InOrder(<<>>, pr)) /\ \A x : ~Contains(<<>>, x)
  BY DEF IsInjective, InOrder, Contains

-----------------------------------------------------------------------------
(* The inductive invariant *)

(* A thread in the list is inside rt_sem_take and has not failed.          *)
ListedWait ==
  \A t \in Thread : Contains(suspend, t) => pc[t] = "wait" /\ error[t] = "EOK"

(* Only the thread that deletes a semaphore finds waiters of a dead one.   *)
DeadEmptied ==
  ~live /\ suspend # <<>> => \E t \in Thread : pc[t] \in {"check", "resume"}

(* The list is sorted by the priorities the threads have now, unless one   *)
(* of them changed in the list.                                            *)
UndisturbedOrder ==
  /\ ~disturbed => InOrder(suspend, prio)
  /\ suspend = <<>> => ~disturbed

ControlInv ==
  WaitersExact /\ UndisturbedOrder /\ ListedWait /\ DeadEmptied

SemInv == ControlInv /\ TokensConserved

(* What a step has to show for its new list                                *)
LEMMA ListFacts ==
  ASSUME ControlInv
  PROVE  /\ suspend \in Seq(Thread) /\ IsInjective(suspend)
         /\ \A t \in Thread : Contains(suspend, t) => pc[t] = "wait" /\ error[t] = "EOK"
         /\ \A t \in timer : t \in Thread /\ pc[t] = "wait" /\ Contains(suspend, t)
         /\ timer \subseteq Thread /\ live \in BOOLEAN
         /\ error \in [Thread -> {"EOK", "ETIMEOUT", "ERROR"}]
         /\ pc \in [Thread -> Labels]
         /\ value \in Values /\ balance \in Values
         /\ prio \in [Thread -> Prio] /\ prio \in [Thread -> Nat] /\ disturbed \in BOOLEAN
  BY DEF Prio, ControlInv, WaitersExact, TypeOK, TimersOfWaiters, ListedWait

LEMMA WrapType == \A n \in Int : Wrap(n) \in Values
  BY SemAssumption, ModQuotient DEF Wrap, Values

LEMMA ValuesInt == Values \subseteq Int /\ \A v \in Values : v >= 0
  BY SemAssumption DEF Values

LEMMA FlightFinite == IsFiniteSet(InFlight) /\ Cardinality(InFlight) \in Nat
  <1>1. InFlight \in SUBSET Thread
    BY DEF InFlight
  <1>2. IsFiniteSet(InFlight)
    BY <1>1, SemAssumption, FS_Subset
  <1> QED BY <1>2, FS_CardinalityType

LEMMA ControlInit == Init => ControlInv
  <1> SUFFICES ASSUME Init PROVE ControlInv
    OBVIOUS
  <1>1. suspend = <<>> /\ suspend \in Seq(Thread) /\ IsInjective(suspend) /\ UndisturbedOrder
    BY EmptyList DEF Init, UndisturbedOrder
  <1>2. \A x : ~Contains(suspend, x)
    BY <1>1, EmptyList
  <1>3. TypeOK
    BY <1>1, SemAssumption DEF Init, TypeOK, Labels, Prio
  <1> QED BY <1>1, <1>2, <1>3
      DEF Init, ControlInv, WaitersExact, TimersOfWaiters, ListedWait, DeadEmptied

(* The list after a thread was resumed                                     *)
LEMMA ResumedFacts ==
  ASSUME ControlInv, NEW u \in Thread, Resumed(u)
  PROVE  /\ suspend' \in Seq(Thread) /\ IsInjective(suspend')
         /\ \A x : Contains(suspend', x) <=> Contains(suspend, x) /\ x # u
         /\ suspend' # <<>> => suspend # <<>>
         /\ timer' = timer \ {u}
         /\ disturbed' \in BOOLEAN
         /\ prio' = prio => UndisturbedOrder'
  <1>1. /\ suspend' \in Seq(Thread) /\ IsInjective(suspend')
        /\ \A x : Contains(suspend', x) <=> Contains(suspend, x) /\ x # u
        /\ InOrder(suspend, prio) => InOrder(suspend', prio)
    <2>1. suspend' = RemoveFirst(suspend, u)
      BY DEF Resumed
    <2> QED BY <2>1, ListFacts, RemoveList
  <1>2. suspend' # <<>> => suspend # <<>>
    BY <1>1, ListFacts, EmptyContains
  <1>3. disturbed' = (disturbed /\ suspend' # <<>>) /\ timer' = timer \ {u}
    BY DEF Resumed
  <1>4. disturbed' \in BOOLEAN /\ (suspend' = <<>> => ~disturbed')
    BY <1>3
  <1>5. ASSUME ~disturbed' PROVE InOrder(suspend', prio)
    <2>1. CASE suspend' = <<>>
      BY <2>1, EmptyList
    <2>2. CASE suspend' # <<>>
      BY <1>1, <1>3, <1>5, <2>2 DEF ControlInv, UndisturbedOrder
    <2> QED BY <2>1, <2>2
  <1>6. prio' = prio => UndisturbedOrder'
    BY <1>4, <1>5 DEF UndisturbedOrder
  <1> QED BY <1>1, <1>2, <1>3, <1>4, <1>6

LEMMA ControlNext == ControlInv /\ [Next]_vars => ControlInv'
  <1> SUFFICES ASSUME ControlInv, [Next]_vars PROVE ControlInv'
    OBVIOUS
  <1> USE ListFacts DEF Labels
  <1> DEFINE Goal == ControlInv'
  <1>0. ASSUME /\ value' \in Values /\ balance' \in Values /\ live' \in BOOLEAN
               /\ error' \in [Thread -> {"EOK", "ETIMEOUT", "ERROR"}]
               /\ pc' \in [Thread -> Labels]
               /\ prio' \in [Thread -> Prio] /\ disturbed' \in BOOLEAN
               /\ suspend' \in Seq(Thread) /\ IsInjective(suspend') /\ UndisturbedOrder'
               /\ timer' \subseteq Thread
               /\ \A t \in timer' : Contains(suspend', t)
               /\ ListedWait' /\ DeadEmptied'
        PROVE  Goal
    BY <1>0 DEF ControlInv, WaitersExact, TypeOK, TimersOfWaiters, ListedWait
  <1> HIDE DEF Goal
  <1> DEFINE Rest == /\ value' \in Values /\ balance' \in Values /\ live' \in BOOLEAN
                     /\ error' \in [Thread -> {"EOK", "ETIMEOUT", "ERROR"}]
                     /\ pc' \in [Thread -> Labels]
                     /\ prio' \in [Thread -> Prio] /\ disturbed' \in BOOLEAN
  <1>s. ASSUME UNCHANGED <<suspend, prio, disturbed>>
        PROVE  suspend' \in Seq(Thread) /\ IsInjective(suspend') /\ UndisturbedOrder'
    BY <1>s DEF ControlInv, UndisturbedOrder
  <1>e. ASSUME suspend' = <<>>, disturbed' = FALSE
        PROVE  /\ suspend' \in Seq(Thread) /\ IsInjective(suspend') /\ UndisturbedOrder'
               /\ \A x : ~Contains(suspend', x)
    BY <1>e, EmptyList DEF UndisturbedOrder
  <1>a. \A v \in Values : Wrap(v + 1) \in Values /\ Wrap(v - 1) \in Values
                          /\ Wrap(v + Cardinality(InFlight)) \in Values
    BY WrapType, ValuesInt, FlightFinite
  <1>b. \A v \in Values : v > 0 => v - 1 \in Values
    BY SemAssumption DEF Values
  <1>1. ASSUME NEW t \in Thread, Take(t) PROVE Goal
    <2>1. Rest
      BY <1>1, <1>a, <1>b DEF Take
    <2>2. CASE value > 0 /\ UNCHANGED <<suspend, timer, error, pc>>
      <3>1. ListedWait' /\ DeadEmptied'
        BY <1>1, <2>2 DEF Take, ListedWait, DeadEmptied
      <3> QED BY <1>0, <1>1, <1>s, <2>1, <2>2, <3>1 DEF Take
    <2>3. CASE /\ suspend' = ListSuspend(suspend, t, Flag, prio)
               /\ error' = [error EXCEPT ![t] = "EOK"]
               /\ pc' = [pc EXCEPT ![t] = "wait"]
               /\ timer' \subseteq timer \cup {t}
      <3>1. pc[t] = "run" /\ live /\ live' = live
        BY <1>1 DEF Take
      <3>2. ~Contains(suspend, t)
        BY <3>1
      <3>3. /\ suspend' \in Seq(Thread) /\ IsInjective(suspend')
            /\ InOrder(suspend, prio) => InOrder(suspend', prio)
            /\ \A x : Contains(suspend', x) <=> Contains(suspend, x) \/ x = t
        BY <2>3, <3>2, SuspendList
      <3>5. UndisturbedOrder'
        <4>1. suspend' # <<>>
          BY <3>3, EmptyList
        <4>2. UNCHANGED <<prio, disturbed>>
          BY <1>1 DEF Take
        <4> QED BY <3>3, <4>1, <4>2 DEF ControlInv, UndisturbedOrder
      <3>4. ListedWait' /\ DeadEmptied'
        BY <2>3, <3>1, <3>3 DEF ListedWait, DeadEmptied
      <3> QED BY <1>0, <2>1, <2>3, <3>3, <3>4, <3>5
    <2> QED BY <1>1, <2>2, <2>3 DEF Take
  <1>2. ASSUME NEW t \in Thread, TakeReturn(t) PROVE Goal
    <2>1. Rest
      BY <1>2, <1>a DEF TakeReturn
    <2>2. ListedWait' /\ DeadEmptied'
      BY <1>2 DEF TakeReturn, ListedWait, DeadEmptied, ControlInv
    <2> QED BY <1>0, <1>2, <1>s, <2>1, <2>2 DEF TakeReturn
  <1>3. ASSUME NEW t \in Thread, Timeout(t) PROVE Goal
    <2>2. Resumed(t) /\ prio' = prio
      BY <1>3 DEF Timeout
    <2>1. Rest
      BY <1>3, <2>2, ResumedFacts DEF Timeout
    <2>3. ListedWait' /\ DeadEmptied'
      BY <1>3, <2>2, ResumedFacts DEF Timeout, ListedWait, DeadEmptied, ControlInv
    <2> QED BY <1>0, <2>1, <2>2, <2>3, ResumedFacts
  <1>4. ASSUME NEW t \in Thread, Delete(t) PROVE Goal
    <2>1. Rest
      BY <1>4 DEF Delete
    <2>2. ListedWait' /\ DeadEmptied'
      BY <1>4 DEF Delete, ListedWait, DeadEmptied
    <2> QED BY <1>0, <1>4, <1>s, <2>1, <2>2 DEF Delete
  <1>5. ASSUME NEW t \in Thread, DeleteCheck(t) PROVE Goal
    <2>1. Rest
      BY <1>5 DEF DeleteCheck
    <2>2. ListedWait' /\ DeadEmptied'
      BY <1>5 DEF DeleteCheck, ListedWait, DeadEmptied
    <2> QED BY <1>0, <1>5, <1>s, <2>1, <2>2 DEF DeleteCheck
  <1>6. ASSUME NEW t \in Thread, DeleteResume(t) PROVE Goal
    <2>1. Head(suspend) \in Thread /\ Resumed(Head(suspend)) /\ prio' = prio
      BY <1>6, HeadContains DEF DeleteResume
    <2>2. Rest
      BY <1>6, <2>1, ResumedFacts DEF DeleteResume
    <2>3. ListedWait' /\ DeadEmptied'
      BY <1>6, <2>1, ResumedFacts DEF DeleteResume, ListedWait, DeadEmptied
    <2> QED BY <1>0, <2>1, <2>2, <2>3, ResumedFacts
  <1>7. ASSUME Release PROVE Goal
    <2>1. ASSUME disturbed' \in BOOLEAN PROVE Rest
      BY <1>7, <1>a, <2>1 DEF Release
    <2>2. CASE suspend # <<>>
      <3>1. Head(suspend) \in Thread /\ Resumed(Head(suspend)) /\ prio' = prio
        BY <1>7, <2>2, HeadContains DEF Release
      <3>2. ListedWait' /\ DeadEmptied'
        BY <1>7, <3>1, ResumedFacts DEF Release, ListedWait, DeadEmptied
      <3> QED BY <1>0, <2>1, <3>1, <3>2, ResumedFacts
    <2>3. CASE suspend = <<>>
      <3>1. UNCHANGED <<suspend, timer, live, error, pc, prio, disturbed>>
        BY <1>7, <2>3 DEF Release
      <3>2. ListedWait' /\ DeadEmptied'
        BY <2>3, <3>1 DEF ListedWait, DeadEmptied
      <3> QED BY <1>0, <1>s, <2>1, <3>1, <3>2
    <2> QED BY <2>2, <2>3
  <1>8. ASSUME NEW v \in Values, Reset(v) PROVE Goal
    <2>1. Rest
      BY <1>8, <1>a DEF Reset
    <2>2. /\ suspend' = <<>> /\ suspend' \in Seq(Thread) /\ IsInjective(suspend')
          /\ UndisturbedOrder' /\ \A x : ~Contains(suspend', x)
      BY <1>8, <1>e DEF Reset
    <2>3. timer' = {}
      BY <1>8, RangeContains DEF Reset
    <2>4. ListedWait' /\ DeadEmptied'
      BY <2>2 DEF ListedWait, DeadEmptied
    <2> QED BY <1>0, <2>1, <2>2, <2>3, <2>4
  <1>9. ASSUME NEW v \in Values, Create(v) PROVE Goal
    <2>1. Rest
      BY <1>9, <1>a DEF Create
    <2>2. /\ suspend' = <<>> /\ suspend' \in Seq(Thread) /\ IsInjective(suspend')
          /\ UndisturbedOrder' /\ \A x : ~Contains(suspend', x)
      BY <1>9, <1>e DEF Create
    <2>3. suspend = <<>>
      BY <1>9 DEF Create, ControlInv, DeadEmptied
    <2>4. timer' = {}
      BY <1>9, <2>3, EmptyContains DEF Create
    <2>5. ListedWait' /\ DeadEmptied'
      BY <2>2 DEF ListedWait, DeadEmptied
    <2> QED BY <1>0, <2>1, <2>2, <2>4, <2>5
  <1>10. ASSUME UNCHANGED vars PROVE Goal
    <2>1. ListedWait' /\ DeadEmptied'
      BY <1>10 DEF vars, ListedWait, DeadEmptied, ControlInv
    <2> QED BY <1>0, <1>10, <1>s, <2>1 DEF vars
  <1>11. ASSUME NEW u \in Thread, NEW p \in Prio, ChangePriority(u, p) PROVE Goal
    <2>1. Rest
      BY <1>11 DEF ChangePriority
    <2>2. UNCHANGED <<suspend, timer, live, error, pc>>
      BY <1>11 DEF ChangePriority
    <2>3. ListedWait' /\ DeadEmptied'
      BY <2>2 DEF ListedWait, DeadEmptied, ControlInv
    <2>4. UndisturbedOrder'
      <3>1. prio' = [prio EXCEPT ![u] = p] /\ disturbed' = (disturbed \/ Contains(suspend, u))
        BY <1>11 DEF ChangePriority
      <3>2. suspend' = <<>> => ~disturbed'
        BY <2>2, <3>1, EmptyContains DEF ControlInv, UndisturbedOrder
      <3>3. ASSUME ~disturbed' PROVE InOrder(suspend', prio')
        <4>1. InOrder(suspend, prio) /\ ~Contains(suspend, u)
          BY <3>1, <3>3 DEF ControlInv, UndisturbedOrder
        <4>2. \A i \in 1 .. Len(suspend) : suspend[i] \in Thread /\ suspend[i] # u
          BY <4>1 DEF Contains
        <4>3. \A i \in 1 .. Len(suspend) : prio'[suspend[i]] = prio[suspend[i]]
          BY <3>1, <4>2
        <4> QED BY <2>2, <4>1, <4>3 DEF InOrder
      <3> QED BY <3>2, <3>3 DEF UndisturbedOrder
    <2> QED BY <1>0, <2>1, <2>2, <2>3, <2>4
  <1> QED BY <1>11, <1>1, <1>2, <1>3, <1>4, <1>5, <1>6, <1>7, <1>8, <1>9, <1>10
      DEF Next, ThreadNext, Goal

-----------------------------------------------------------------------------
(* Tokens *)

LEMMA Conserve ==
  ASSUME NEW b \in Int, NEW n \in Int, NEW d \in Int
  PROVE  /\ Wrap(Wrap(b + d) - n) = Wrap(b + d - n)
         /\ Wrap(Wrap(b - n) + d) = Wrap(b + d - n)
  <1>0. ValueMod \in Nat \ {0}
    BY SemAssumption
  <1>1. ASSUME NEW x \in Int, NEW y \in Int
        PROVE  Wrap(x) \in Int /\ Wrap(Wrap(x) + y) = Wrap(x + y)
    <2>1. (x % ValueMod) \in Int
      BY <1>0, ModQuotient
    <2>2. ((x % ValueMod) + y) % ValueMod = (x + y) % ValueMod
      BY <1>0, ModAdd, Zenon
    <2> QED BY <2>1, <2>2, Zenon DEF Wrap
  <1>2. b + d \in Int /\ b - n \in Int /\ -n \in Int
    OBVIOUS
  <1>3. /\ Wrap(b + d) \in Int /\ Wrap(Wrap(b + d) + (-n)) = Wrap(b + d + (-n))
        /\ Wrap(Wrap(b - n) + d) = Wrap(b - n + d)
    BY <1>1, <1>2
  <1>4. /\ b + d + (-n) = b + d - n /\ b - n + d = b + d - n
        /\ Wrap(b + d) + (-n) = Wrap(b + d) - n
    BY <1>3
  <1> QED BY <1>3, <1>4

LEMMA WrapSmall == \A v \in Values : Wrap(v) = v
  BY SemAssumption, ModSmall DEF Wrap, Values

LEMMA TokensInit == Init => TokensConserved
  <1> SUFFICES ASSUME Init PROVE TokensConserved
    OBVIOUS
  <1>1. InFlight = {}
    BY DEF Init, InFlight
  <1>2. Cardinality(InFlight) = 0
    BY <1>1, FS_EmptySet
  <1>3. value \in Values /\ balance = value /\ value - 0 = value /\ suspend = <<>>
    BY ValuesInt DEF Init
  <1> QED BY <1>2, <1>3, WrapSmall DEF TokensConserved

LEMMA TokensNext ==
  ControlInv /\ TokensConserved /\ [Next]_vars => TokensConserved'
  <1> SUFFICES ASSUME ControlInv, TokensConserved, [Next]_vars PROVE TokensConserved'
    OBVIOUS
  <1> DEFINE n == Cardinality(InFlight)
             N == Cardinality(InFlight')
             Goal == TokensConserved'
  <1>0. /\ n \in Nat /\ IsFiniteSet(InFlight) /\ value \in Int /\ balance \in Int
        /\ live => value = Wrap(balance - n) /\ (value > 0 => suspend = <<>>)
    BY ListFacts, FlightFinite, ValuesInt DEF TokensConserved
  <1>g. ASSUME live' => value' = Wrap(balance' - N) /\ (value' > 0 => suspend' = <<>>)
        PROVE  Goal
    BY <1>g DEF TokensConserved
  <1>s. ASSUME InFlight' = InFlight, UNCHANGED <<value, balance, live>>,
               live /\ suspend = <<>> => suspend' = <<>>
        PROVE  Goal
    BY <1>0, <1>g, <1>s
  <1> HIDE DEF Goal, n, N
  <1>1. ASSUME NEW t \in Thread, Take(t) PROVE Goal
    <2>1. CASE value > 0 /\ UNCHANGED <<suspend, timer, error, pc>>
      <3>1. InFlight' = InFlight /\ N = n
        BY <2>1 DEF InFlight, N, n
      <3>2. CASE value' = value - 1 /\ balance' = Wrap(balance - 1)
        <4>1. live /\ value = Wrap(balance - n)
          BY <1>0, <1>1 DEF Take
        <4>2. value' = Wrap(value - 1)
          <5>1. value - 1 \in Values
            BY <2>1, ListFacts, SemAssumption DEF Values
          <5> QED BY <3>2, <5>1, WrapSmall
        <4>3. balance + (-1) = balance - 1 /\ value + (-1) = value - 1 /\ -1 \in Int
          BY <1>0
        <4>4. Wrap(Wrap(balance + (-1)) - n) = Wrap(Wrap(balance - n) + (-1))
          BY <1>0, <4>3, Conserve
        <4> QED BY <1>0, <1>g, <2>1, <3>1, <3>2, <4>1, <4>2, <4>3, <4>4
      <3>3. CASE UNCHANGED <<value, balance>>
        BY <1>1, <1>s, <2>1, <3>1, <3>3 DEF Take
      <3> QED BY <1>1, <2>1, <3>2, <3>3 DEF Take
    <2>2. CASE /\ suspend' = ListSuspend(suspend, t, Flag, prio)
               /\ error' = [error EXCEPT ![t] = "EOK"]
               /\ pc' = [pc EXCEPT ![t] = "wait"]
               /\ value = 0 /\ UNCHANGED <<value, balance, live>>
      <3>1. pc[t] = "run" /\ ~Contains(suspend, t)
        BY <1>1, ListFacts DEF Take
      <3>2. \A x : Contains(suspend', x) <=> Contains(suspend, x) \/ x = t
        BY <2>2, <3>1, ListFacts, SuspendList
      <3>3. InFlight' = InFlight
        BY <2>2, <3>1, <3>2, ListFacts DEF InFlight
      <3> QED BY <1>0, <1>g, <2>2, <3>3 DEF N, n
    <2> QED BY <1>1, <2>1, <2>2 DEF Take
  <1>2. ASSUME NEW t \in Thread, TakeReturn(t) PROVE Goal
    <2>1. CASE error[t] = "EOK"
      <3>1. InFlight' = InFlight \ {t} /\ t \in InFlight
        BY <1>2, <2>1, ListFacts DEF TakeReturn, InFlight
      <3>2. N = n - 1
        BY <1>0, <3>1, FS_RemoveElement DEF N, n
      <3>3. balance' = Wrap(balance - 1) /\ UNCHANGED <<value, live, suspend>>
        BY <1>2, <2>1 DEF TakeReturn
      <3>4. /\ balance + (-1) = balance - 1 /\ balance + (-1) - (n - 1) = balance - n
            /\ n - 1 \in Int /\ -1 \in Int
        BY <1>0
      <3>5. Wrap(Wrap(balance + (-1)) - (n - 1)) = Wrap(balance + (-1) - (n - 1))
        BY <1>0, <3>4, Conserve
      <3>6. Wrap(balance' - N) = Wrap(balance - n)
        BY <3>2, <3>3, <3>4, <3>5
      <3> QED BY <1>0, <1>g, <3>3, <3>6
    <2>2. CASE error[t] # "EOK"
      <3>1. InFlight' = InFlight
        BY <1>2, <2>2, ListFacts DEF TakeReturn, InFlight
      <3> QED BY <1>2, <1>s, <2>2, <3>1 DEF TakeReturn
    <2> QED BY <2>1, <2>2
  <1>3. ASSUME NEW t \in Thread, Timeout(t) PROVE Goal
    <2>1. Resumed(t) /\ Contains(suspend, t)
      BY <1>3, ListFacts DEF Timeout
    <2>2. \A x : Contains(suspend', x) <=> Contains(suspend, x) /\ x # t
      BY <2>1, ResumedFacts
    <2>3. InFlight' = InFlight
      BY <1>3, <2>1, <2>2, ListFacts DEF Timeout, InFlight
    <2>4. suspend = <<>> => suspend' = <<>>
      BY <2>1, ResumedFacts
    <2> QED BY <1>3, <1>s, <2>3, <2>4 DEF Timeout
  <1>4. ASSUME NEW t \in Thread, Delete(t) PROVE Goal
    BY <1>4, <1>g DEF Delete
  <1>5. ASSUME NEW t \in Thread, DeleteCheck(t) PROVE Goal
    <2>1. InFlight' = InFlight
      BY <1>5, ListFacts DEF DeleteCheck, InFlight
    <2> QED BY <1>5, <1>s, <2>1 DEF DeleteCheck
  <1>6. ASSUME NEW t \in Thread, DeleteResume(t) PROVE Goal
    <2> DEFINE h == Head(suspend)
    <2>1. h \in Thread /\ Contains(suspend, h) /\ Resumed(h)
      BY <1>6, HeadContains, ListFacts DEF DeleteResume
    <2>2. \A x : Contains(suspend', x) <=> Contains(suspend, x) /\ x # h
      BY <2>1, ResumedFacts
    <2>3. error' = [error EXCEPT ![h] = "ERROR"] /\ pc' = [pc EXCEPT ![t] = "check"]
      BY <1>6 DEF DeleteResume
    <2>4. pc[t] = "resume" /\ suspend # <<>> /\ UNCHANGED <<value, live, balance>>
      BY <1>6 DEF DeleteResume
    <2> HIDE DEF h
    <2>5. InFlight' = InFlight
      BY <2>1, <2>2, <2>3, <2>4, ListFacts DEF InFlight
    <2> QED BY <1>s, <2>4, <2>5
  <1>7. ASSUME Release PROVE Goal
    <2>0. /\ balance' = Wrap(balance + 1) /\ live /\ UNCHANGED <<live, error, pc>>
          /\ value = Wrap(balance - n) /\ 1 \in Int
      BY <1>0, <1>7 DEF Release
    <2>1. CASE suspend # <<>>
      <3> DEFINE h == Head(suspend)
      <3>1. h \in Thread /\ Contains(suspend, h) /\ Resumed(h) /\ value' = value
        BY <1>7, <2>1, HeadContains, ListFacts DEF Release
      <3>2. \A x : Contains(suspend', x) <=> Contains(suspend, x) /\ x # h
        BY <3>1, ResumedFacts
      <3> HIDE DEF h
      <3>3. InFlight' = InFlight \cup {h} /\ h \notin InFlight
        BY <2>0, <3>1, <3>2, ListFacts DEF InFlight
      <3>4. N = n + 1
        BY <1>0, <3>3, FS_AddElement DEF N, n
      <3>5. balance + 1 - (n + 1) = balance - n /\ n + 1 \in Int
        BY <1>0
      <3>6. Wrap(Wrap(balance + 1) - (n + 1)) = Wrap(balance + 1 - (n + 1))
        BY <1>0, <2>0, <3>5, Conserve
      <3>7. value' = Wrap(balance' - N)
        BY <2>0, <3>1, <3>4, <3>5, <3>6
      <3>8. ~(value' > 0)
        BY <1>0, <2>0, <2>1, <3>1
      <3> QED BY <1>g, <3>7, <3>8
    <2>2. CASE suspend = <<>>
      <3>1. value' = Wrap(value + 1) /\ suspend' = suspend
        BY <1>7, <2>2 DEF Release
      <3>2. InFlight' = InFlight /\ N = n
        BY <2>0, <3>1 DEF InFlight, N, n
      <3>3. Wrap(Wrap(balance + 1) - n) = Wrap(Wrap(balance - n) + 1)
        <4>1. n \in Int
          BY <1>0
        <4>2. /\ Wrap(Wrap(balance + 1) - n) = Wrap(balance + 1 - n)
              /\ Wrap(Wrap(balance - n) + 1) = Wrap(balance + 1 - n)
          BY <1>0, <2>0, <4>1, Conserve
        <4> QED BY <4>2
      <3> QED BY <1>g, <2>0, <2>2, <3>1, <3>2, <3>3
    <2> QED BY <2>1, <2>2
  <1>r. ASSUME NEW v \in Values, N = n, value' = v, balance' = Wrap(v + n), suspend' = <<>>
        PROVE  Goal
    <2>1. v \in Int /\ v + n - n = v /\ n \in Int
      BY <1>0, ValuesInt
    <2>2. Wrap(Wrap(v + n) - n) = Wrap(v + n - n)
      BY <2>1, Conserve
    <2> QED BY <1>g, <1>r, <2>1, <2>2, WrapSmall
  <1>8. ASSUME NEW v \in Values, Reset(v) PROVE Goal
    <2>1. \A x : ~Contains(suspend', x)
      BY <1>8, EmptyList DEF Reset
    <2>2. InFlight' = InFlight
      BY <1>8, <2>1, ListFacts DEF Reset, InFlight
    <2> QED BY <1>8, <1>r, <2>2 DEF Reset, N, n
  <1>9. ASSUME NEW v \in Values, Create(v) PROVE Goal
    <2>1. suspend = <<>> /\ suspend' = <<>>
      BY <1>9 DEF Create, ControlInv, DeadEmptied
    <2>2. InFlight' = InFlight
      BY <1>9, <2>1 DEF Create, InFlight
    <2> QED BY <1>9, <1>r, <2>1, <2>2 DEF Create, N, n
  <1>10. ASSUME UNCHANGED vars PROVE Goal
    <2>1. InFlight' = InFlight
      BY <1>10 DEF vars, InFlight
    <2> QED BY <1>10, <1>s, <2>1 DEF vars
  <1>11. ASSUME NEW u \in Thread, NEW p \in Prio, ChangePriority(u, p) PROVE Goal
    <2>1. InFlight' = InFlight
      BY <1>11 DEF ChangePriority, InFlight
    <2> QED BY <1>11, <1>s, <2>1 DEF ChangePriority
  <1> QED BY <1>1, <1>2, <1>3, <1>4, <1>5, <1>6, <1>7, <1>8, <1>9, <1>10, <1>11
      DEF Next, ThreadNext, Goal

(* The inductive invariant of rt_sem_take, release, reset and delete:      *)
(* list, timers, calls and tokens agree after every section.               *)
THEOREM SemaphoreInvariant == Spec => []SemInv
  <1>1. Init => SemInv
    BY ControlInit, TokensInit DEF SemInv
  <1>2. SemInv /\ [Next]_vars => SemInv'
    BY ControlNext, TokensNext DEF SemInv
  <1> QED BY <1>1, <1>2, PTL DEF Spec

(* The list has no thread twice, the value keeps its width, and the timers *)
(* of rt_sem_take run only for threads in the list.                        *)
THEOREM SemaphoreWaiters == Spec => []WaitersExact
  <1>1. SemInv => WaitersExact
    BY DEF SemInv, ControlInv
  <1> QED BY <1>1, SemaphoreInvariant, PTL

(* No token is lost or made, and no thread sleeps beside one, whatever     *)
(* timeouts, resets and deletions race with rt_sem_release.                *)
THEOREM SemaphoreTokens == Spec => []TokensConserved
  <1>1. SemInv => TokensConserved
    BY DEF SemInv
  <1> QED BY <1>1, SemaphoreInvariant, PTL

-----------------------------------------------------------------------------
(* Who is granted a token *)

LEMMA GrantNext == ControlInv /\ [Next]_vars => [GrantStep]_vars
  <1> SUFFICES ASSUME ControlInv, Next, Flag = "PRIO", ~disturbed,
                      NEW t \in Thread, Contains(suspend, t), ~Contains(suspend', t),
                      error'[t] = "EOK",
                      NEW u \in Thread, Contains(suspend', u)
               PROVE  prio[t] <= prio[u]
    BY DEF GrantStep
  <1> USE ListFacts
  <1>1. ASSUME NEW x \in Thread, Resumed(x) PROVE t = x /\ Contains(suspend, u) /\ u # x
    BY <1>1, ResumedFacts
  <1>2. ASSUME NEW x \in Thread, Take(x) PROVE FALSE
    <2>1. CASE suspend' = suspend
      BY <2>1
    <2>2. CASE suspend' = ListSuspend(suspend, x, Flag, prio)
      <3>1. ~Contains(suspend, x)
        BY <1>2 DEF Take
      <3> QED BY <2>2, <3>1, SuspendList
    <2> QED BY <1>2, <2>1, <2>2 DEF Take
  <1>3. ASSUME NEW x \in Thread, Timeout(x) PROVE FALSE
    BY <1>1, <1>3 DEF Timeout
  <1>4. ASSUME NEW x \in Thread, DeleteResume(x) PROVE FALSE
    <2>1. Head(suspend) \in Thread /\ Resumed(Head(suspend))
      BY <1>4, HeadContains DEF DeleteResume
    <2>2. t = Head(suspend) /\ error' = [error EXCEPT ![Head(suspend)] = "ERROR"]
      BY <1>1, <1>4, <2>1 DEF DeleteResume
    <2> QED BY <2>2
  <1>5. CASE Release
    <2>1. suspend # <<>> /\ Head(suspend) \in Thread /\ Resumed(Head(suspend))
      BY <1>5, HeadContains DEF Release
    <2>2. t = Head(suspend) /\ Contains(suspend, u) /\ u # t
      BY <1>1, <2>1
    <2>3. PICK i \in 1 .. Len(suspend) : suspend[i] = u
      BY <2>2 DEF Contains
    <2>4. 1 \in 1 .. Len(suspend) /\ suspend[1] = t /\ 1 < i
      BY <2>1, <2>2, <2>3
    <2>5. InOrder(suspend, prio)
      BY DEF ControlInv, UndisturbedOrder
    <2> QED BY <2>3, <2>4, <2>5 DEF InOrder
  <1>6. ASSUME NEW v \in Values, Reset(v) \/ Create(v) PROVE FALSE
    BY <1>6, EmptyList DEF Reset, Create
  <1>7. ASSUME NEW x \in Thread, TakeReturn(x) \/ Delete(x) \/ DeleteCheck(x) PROVE FALSE
    BY <1>7 DEF TakeReturn, Delete, DeleteCheck
  <1>8. ASSUME NEW x \in Thread, NEW p \in Prio, ChangePriority(x, p) PROVE FALSE
    BY <1>8 DEF ChangePriority
  <1> QED BY <1>8, <1>2, <1>3, <1>4, <1>5, <1>6, <1>7 DEF Next, ThreadNext

(* With RT_IPC_FLAG_PRIO a release gives its token to a most urgent waiter *)
(* by the priorities of that moment, unless the priority of a thread was   *)
(* changed while it was in the list, since the list was last empty.        *)
THEOREM SemaphoreGrants == Spec => GrantsMostUrgent
  <1>1. SemInv /\ [Next]_vars => [GrantStep]_vars
    BY GrantNext DEF SemInv
  <1> QED BY <1>1, SemaphoreInvariant, PTL DEF Spec, GrantsMostUrgent

-----------------------------------------------------------------------------
(* The abstract semaphore *)

Req == [t \in Thread |-> Request(t)]

LEMMA AbstractInit == Init => Abstract!AbsInit
  <1> SUFFICES ASSUME Init PROVE Abstract!AbsInit
    OBVIOUS
  <1>1. \A t \in Thread : Request(t) = "none"
    BY DEF Init, Request
  <1> QED BY <1>1 DEF Init, Values, Abstract!AbsInit

(* The request of a thread that a step does not concern is the same.       *)
LEMMA RequestSame ==
  ASSUME NEW t \in Thread, pc'[t] = pc[t], error'[t] = error[t],
         Contains(suspend', t) <=> Contains(suspend, t)
  PROVE  Request(t)' = Request(t)
  BY DEF Request

LEMMA AbstractNext == ControlInv /\ TokensConserved /\ [Next]_vars => [Abstract!AbsNext]_(Abstract!absvars)
  <1> SUFFICES ASSUME ControlInv, TokensConserved, [Next]_vars
               PROVE  Abstract!AbsNext \/ UNCHANGED <<value, Req>>
    BY DEF Abstract!absvars, Req
  <1> USE ListFacts
  <1>1. ASSUME NEW t \in Thread, Take(t)
        PROVE  Abstract!AbsNext \/ UNCHANGED <<value, Req>>
    <2>1. CASE value > 0 /\ value' = value - 1 /\ UNCHANGED <<suspend, error, pc>>
      <3>1. Req' = Req /\ Req[t] = "none"
        BY <1>1, <2>1 DEF Take, Req, Request
      <3>2. Abstract!TakeToken(t)
        BY <2>1, <3>1 DEF Abstract!TakeToken, Req
      <3> QED BY <3>2 DEF Abstract!AbsNext
    <2>2. CASE /\ value = 0 /\ value' = value
               /\ suspend' = ListSuspend(suspend, t, Flag, prio)
               /\ error' = [error EXCEPT ![t] = "EOK"]
               /\ pc' = [pc EXCEPT ![t] = "wait"]
      <3>1. pc[t] = "run" /\ ~Contains(suspend, t)
        BY <1>1 DEF Take
      <3>2. \A x : Contains(suspend', x) <=> Contains(suspend, x) \/ x = t
        BY <2>2, <3>1, SuspendList
      <3>3. Request(t) = "none" /\ Request(t)' = "asking"
        BY <2>2, <3>1, <3>2 DEF Request
      <3>4. \A x \in Thread \ {t} : Request(x)' = Request(x)
        BY <2>2, <3>2, RequestSame
      <3>5. Abstract!Ask(t)
        BY <2>2, <3>3, <3>4 DEF Abstract!Ask
      <3> QED BY <3>5 DEF Abstract!AbsNext
    <2> QED BY <1>1, <2>1, <2>2 DEF Take
  <1>2. ASSUME NEW t \in Thread, TakeReturn(t)
        PROVE  Abstract!AbsNext \/ UNCHANGED <<value, Req>>
    <2>1. Request(t) \in {"granted", "failed"} /\ Request(t)' = "none"
      BY <1>2 DEF TakeReturn, Request
    <2>2. \A x \in Thread \ {t} : Request(x)' = Request(x)
      BY <1>2, RequestSame DEF TakeReturn
    <2>3. Abstract!Leave(t)
      BY <1>2, <2>1, <2>2 DEF TakeReturn, Abstract!Leave
    <2> QED BY <2>3 DEF Abstract!AbsNext
  <1>a. ASSUME NEW h \in Thread, Contains(suspend, h), Resumed(h), value' = value,
               NEW r \in {"granted", "failed"},
               pc'[h] = "wait",
               r = IF error'[h] = "EOK" THEN "granted" ELSE "failed",
               \A x \in Thread \ {h} : Request(x)' = Request(x)
        PROVE  Abstract!AbsNext
    <2>1. Request(h) = "asking"
      BY <1>a DEF Request
    <2>2. ~Contains(suspend', h)
      BY <1>a, ResumedFacts
    <2>3. Request(h)' = r
      BY <1>a, <2>2 DEF Request
    <2>4. Abstract!Answer(h, r)
      BY <1>a, <2>1, <2>3 DEF Abstract!Answer
    <2> QED BY <2>4 DEF Abstract!AbsNext
  <1>3. ASSUME NEW t \in Thread, Timeout(t) PROVE Abstract!AbsNext
    <2>1. Contains(suspend, t) /\ Resumed(t) /\ value' = value /\ pc'[t] = "wait"
      BY <1>3 DEF Timeout
    <2>2. error'[t] = "ETIMEOUT"
      BY <1>3 DEF Timeout
    <2>3. \A x \in Thread \ {t} : Request(x)' = Request(x)
      BY <1>3, <2>1, ResumedFacts, RequestSame DEF Timeout
    <2> QED BY <1>a, <2>1, <2>2, <2>3
  <1>4. ASSUME NEW t \in Thread, DeleteResume(t) PROVE Abstract!AbsNext
    <2> DEFINE h == Head(suspend)
    <2>1. h \in Thread /\ Contains(suspend, h) /\ Resumed(h) /\ value' = value
      BY <1>4, HeadContains DEF DeleteResume
    <2>2. /\ pc[t] = "resume" /\ pc' = [pc EXCEPT ![t] = "check"]
          /\ error' = [error EXCEPT ![h] = "ERROR"]
      BY <1>4 DEF DeleteResume
    <2> HIDE DEF h
    <2>3. pc'[h] = "wait" /\ error'[h] = "ERROR"
      BY <2>1, <2>2
    <2>4. ASSUME NEW x \in Thread \ {h} PROVE Request(x)' = Request(x)
      <3>1. CASE x = t
        BY <2>2, <3>1 DEF Request
      <3>2. CASE x # t
        BY <2>1, <2>2, <3>2, ResumedFacts, RequestSame
      <3> QED BY <3>1, <3>2
    <2> QED BY <1>a, <2>1, <2>3, <2>4
  <1>5. ASSUME NEW t \in Thread, Delete(t) \/ DeleteCheck(t) PROVE UNCHANGED <<value, Req>>
    <2>1. ASSUME NEW x \in Thread PROVE Request(x)' = Request(x)
      <3>1. CASE x = t
        BY <1>5, <3>1 DEF Delete, DeleteCheck, Request
      <3>2. CASE x # t
        BY <1>5, <3>2, RequestSame DEF Delete, DeleteCheck
      <3> QED BY <3>1, <3>2
    <2> QED BY <1>5, <2>1 DEF Delete, DeleteCheck, Req
  <1>6. ASSUME Release PROVE Abstract!AbsNext
    <2>1. CASE suspend # <<>>
      <3> DEFINE h == Head(suspend)
      <3>1. h \in Thread /\ Contains(suspend, h) /\ Resumed(h) /\ value' = value
        BY <1>6, <2>1, HeadContains DEF Release
      <3>2. UNCHANGED <<pc, error>>
        BY <1>6 DEF Release
      <3> HIDE DEF h
      <3>3. \A x \in Thread \ {h} : Request(x)' = Request(x)
        BY <3>1, <3>2, ResumedFacts, RequestSame
      <3> QED BY <1>a, <3>1, <3>2, <3>3
    <2>2. CASE suspend = <<>>
      <3>1. \A x \in Thread : ~Contains(suspend, x)
        BY <2>2, EmptyContains
      <3>2. UNCHANGED <<pc, error, suspend>> /\ value' = Wrap(value + 1)
        BY <1>6, <2>2 DEF Release
      <3>3. \A x \in Thread : Request(x) # "asking" /\ Request(x)' = Request(x)
        BY <3>1, <3>2 DEF Request
      <3>4. Abstract!Post
        BY <3>2, <3>3 DEF Abstract!Post, Wrap
      <3> QED BY <3>4 DEF Abstract!AbsNext
    <2> QED BY <2>1, <2>2
  <1>b. ASSUME NEW v \in Values, value' = v,
               \A x \in Thread :
                 Request(x)' = IF Request(x) = "asking" THEN "failed" ELSE Request(x)
        PROVE  Abstract!AbsNext
    <2>1. Abstract!Renew
      BY <1>b DEF Abstract!Renew, Values
    <2> QED BY <2>1 DEF Abstract!AbsNext
  <1>7. ASSUME NEW v \in Values, Reset(v) PROVE Abstract!AbsNext
    <2>1. \A x : ~Contains(suspend', x)
      BY <1>7, EmptyList DEF Reset
    <2>2. /\ pc' = pc /\ value' = v
          /\ error' = [t \in Thread |-> IF Contains(suspend, t) THEN "ERROR" ELSE error[t]]
      BY <1>7 DEF Reset
    <2>3. ASSUME NEW x \in Thread
          PROVE  Request(x)' = IF Request(x) = "asking" THEN "failed" ELSE Request(x)
      BY <2>1, <2>2 DEF Request
    <2> QED BY <1>b, <2>2, <2>3
  <1>8. ASSUME NEW v \in Values, Create(v) PROVE Abstract!AbsNext
    <2>1. suspend = <<>> /\ suspend' = <<>>
      BY <1>8 DEF Create, ControlInv, DeadEmptied
    <2>2. \A x : ~Contains(suspend, x)
      BY <2>1, EmptyList
    <2>3. pc' = pc /\ error' = error /\ value' = v
      BY <1>8 DEF Create
    <2>4. ASSUME NEW x \in Thread
          PROVE  Request(x)' = IF Request(x) = "asking" THEN "failed" ELSE Request(x)
      BY <2>1, <2>2, <2>3 DEF Request
    <2> QED BY <1>b, <2>3, <2>4
  <1>9. CASE UNCHANGED vars
    BY <1>9 DEF vars, Req, Request
  <1>10. ASSUME NEW u \in Thread, NEW p \in Prio, ChangePriority(u, p)
         PROVE  UNCHANGED <<value, Req>>
    BY <1>10 DEF ChangePriority, Req, Request
  <1> QED BY <1>10, <1>1, <1>2, <1>3, <1>4, <1>5, <1>6, <1>7, <1>8, <1>9 DEF Next, ThreadNext

(* The semaphore implements the abstract counting semaphore: a request is  *)
(* answered once, and a token goes to the pool only when nobody asks.      *)
THEOREM SemaphoreImplements == Spec => ImplementsCounting
  <1>1. SemInv /\ [Next]_vars => [Abstract!AbsNext]_(Abstract!absvars)
    BY AbstractNext DEF SemInv
  <1> QED BY <1>1, AbstractInit, SemaphoreInvariant, PTL
      DEF Spec, ImplementsCounting, Abstract!AbsSpec
=============================================================================
