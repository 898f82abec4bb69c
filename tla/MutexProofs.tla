----------------------------- MODULE MutexProofs -----------------------------
(***************************************************************************)
(* Proofs about Mutex, for any sets of threads and mutexes, either order   *)
(* of waiting, and any nesting below the width of the hold count.          *)
(***************************************************************************)
EXTENDS Mutex, KernelLemmas

(* A thread in a list waits for that mutex and has not failed.             *)
ListedWait ==
  \A m \in Mutexes, t \in Thread :
    Contains(suspend[m], t) => want[t] = m /\ error[t] = "EOK"

Flying(t, m) == want[t] = m /\ ~Contains(suspend[m], t) /\ error[t] = "EOK"

(* What holds of a mutex that has an owner, and of one that has none; a    *)
(* thread that waits for a mutex has not got it.                           *)
Owned(m) ==
  /\ value[m] = 0 /\ original[m] \in Prios
  /\ hold[m] \in 1 .. MaxHold
  /\ hold[m] = depth[owner[m]][m] + (IF Flying(owner[m], m) THEN 1 ELSE 0)

Free(m) == value[m] = 1 /\ hold[m] = 0 /\ suspend[m] = <<>>

PerMutex(m) ==
  /\ IF owner[m] = Null THEN Free(m) ELSE Owned(m)
  /\ \A t \in Thread : /\ depth[t][m] > 0 \/ Flying(t, m) => owner[m] = t
                       /\ want[t] = m => depth[t][m] = 0

Ownership == \A m \in Mutexes : PerMutex(m)

MutexInv == WaitersExact /\ ListedWait /\ Ownership

-----------------------------------------------------------------------------
LEMMA Types ==
  ASSUME MutexInv
  PROVE  /\ value \in [Mutexes -> 0 .. 1]
         /\ owner \in [Mutexes -> Thread \cup {Null}]
         /\ original \in [Mutexes -> 0 .. MaxPrio]
         /\ hold \in [Mutexes -> 0 .. HoldMod - 1]
         /\ suspend \in [Mutexes -> Seq(Thread)]
         /\ \A m \in Mutexes : IsInjective(suspend[m])
         /\ prio \in [Thread -> Prios]
         /\ timer \subseteq Thread
         /\ error \in [Thread -> {"EOK", "ETIMEOUT", "ERROR"}]
         /\ want \in [Thread -> Mutexes \cup {Null}]
         /\ depth \in [Thread -> [Mutexes -> Nat]]
         /\ Null \notin Thread /\ Null \notin Mutexes
  BY MutexAssumption DEF MutexInv, WaitersExact, TypeOK

LEMMA Bounds ==
  /\ MaxPrio \in Nat \ {0} /\ HoldMod \in Nat /\ MaxHold \in Nat
  /\ MaxHold >= 1 /\ MaxHold < HoldMod /\ Prios \subseteq 0 .. MaxPrio
  BY MutexAssumption DEF Prios

(* A mutex that a step does not touch keeps its invariant.                 *)
LEMMA Untouched ==
  ASSUME MutexInv, NEW n \in Mutexes,
         value'[n] = value[n], owner'[n] = owner[n], original'[n] = original[n],
         hold'[n] = hold[n], suspend'[n] = suspend[n],
         \A x \in Thread : /\ depth'[x][n] = depth[x][n]
                           /\ Flying(x, n)' <=> Flying(x, n)
                           /\ want'[x] = n => want[x] = n
  PROVE  PerMutex(n)'
  <1>1. PerMutex(n) /\ owner[n] \in Thread \cup {Null}
    BY Types DEF MutexInv, Ownership
  <1>2. CASE owner[n] = Null
    BY <1>1, <1>2 DEF PerMutex, Free
  <1>3. CASE owner[n] \in Thread
    <2>1. owner[n] # Null /\ Owned(n)
      BY <1>1, <1>3, Types DEF PerMutex
    <2>2. Owned(n)'
      BY <1>3, <2>1 DEF Owned
    <2> QED BY <1>1, <2>1, <2>2 DEF PerMutex
  <1> QED BY <1>1, <1>2, <1>3

-----------------------------------------------------------------------------
LEMMA MutexInit == Init => MutexInv
  <1> SUFFICES ASSUME Init PROVE MutexInv
    OBVIOUS
  <1>0. \A x : ~Contains(<<>>, x)
    BY DEF Contains
  <1>1. \A m \in Mutexes : suspend[m] = <<>> /\ \A x : ~Contains(suspend[m], x)
    BY <1>0 DEF Init
  <1>2. TypeOK
    <2>1. IsInjective(<<>>)
      BY DEF IsInjective
    <2> QED BY <2>1, MutexAssumption, Bounds DEF Init, TypeOK, Prios, NoPrio
  <1>3. ASSUME NEW m \in Mutexes PROVE PerMutex(m)
    BY <1>1, MutexAssumption DEF Init, PerMutex, Free, Flying
  <1> QED BY <1>1, <1>2, <1>3
      DEF Init, MutexInv, WaitersExact, TimersOfWaiters, ListedWait, Ownership

(* Steps of a thread t that neither changes a list nor waits: its error    *)
(* does not matter to the lists.                                           *)
LEMMA ListsKept ==
  ASSUME MutexInv, NEW t \in Thread, want[t] = Null, UNCHANGED <<suspend, timer, want>>,
         \A x \in Thread \ {t} : error'[x] = error[x]
  PROVE  /\ ListedWait' /\ TimersOfWaiters'
         /\ \A n \in Mutexes, x \in Thread : Flying(x, n)' <=> Flying(x, n)
  <1> USE Types
  <1>1. \A n \in Mutexes : ~Contains(suspend[n], t)
    BY DEF MutexInv, ListedWait
  <1>2. ListedWait'
    <2> SUFFICES ASSUME NEW n \in Mutexes, NEW x \in Thread, Contains(suspend[n], x)
                 PROVE  want[x] = n /\ error'[x] = "EOK"
      BY DEF ListedWait
    <2>1. want[x] = n /\ error[x] = "EOK" /\ x # t
      BY <1>1 DEF MutexInv, ListedWait
    <2> QED BY <2>1
  <1>3. TimersOfWaiters'
    BY DEF MutexInv, WaitersExact, TimersOfWaiters
  <1>4. ASSUME NEW n \in Mutexes, NEW x \in Thread PROVE Flying(x, n)' <=> Flying(x, n)
    <2>1. CASE x = t
      BY <2>1 DEF Flying
    <2>2. CASE x # t
      BY <2>2 DEF Flying
    <2> QED BY <2>1, <2>2
  <1> QED BY <1>2, <1>3, <1>4

LEMMA TakeAgainInv ==
  ASSUME MutexInv, NEW t \in Thread, NEW m \in Mutexes, TakeAgain(t, m)
  PROVE  MutexInv'
  <1> USE Types, Bounds
  <1>0. /\ want[t] = Null /\ owner[m] = t /\ depth[t][m] < MaxHold
        /\ error' = [error EXCEPT ![t] = "EOK"]
        /\ hold' = [hold EXCEPT ![m] = (@ + 1) % HoldMod]
        /\ depth' = [depth EXCEPT ![t][m] = @ + 1]
        /\ UNCHANGED <<value, owner, original, suspend, prio, timer, want>>
    BY DEF TakeAgain
  <1>1. /\ ListedWait' /\ TimersOfWaiters'
        /\ \A n \in Mutexes, x \in Thread : Flying(x, n)' <=> Flying(x, n)
    BY <1>0, ListsKept
  <1>2. PerMutex(m) /\ Owned(m) /\ ~Flying(t, m)
    BY <1>0 DEF MutexInv, Ownership, PerMutex, Flying
  <1>3. hold[m] = depth[t][m] /\ hold[m] + 1 \in 0 .. HoldMod - 1
    BY <1>0, <1>2 DEF Owned
  <1>4. hold'[m] = hold[m] + 1
    <2>1. (hold[m] + 1) % HoldMod = hold[m] + 1
      BY <1>3, ModSmall
    <2> QED BY <1>0, <2>1
  <1>5. /\ hold' \in [Mutexes -> 0 .. HoldMod - 1]
        /\ depth' \in [Thread -> [Mutexes -> Nat]]
        /\ error' \in [Thread -> {"EOK", "ETIMEOUT", "ERROR"}]
        /\ depth'[t][m] = depth[t][m] + 1
        /\ \A x \in Thread, n \in Mutexes : x # t \/ n # m => depth'[x][n] = depth[x][n]
        /\ \A n \in Mutexes \ {m} : hold'[n] = hold[n]
    BY <1>0, <1>3, <1>4
  <1>6. TypeOK'
    BY <1>0, <1>5 DEF TypeOK
  <1>7. PerMutex(m)'
    <2>1. Owned(m)'
      <3>1. /\ owner'[m] = t /\ value'[m] = value[m] /\ original'[m] = original[m]
            /\ Flying(t, m)' <=> Flying(t, m)
        BY <1>0, <1>1
      <3>2. hold'[m] \in 1 .. MaxHold /\ hold'[m] = depth'[t][m]
        BY <1>0, <1>2, <1>3, <1>4, <1>5 DEF Owned
      <3>3. depth'[t][m] \in Nat /\ value[m] = 0 /\ original[m] \in Prios
        BY <1>2, <1>5 DEF Owned
      <3> QED BY <1>2, <3>1, <3>2, <3>3 DEF Owned
    <2>2. owner'[m] # Null
      BY <1>0
    <2>3. ASSUME NEW x \in Thread
          PROVE  /\ depth'[x][m] > 0 \/ Flying(x, m)' => owner'[m] = x
                 /\ want'[x] = m => depth'[x][m] = 0
      BY <1>0, <1>1, <1>2, <1>5 DEF PerMutex
    <2> QED BY <2>1, <2>2, <2>3 DEF PerMutex
  <1>8. ASSUME NEW n \in Mutexes \ {m} PROVE PerMutex(n)'
    BY <1>0, <1>1, <1>5, Untouched
  <1> QED BY <1>1, <1>6, <1>7, <1>8 DEF MutexInv, WaitersExact, Ownership

LEMMA TakeFreeInv ==
  ASSUME MutexInv, NEW t \in Thread, NEW m \in Mutexes, TakeFree(t, m)
  PROVE  MutexInv'
  <1> USE Types, Bounds
  <1>0. /\ want[t] = Null /\ value[m] > 0
        /\ error' = [error EXCEPT ![t] = "EOK"]
        /\ value' = [value EXCEPT ![m] = @ - 1]
        /\ owner' = [owner EXCEPT ![m] = t]
        /\ original' = [original EXCEPT ![m] = prio[t]]
        /\ hold' = [hold EXCEPT ![m] = (@ + 1) % HoldMod]
        /\ depth' = [depth EXCEPT ![t][m] = @ + 1]
        /\ UNCHANGED <<suspend, prio, timer, want>>
    BY DEF TakeFree
  <1>1. /\ ListedWait' /\ TimersOfWaiters'
        /\ \A n \in Mutexes, x \in Thread : Flying(x, n)' <=> Flying(x, n)
    BY <1>0, ListsKept
  <1>2. /\ PerMutex(m) /\ owner[m] = Null /\ value[m] = 1 /\ hold[m] = 0
        /\ \A x \in Thread : depth[x][m] = 0 /\ ~Flying(x, m)
    <2>1. PerMutex(m)
      BY DEF MutexInv, Ownership
    <2>2. owner[m] = Null
      BY <1>0, <2>1 DEF PerMutex, Owned
    <2>3. value[m] = 1 /\ hold[m] = 0
      BY <2>1, <2>2 DEF PerMutex, Free
    <2>4. ASSUME NEW x \in Thread PROVE depth[x][m] = 0 /\ ~Flying(x, m)
      <3>1. owner[m] # x /\ depth[x][m] \in Nat
        BY <2>2
      <3>2. ~(depth[x][m] > 0) /\ ~Flying(x, m)
        BY <2>1, <3>1 DEF PerMutex
      <3> QED BY <3>1, <3>2
    <2> QED BY <2>1, <2>2, <2>3, <2>4
  <1>3. hold' = [hold EXCEPT ![m] = 1] /\ 1 \in 0 .. HoldMod - 1
    <2>1. HoldMod \in Nat \ {0} /\ 1 \in 0 .. HoldMod - 1 /\ hold[m] + 1 = 1
      BY <1>2
    <2>2. 1 % HoldMod = 1
      BY <2>1, ModSmall
    <2> QED BY <1>0, <2>1, <2>2
  <1>4. /\ hold' \in [Mutexes -> 0 .. HoldMod - 1]
        /\ value' \in [Mutexes -> 0 .. 1] /\ value'[m] = 0
        /\ owner' \in [Mutexes -> Thread \cup {Null}] /\ owner'[m] = t
        /\ original' \in [Mutexes -> 0 .. MaxPrio] /\ original'[m] \in Prios
        /\ depth' \in [Thread -> [Mutexes -> Nat]]
        /\ error' \in [Thread -> {"EOK", "ETIMEOUT", "ERROR"}]
        /\ depth'[t][m] = 1
        /\ \A x \in Thread, n \in Mutexes : x # t \/ n # m => depth'[x][n] = depth[x][n]
        /\ \A n \in Mutexes \ {m} : /\ hold'[n] = hold[n] /\ value'[n] = value[n]
                                    /\ owner'[n] = owner[n] /\ original'[n] = original[n]
    <2>1. prio[t] \in Prios /\ prio[t] \in 0 .. MaxPrio
      OBVIOUS
    <2>2. hold' \in [Mutexes -> 0 .. HoldMod - 1]
      BY <1>0, <1>3
    <2>3. /\ depth' \in [Thread -> [Mutexes -> Nat]] /\ depth'[t][m] = 1
          /\ \A x \in Thread, n \in Mutexes : x # t \/ n # m => depth'[x][n] = depth[x][n]
      BY <1>0, <1>2
    <2> QED BY <1>0, <1>2, <2>1, <2>2, <2>3
  <1>5. TypeOK'
    BY <1>0, <1>4 DEF TypeOK
  <1>6. PerMutex(m)'
    <2>1. Owned(m)'
      BY <1>1, <1>2, <1>3, <1>4 DEF Owned
    <2>2. owner'[m] # Null
      BY <1>4
    <2>3. ASSUME NEW x \in Thread
          PROVE  /\ depth'[x][m] > 0 \/ Flying(x, m)' => owner'[m] = x
                 /\ want'[x] = m => depth'[x][m] = 0
      BY <1>0, <1>1, <1>2, <1>4
    <2> QED BY <2>1, <2>2, <2>3 DEF PerMutex
  <1>7. ASSUME NEW n \in Mutexes \ {m} PROVE PerMutex(n)'
    BY <1>0, <1>1, <1>4, Untouched
  <1> QED BY <1>1, <1>5, <1>6, <1>7 DEF MutexInv, WaitersExact, Ownership

(* A call that is refused changes nothing but the error of its caller.     *)
LEMMA RefusedInv ==
  ASSUME MutexInv, NEW t \in Thread, NEW m \in Mutexes,
         TakeRefused(t, m) \/ ReleaseRefused(t, m)
  PROVE  MutexInv'
  <1> USE Types, Bounds
  <1>0. /\ want[t] = Null
        /\ \E e \in {"ETIMEOUT", "ERROR"} : error' = [error EXCEPT ![t] = e]
        /\ UNCHANGED <<value, owner, original, hold, suspend, prio, timer, want, depth>>
    BY DEF TakeRefused, ReleaseRefused
  <1>1. /\ error' \in [Thread -> {"EOK", "ETIMEOUT", "ERROR"}]
        /\ \A x \in Thread \ {t} : error'[x] = error[x]
    BY <1>0
  <1>2. /\ ListedWait' /\ TimersOfWaiters'
        /\ \A n \in Mutexes, x \in Thread : Flying(x, n)' <=> Flying(x, n)
    BY <1>0, <1>1, ListsKept
  <1>3. TypeOK'
    BY <1>0, <1>1 DEF TypeOK
  <1>4. ASSUME NEW n \in Mutexes PROVE PerMutex(n)'
    BY <1>0, <1>2, Untouched
  <1> QED BY <1>2, <1>3, <1>4 DEF MutexInv, WaitersExact, Ownership

LEMMA TakeWaitInv ==
  ASSUME MutexInv, NEW t \in Thread, NEW m \in Mutexes, TakeWait(t, m)
  PROVE  MutexInv'
  <1> USE Types, Bounds
  <1> DEFINE r == ListSuspend(suspend[m], t, Flag, prio')
  <1>0. /\ want[t] = Null /\ owner[m] # t /\ value[m] = 0
        /\ error' = [error EXCEPT ![t] = "EOK"]
        /\ prio' = Lend(t, owner[m])
        /\ suspend' = [suspend EXCEPT ![m] = r]
        /\ timer' \subseteq timer \cup {t}
        /\ want' = [want EXCEPT ![t] = m]
        /\ UNCHANGED <<value, owner, original, hold, depth>>
    BY DEF TakeWait
  <1>1. \A n \in Mutexes : ~Contains(suspend[n], t)
    BY <1>0 DEF MutexInv, ListedWait
  <1>2. /\ r \in Seq(Thread) /\ IsInjective(r)
        /\ \A x : Contains(r, x) <=> Contains(suspend[m], x) \/ x = t
    BY <1>1, ListSuspendContains
  <1> HIDE DEF r
  <1>3. prio' \in [Thread -> Prios]
    BY <1>0 DEF Lend
  <1>4. /\ suspend' \in [Mutexes -> Seq(Thread)] /\ suspend'[m] = r
        /\ want' \in [Thread -> Mutexes \cup {Null}] /\ want'[t] = m
        /\ error' \in [Thread -> {"EOK", "ETIMEOUT", "ERROR"}] /\ error'[t] = "EOK"
        /\ \A n \in Mutexes \ {m} : suspend'[n] = suspend[n]
        /\ \A x \in Thread \ {t} : want'[x] = want[x] /\ error'[x] = error[x]
    BY <1>0, <1>2
  <1>5. TypeOK'
    BY <1>0, <1>2, <1>3, <1>4 DEF TypeOK
  <1>6. ListedWait'
    BY <1>0, <1>1, <1>2, <1>4 DEF MutexInv, ListedWait
  <1>7. TimersOfWaiters'
    <2> SUFFICES ASSUME NEW x \in timer'
                 PROVE  want'[x] # Null /\ Contains(suspend'[want'[x]], x)
      BY DEF TimersOfWaiters
    <2>1. CASE x = t
      BY <1>2, <1>4, <2>1
    <2>2. CASE x # t
      <3>1. x \in Thread /\ want[x] \in Mutexes /\ Contains(suspend[want[x]], x)
        BY <1>0, <2>2 DEF MutexInv, WaitersExact, TimersOfWaiters
      <3> QED BY <1>2, <1>4, <2>2, <3>1
    <2> QED BY <2>1, <2>2
  <1>8. ASSUME NEW n \in Mutexes, NEW x \in Thread PROVE Flying(x, n)' <=> Flying(x, n)
    <2>1. CASE x = t
      BY <1>0, <1>2, <1>4, <2>1 DEF Flying
    <2>2. CASE x # t /\ n = m
      BY <1>2, <1>4, <2>2 DEF Flying
    <2>3. CASE x # t /\ n # m
      BY <1>4, <2>3 DEF Flying
    <2> QED BY <2>1, <2>2, <2>3
  <1>9. ASSUME NEW n \in Mutexes \ {m} PROVE PerMutex(n)'
    BY <1>0, <1>4, <1>8, Untouched
  <1>10. PerMutex(m)'
    <2>1. PerMutex(m)
      BY DEF MutexInv, Ownership
    <2>2. owner[m] \in Thread /\ Owned(m)
      BY <1>0, <2>1 DEF PerMutex, Free
    <2>3. Owned(m)' /\ owner'[m] # Null
      BY <1>0, <1>8, <2>2 DEF Owned
    <2>4. ASSUME NEW x \in Thread
          PROVE  /\ depth'[x][m] > 0 \/ Flying(x, m)' => owner'[m] = x
                 /\ want'[x] = m => depth'[x][m] = 0
      <3>1. x = t => depth[x][m] = 0
        BY <1>0, <2>1 DEF PerMutex
      <3> QED BY <1>0, <1>4, <1>8, <2>1, <3>1 DEF PerMutex
    <2> QED BY <2>3, <2>4 DEF PerMutex
  <1> QED BY <1>5, <1>6, <1>7, <1>9, <1>10 DEF MutexInv, WaitersExact, Ownership

LEMMA TakeReturnInv ==
  ASSUME MutexInv, NEW t \in Thread, TakeReturn(t)
  PROVE  MutexInv'
  <1> USE Types, Bounds
  <1>1. PICK m \in Mutexes : want[t] = m
    BY DEF TakeReturn
  <1>0. /\ ~Contains(suspend[m], t)
        /\ want' = [want EXCEPT ![t] = Null]
        /\ depth' = IF error[t] = "EOK" THEN [depth EXCEPT ![t][m] = @ + 1] ELSE depth
        /\ UNCHANGED <<value, owner, original, hold, suspend, prio, timer, error>>
    BY <1>1 DEF TakeReturn
  <1>2. /\ want' \in [Thread -> Mutexes \cup {Null}] /\ want'[t] = Null
        /\ \A x \in Thread \ {t} : want'[x] = want[x]
        /\ \A x \in Thread, n \in Mutexes : x # t \/ n # m => depth'[x][n] = depth[x][n]
        /\ depth'[t][m] = depth[t][m] + (IF error[t] = "EOK" THEN 1 ELSE 0)
    BY <1>0
  <1>3. depth' \in [Thread -> [Mutexes -> Nat]]
    BY <1>0
  <1>4. TypeOK'
    BY <1>0, <1>2, <1>3 DEF TypeOK
  <1>5. \A n \in Mutexes : ~Contains(suspend[n], t)
    BY <1>0, <1>1 DEF MutexInv, ListedWait
  <1>6. ListedWait'
    BY <1>0, <1>2, <1>5 DEF MutexInv, ListedWait
  <1>7. TimersOfWaiters'
    <2> SUFFICES ASSUME NEW x \in timer
                 PROVE  want'[x] # Null /\ Contains(suspend[want'[x]], x)
      BY <1>0 DEF TimersOfWaiters
    <2>1. x \in Thread /\ want[x] \in Mutexes /\ Contains(suspend[want[x]], x)
      BY DEF MutexInv, WaitersExact, TimersOfWaiters
    <2>2. x # t
      BY <1>5, <2>1
    <2> QED BY <1>2, <2>1, <2>2
  <1>8. /\ \A n \in Mutexes, x \in Thread : x # t => (Flying(x, n)' <=> Flying(x, n))
        /\ \A n \in Mutexes : n # m => ~Flying(t, n)
        /\ \A n \in Mutexes : ~Flying(t, n)'
        /\ Flying(t, m) <=> error[t] = "EOK"
    BY <1>0, <1>1, <1>2 DEF Flying
  <1>9. ASSUME NEW n \in Mutexes \ {m} PROVE PerMutex(n)'
    <2>1. ASSUME NEW x \in Thread
          PROVE  /\ depth'[x][n] = depth[x][n] /\ (Flying(x, n)' <=> Flying(x, n))
                 /\ want'[x] = n => want[x] = n
      BY <1>2, <1>8
    <2> QED BY <1>0, <2>1, Untouched
  <1>10. PerMutex(m)'
    <2>1. PerMutex(m) /\ depth[t][m] = 0
      BY <1>0, <1>1 DEF MutexInv, Ownership, PerMutex
    <2>2. ASSUME NEW x \in Thread
          PROVE  /\ depth'[x][m] > 0 \/ Flying(x, m)' => owner'[m] = x
                 /\ want'[x] = m => depth'[x][m] = 0
      <3>1. CASE x = t
        BY <1>0, <1>2, <1>8, <2>1, <3>1 DEF PerMutex
      <3>2. CASE x # t
        BY <1>0, <1>2, <1>8, <2>1, <3>2 DEF PerMutex
      <3> QED BY <3>1, <3>2
    <2>3. CASE owner[m] = Null
      <3>1. Free(m)'
        BY <1>0, <2>1, <2>3 DEF PerMutex, Free
      <3> QED BY <1>0, <2>2, <2>3, <3>1 DEF PerMutex
    <2>4. CASE owner[m] \in Thread
      <3>0. Owned(m)
        BY <2>1, <2>4 DEF PerMutex
      <3>1. CASE owner[m] = t
        <4>1. Owned(m)'
          BY <1>0, <1>2, <1>8, <2>1, <3>0, <3>1 DEF Owned
        <4> QED BY <1>0, <2>2, <2>4, <4>1 DEF PerMutex
      <3>2. CASE owner[m] # t
        <4>1. Owned(m)'
          BY <1>0, <1>2, <1>8, <2>4, <3>0, <3>2 DEF Owned
        <4> QED BY <1>0, <2>2, <2>4, <4>1 DEF PerMutex
      <3> QED BY <3>1, <3>2
    <2> QED BY <1>0, <2>3, <2>4
  <1> QED BY <1>4, <1>6, <1>7, <1>9, <1>10 DEF MutexInv, WaitersExact, Ownership

LEMMA ReleaseInnerInv ==
  ASSUME MutexInv, NEW t \in Thread, NEW m \in Mutexes, ReleaseInner(t, m)
  PROVE  MutexInv'
  <1> USE Types, Bounds
  <1>0. /\ want[t] = Null /\ owner[m] = t /\ hold[m] # 1
        /\ hold' = [hold EXCEPT ![m] = (@ + HoldMod - 1) % HoldMod]
        /\ depth' = [depth EXCEPT ![t][m] = @ - 1]
        /\ UNCHANGED <<value, owner, original, suspend, prio, timer, error, want>>
    BY DEF ReleaseInner
  <1>1. /\ ListedWait' /\ TimersOfWaiters'
        /\ \A n \in Mutexes, x \in Thread : Flying(x, n)' <=> Flying(x, n)
    BY <1>0, ListsKept
  <1>2. PerMutex(m) /\ Owned(m) /\ ~Flying(t, m)
    BY <1>0 DEF MutexInv, Ownership, PerMutex, Flying
  <1>3. hold[m] = depth[t][m] /\ hold[m] - 1 \in 1 .. MaxHold /\ depth[t][m] - 1 \in Nat
    BY <1>0, <1>2 DEF Owned
  <1>4. hold' = [hold EXCEPT ![m] = @ - 1] /\ hold[m] - 1 \in 0 .. HoldMod - 1
    <2>1. /\ HoldMod \in Nat \ {0} /\ hold[m] \in Nat
          /\ hold[m] - 1 \in 0 .. HoldMod - 1
      BY <1>3
    <2>2. (hold[m] + HoldMod - 1) % HoldMod = hold[m] - 1
      BY <2>1, ModBack
    <2> QED BY <1>0, <2>1, <2>2
  <1>5. /\ hold' \in [Mutexes -> 0 .. HoldMod - 1] /\ hold'[m] = hold[m] - 1
        /\ depth' \in [Thread -> [Mutexes -> Nat]]
        /\ depth'[t][m] = depth[t][m] - 1
        /\ \A x \in Thread, n \in Mutexes : x # t \/ n # m => depth'[x][n] = depth[x][n]
        /\ \A n \in Mutexes \ {m} : hold'[n] = hold[n]
    BY <1>0, <1>3, <1>4
  <1>6. TypeOK'
    BY <1>0, <1>5 DEF TypeOK
  <1>7. PerMutex(m)'
    <2>1. Owned(m)'
      BY <1>0, <1>1, <1>2, <1>3, <1>5 DEF Owned
    <2>2. owner'[m] # Null
      BY <1>0
    <2>3. ASSUME NEW x \in Thread
          PROVE  /\ depth'[x][m] > 0 \/ Flying(x, m)' => owner'[m] = x
                 /\ want'[x] = m => depth'[x][m] = 0
      BY <1>0, <1>1, <1>2, <1>5 DEF PerMutex
    <2> QED BY <2>1, <2>2, <2>3 DEF PerMutex
  <1>8. ASSUME NEW n \in Mutexes \ {m} PROVE PerMutex(n)'
    BY <1>0, <1>1, <1>5, Untouched
  <1> QED BY <1>1, <1>6, <1>7, <1>8 DEF MutexInv, WaitersExact, Ownership

LEMMA ReleaseFreeInv ==
  ASSUME MutexInv, NEW t \in Thread, NEW m \in Mutexes, ReleaseFree(t, m)
  PROVE  MutexInv'
  <1> USE Types, Bounds
  <1>0. /\ want[t] = Null /\ owner[m] = t /\ hold[m] = 1 /\ suspend[m] = <<>>
        /\ prio' = [prio EXCEPT ![t] = original[m]]
        /\ value' = [value EXCEPT ![m] = @ + 1]
        /\ owner' = [owner EXCEPT ![m] = Null]
        /\ original' = [original EXCEPT ![m] = NoPrio]
        /\ hold' = [hold EXCEPT ![m] = 0]
        /\ depth' = [depth EXCEPT ![t][m] = @ - 1]
        /\ UNCHANGED <<suspend, timer, error, want>>
    BY DEF ReleaseFree, GivenBack
  <1>1. /\ ListedWait' /\ TimersOfWaiters'
        /\ \A n \in Mutexes, x \in Thread : Flying(x, n)' <=> Flying(x, n)
    BY <1>0, ListsKept
  <1>2. PerMutex(m) /\ Owned(m) /\ ~Flying(t, m)
    BY <1>0 DEF MutexInv, Ownership, PerMutex, Flying
  <1>3. depth[t][m] = 1 /\ value[m] = 0 /\ original[m] \in Prios
    BY <1>0, <1>2 DEF Owned
  <1>4. /\ hold' \in [Mutexes -> 0 .. HoldMod - 1] /\ hold'[m] = 0
        /\ value' \in [Mutexes -> 0 .. 1] /\ value'[m] = 1
        /\ owner' \in [Mutexes -> Thread \cup {Null}] /\ owner'[m] = Null
        /\ original' \in [Mutexes -> 0 .. MaxPrio]
        /\ prio' \in [Thread -> Prios]
        /\ \A n \in Mutexes \ {m} : /\ hold'[n] = hold[n] /\ value'[n] = value[n]
                                    /\ owner'[n] = owner[n] /\ original'[n] = original[n]
    <2>1. NoPrio \in 0 .. MaxPrio /\ 0 \in 0 .. HoldMod - 1
      BY DEF NoPrio
    <2> QED BY <1>0, <1>3, <2>1
  <1>5. /\ depth' \in [Thread -> [Mutexes -> Nat]] /\ depth'[t][m] = 0
        /\ \A x \in Thread, n \in Mutexes : x # t \/ n # m => depth'[x][n] = depth[x][n]
    BY <1>0, <1>3
  <1>6. TypeOK'
    BY <1>0, <1>4, <1>5 DEF TypeOK
  <1>7. PerMutex(m)'
    <2>1. Free(m)'
      BY <1>0, <1>4 DEF Free
    <2>2. ASSUME NEW x \in Thread
          PROVE  ~(depth'[x][m] > 0) /\ ~Flying(x, m)' /\ depth'[x][m] = 0
      <3>1. CASE x = t
        BY <1>1, <1>2, <1>5, <3>1
      <3>2. CASE x # t
        BY <1>0, <1>1, <1>2, <1>5, <3>2 DEF PerMutex
      <3> QED BY <3>1, <3>2
    <2> QED BY <1>4, <2>1, <2>2 DEF PerMutex
  <1>8. ASSUME NEW n \in Mutexes \ {m} PROVE PerMutex(n)'
    BY <1>0, <1>1, <1>4, <1>5, Untouched
  <1> QED BY <1>1, <1>6, <1>7, <1>8 DEF MutexInv, WaitersExact, Ownership

-----------------------------------------------------------------------------
(* A waiter u of m leaves the list and keeps waiting for its turn to run.  *)
LEMMA LeavesList ==
  ASSUME MutexInv, NEW m \in Mutexes, NEW u \in Thread, Contains(suspend[m], u),
         Resumed(u, m), UNCHANGED want, \A x \in Thread \ {u} : error'[x] = error[x]
  PROVE  /\ suspend' \in [Mutexes -> Seq(Thread)]
         /\ \A n \in Mutexes : IsInjective(suspend'[n])
         /\ timer' \subseteq Thread
         /\ ListedWait' /\ TimersOfWaiters'
         /\ \A n \in Mutexes \ {m} : suspend'[n] = suspend[n]
         /\ ~Contains(suspend'[m], u)
         /\ \A x \in Thread, n \in Mutexes :
              x # u \/ n # m => (Flying(x, n)' <=> Flying(x, n))
  <1> USE Types
  <1> DEFINE r == RemoveFirst(suspend[m], u)
  <1>1. suspend' = [suspend EXCEPT ![m] = r] /\ timer' = timer \ {u}
    BY DEF Resumed
  <1>2. /\ r \in Seq(Thread) /\ IsInjective(r)
        /\ \A x : Contains(r, x) <=> Contains(suspend[m], x) /\ x # u
    <2>1. suspend[m] \in Seq(Thread) /\ IsInjective(suspend[m])
      OBVIOUS
    <2> QED BY <2>1, RemoveContains
  <1> HIDE DEF r
  <1>3. /\ suspend' \in [Mutexes -> Seq(Thread)] /\ suspend'[m] = r
        /\ \A n \in Mutexes \ {m} : suspend'[n] = suspend[n]
    BY <1>1, <1>2
  <1>4. want[u] = m
    BY DEF MutexInv, ListedWait
  <1>5. \A n \in Mutexes, x \in Thread :
          Contains(suspend'[n], x) <=> Contains(suspend[n], x) /\ ~(n = m /\ x = u)
    <2> TAKE n \in Mutexes, x \in Thread
    <2>1. CASE n = m
      BY <1>2, <1>3, <2>1
    <2>2. CASE n # m
      BY <1>3, <2>2
    <2> QED BY <2>1, <2>2
  <1>6. \A n \in Mutexes : ~Contains(suspend'[n], u)
    <2>1. \A n \in Mutexes : Contains(suspend[n], u) => n = m
      BY <1>4 DEF MutexInv, ListedWait
    <2> QED BY <1>5, <2>1
  <1>7. ListedWait'
    <2> SUFFICES ASSUME NEW n \in Mutexes, NEW x \in Thread, Contains(suspend'[n], x)
                 PROVE  want[x] = n /\ error'[x] = "EOK"
      BY DEF ListedWait
    <2>1. x # u /\ Contains(suspend[n], x)
      BY <1>5, <1>6
    <2> QED BY <2>1 DEF MutexInv, ListedWait
  <1>8. TimersOfWaiters'
    <2> SUFFICES ASSUME NEW x \in timer \ {u}
                 PROVE  want[x] # Null /\ Contains(suspend'[want[x]], x)
      BY <1>1 DEF TimersOfWaiters
    <2>1. x \in Thread /\ want[x] \in Mutexes /\ Contains(suspend[want[x]], x)
      BY DEF MutexInv, WaitersExact, TimersOfWaiters
    <2> QED BY <1>5, <2>1
  <1>9. ASSUME NEW x \in Thread, NEW n \in Mutexes, x # u \/ n # m
        PROVE  Flying(x, n)' <=> Flying(x, n)
    <2>1. CASE x = u
      BY <1>4, <1>9, <2>1 DEF Flying
    <2>2. CASE x # u
      BY <1>5, <2>2 DEF Flying
    <2> QED BY <2>1, <2>2
  <1> QED BY <1>1, <1>2, <1>3, <1>6, <1>7, <1>8, <1>9

LEMMA TimeoutInv ==
  ASSUME MutexInv, NEW u \in Thread, Timeout(u)
  PROVE  MutexInv'
  <1> USE Types, Bounds
  <1>1. PICK m \in Mutexes : want[u] = m /\ Contains(suspend[m], u)
    BY DEF Timeout, MutexInv, WaitersExact, TimersOfWaiters
  <1>2. /\ error' = [error EXCEPT ![u] = "ETIMEOUT"]
        /\ Resumed(u, m)
        /\ UNCHANGED <<value, owner, original, hold, prio, want, depth>>
    BY <1>1 DEF Timeout
  <1>3. /\ error' \in [Thread -> {"EOK", "ETIMEOUT", "ERROR"}] /\ error'[u] = "ETIMEOUT"
        /\ \A x \in Thread \ {u} : error'[x] = error[x]
    BY <1>2
  <1>4. /\ suspend' \in [Mutexes -> Seq(Thread)]
        /\ \A n \in Mutexes : IsInjective(suspend'[n])
        /\ timer' \subseteq Thread
        /\ ListedWait' /\ TimersOfWaiters'
        /\ \A n \in Mutexes \ {m} : suspend'[n] = suspend[n]
        /\ \A x \in Thread, n \in Mutexes :
             x # u \/ n # m => (Flying(x, n)' <=> Flying(x, n))
    BY <1>1, <1>2, <1>3, LeavesList
  <1>5. ~Flying(u, m) /\ ~Flying(u, m)'
    BY <1>1, <1>3 DEF Flying
  <1>6. \A x \in Thread, n \in Mutexes : Flying(x, n)' <=> Flying(x, n)
    BY <1>4, <1>5
  <1>7. TypeOK'
    BY <1>2, <1>3, <1>4 DEF TypeOK
  <1>8. ASSUME NEW n \in Mutexes \ {m} PROVE PerMutex(n)'
    BY <1>2, <1>4, <1>6, Untouched
  <1>9. PerMutex(m)'
    <2>1. PerMutex(m)
      BY DEF MutexInv, Ownership
    <2>2. suspend[m] # <<>>
      BY <1>1, EmptyContains
    <2>3. owner[m] \in Thread /\ Owned(m)
      BY <2>1, <2>2 DEF PerMutex, Free
    <2>4. Owned(m)' /\ owner'[m] # Null
      BY <1>2, <1>6, <2>3 DEF Owned
    <2>5. ASSUME NEW x \in Thread
          PROVE  /\ depth'[x][m] > 0 \/ Flying(x, m)' => owner'[m] = x
                 /\ want'[x] = m => depth'[x][m] = 0
      BY <1>2, <1>6, <2>1 DEF PerMutex
    <2> QED BY <2>4, <2>5 DEF PerMutex
  <1> QED BY <1>4, <1>7, <1>8, <1>9 DEF MutexInv, WaitersExact, Ownership

(* Every priority that a hand-over gives out is one of a thread.           *)
LEMMA PromotedType ==
  ASSUME NEW p \in [Thread -> Prios], NEW u \in Thread, NEW m \in Mutexes,
         suspend[m] \in Seq(Thread)
  PROVE  Promoted(p, u, m) \in [Thread -> Prios]
  <1> USE Bounds
  <1> DEFINE I == {MaxPrio - 1} \cup {p[suspend[m][i]] : i \in DOMAIN suspend[m]}
  <1>1. I \subseteq Prios /\ I # {} /\ Prios \subseteq Nat
    BY DEF Prios
  <1>2. Min(I) \in Prios
    BY <1>1, MinNat
  <1>3. ListHighest(suspend[m], p, MaxPrio) = Min(I)
    BY DEF ListHighest
  <1> HIDE DEF I
  <1> QED BY <1>2, <1>3 DEF Promoted

LEMMA ReleaseHandOverInv ==
  ASSUME MutexInv, NEW t \in Thread, NEW m \in Mutexes, ReleaseHandOver(t, m)
  PROVE  MutexInv'
  <1> USE Types, Bounds
  <1> DEFINE p == [prio EXCEPT ![t] = original[m]]
  <1>1. PICK u \in Thread : u = Head(suspend[m]) /\ Contains(suspend[m], u)
    <2>1. suspend[m] \in Seq(Thread) /\ suspend[m] # <<>>
      BY DEF ReleaseHandOver
    <2> QED BY <2>1, HeadContains
  <1>2. /\ want[t] = Null /\ owner[m] = t /\ hold[m] = 1
        /\ owner' = [owner EXCEPT ![m] = u]
        /\ original' = [original EXCEPT ![m] = p[u]]
        /\ prio' = Promoted(p, u, m)
        /\ Resumed(u, m)
        /\ depth' = [depth EXCEPT ![t][m] = @ - 1]
        /\ UNCHANGED <<value, hold, error, want>>
    BY <1>1 DEF ReleaseHandOver, GivenBack
  <1>3. PerMutex(m) /\ Owned(m) /\ ~Flying(t, m)
    BY <1>2 DEF MutexInv, Ownership, PerMutex, Flying
  <1>4. depth[t][m] = 1 /\ value[m] = 0 /\ original[m] \in Prios
    BY <1>2, <1>3 DEF Owned
  <1>5. p \in [Thread -> Prios] /\ p[u] \in Prios /\ p[u] \in 0 .. MaxPrio
    BY <1>4
  <1> HIDE DEF p
  <1>6. prio' \in [Thread -> Prios]
    BY <1>2, <1>5, PromotedType
  <1>7. /\ suspend' \in [Mutexes -> Seq(Thread)]
        /\ \A n \in Mutexes : IsInjective(suspend'[n])
        /\ timer' \subseteq Thread
        /\ ListedWait' /\ TimersOfWaiters'
        /\ \A n \in Mutexes \ {m} : suspend'[n] = suspend[n]
        /\ ~Contains(suspend'[m], u)
        /\ \A x \in Thread, n \in Mutexes :
             x # u \/ n # m => (Flying(x, n)' <=> Flying(x, n))
    BY <1>1, <1>2, LeavesList
  <1>8. /\ owner' \in [Mutexes -> Thread \cup {Null}] /\ owner'[m] = u
        /\ original' \in [Mutexes -> 0 .. MaxPrio] /\ original'[m] \in Prios
        /\ \A n \in Mutexes \ {m} : owner'[n] = owner[n] /\ original'[n] = original[n]
    BY <1>2, <1>5
  <1>9. /\ depth' \in [Thread -> [Mutexes -> Nat]] /\ depth'[t][m] = 0
        /\ \A x \in Thread, n \in Mutexes : x # t \/ n # m => depth'[x][n] = depth[x][n]
    BY <1>2, <1>4
  <1>10. TypeOK'
    BY <1>2, <1>6, <1>7, <1>8, <1>9 DEF TypeOK
  <1>11. /\ want[u] = m /\ error[u] = "EOK" /\ u # t
         /\ Flying(u, m)'
    <2>1. want[u] = m /\ error[u] = "EOK"
      BY <1>1 DEF MutexInv, ListedWait
    <2>2. u # t
      BY <1>2, <2>1
    <2> QED BY <1>2, <1>7, <2>1, <2>2 DEF Flying
  <1>12. \A x \in Thread : depth'[x][m] = 0 /\ (Flying(x, m)' => x = u)
    <2> TAKE x \in Thread
    <2>1. CASE x = t
      BY <1>3, <1>7, <1>9, <1>11, <2>1
    <2>2. CASE x # t
      <3>1. depth[x][m] \in Nat /\ ~(depth[x][m] > 0) /\ ~Flying(x, m)
        BY <1>2, <1>3, <2>2 DEF PerMutex
      <3> QED BY <1>7, <1>9, <2>2, <3>1
    <2> QED BY <2>1, <2>2
  <1>13. PerMutex(m)'
    <2>1. Owned(m)' /\ owner'[m] # Null
      BY <1>2, <1>4, <1>8, <1>11, <1>12 DEF Owned
    <2>2. ASSUME NEW x \in Thread
          PROVE  /\ depth'[x][m] > 0 \/ Flying(x, m)' => owner'[m] = x
                 /\ want'[x] = m => depth'[x][m] = 0
      BY <1>8, <1>12
    <2> QED BY <2>1, <2>2 DEF PerMutex
  <1>14. ASSUME NEW n \in Mutexes \ {m} PROVE PerMutex(n)'
    BY <1>2, <1>7, <1>8, <1>9, Untouched
  <1> QED BY <1>7, <1>10, <1>13, <1>14 DEF MutexInv, WaitersExact, Ownership

-----------------------------------------------------------------------------
LEMMA MutexNext == MutexInv /\ [Next]_vars => MutexInv'
  <1> SUFFICES ASSUME MutexInv, [Next]_vars PROVE MutexInv'
    OBVIOUS
  <1>1. CASE UNCHANGED vars
    <2>1. TypeOK' /\ TimersOfWaiters' /\ ListedWait'
      BY <1>1 DEF vars, MutexInv, WaitersExact, TypeOK, TimersOfWaiters, ListedWait
    <2>2. ASSUME NEW n \in Mutexes PROVE PerMutex(n)'
      <3>1. \A x \in Thread : Flying(x, n)' <=> Flying(x, n)
        BY <1>1 DEF vars, Flying
      <3> QED BY <1>1, <3>1, Untouched DEF vars
    <2> QED BY <2>1, <2>2 DEF MutexInv, WaitersExact, Ownership
  <1>2. ASSUME NEW t \in Thread, TakeReturn(t) PROVE MutexInv'
    BY <1>2, TakeReturnInv
  <1>3. ASSUME NEW t \in Thread, Timeout(t) PROVE MutexInv'
    BY <1>3, TimeoutInv
  <1>4. ASSUME NEW t \in Thread, NEW m \in Mutexes, Take(t, m) PROVE MutexInv'
    BY <1>4, TakeAgainInv, TakeFreeInv, RefusedInv, TakeWaitInv DEF Take
  <1>5. ASSUME NEW t \in Thread, NEW m \in Mutexes, Release(t, m) PROVE MutexInv'
    BY <1>5, RefusedInv, ReleaseInnerInv, ReleaseFreeInv, ReleaseHandOverInv DEF Release
  <1> QED BY <1>1, <1>2, <1>3, <1>4, <1>5 DEF Next

(* The inductive invariant of rt_mutex_take, rt_mutex_release and their    *)
(* timeouts: lists, timers, owners and hold counts agree after every step. *)
THEOREM MutexInvariant == Spec => []MutexInv
  <1> QED BY MutexInit, MutexNext, PTL DEF Spec

(* No thread is twice in a list of waiters, and a thread timer only runs   *)
(* for a thread that rt_mutex_take has put in one.                         *)
THEOREM MutexWaiters == Spec => []WaitersExact
  <1>1. MutexInv => WaitersExact
    BY DEF MutexInv
  <1> QED BY <1>1, MutexInvariant, PTL

LEMMA MutexInvOwnership == MutexInv => OwnershipExact
  <1> SUFFICES ASSUME MutexInv, NEW m \in Mutexes
               PROVE  /\ InFlight(m) \subseteq {owner[m]}
                      /\ \A t \in Thread : depth[t][m] > 0 => owner[m] = t
                      /\ owner[m] # Null =>
                           hold[m] = depth[owner[m]][m] + Cardinality(InFlight(m))
                      /\ value[m] = 1 <=> owner[m] = Null
                      /\ owner[m] = Null => suspend[m] = <<>>
    BY DEF OwnershipExact
  <1> USE Types
  <1>1. PerMutex(m)
    BY DEF MutexInv, Ownership
  <1>2. \A t \in Thread : t \in InFlight(m) <=> Flying(t, m)
    BY DEF InFlight, Flying
  <1>3. InFlight(m) \subseteq Thread
    BY DEF InFlight
  <1>4. InFlight(m) \subseteq {owner[m]}
    BY <1>1, <1>2, <1>3 DEF PerMutex
  <1>5. /\ \A t \in Thread : depth[t][m] > 0 => owner[m] = t
        /\ value[m] = 1 <=> owner[m] = Null
        /\ owner[m] = Null => suspend[m] = <<>>
    BY <1>1 DEF PerMutex, Owned, Free
  <1>6. ASSUME owner[m] # Null
        PROVE  hold[m] = depth[owner[m]][m] + Cardinality(InFlight(m))
    <2>1. owner[m] \in Thread /\ Owned(m)
      BY <1>1, <1>6 DEF PerMutex
    <2>2. CASE Flying(owner[m], m)
      <3>1. InFlight(m) = {owner[m]}
        BY <1>2, <1>4, <2>1, <2>2
      <3>2. Cardinality({owner[m]}) = 1
        BY FS_Singleton
      <3> QED BY <2>1, <2>2, <3>1, <3>2 DEF Owned
    <2>3. CASE ~Flying(owner[m], m)
      <3>1. InFlight(m) = {}
        BY <1>2, <1>4, <2>1, <2>3
      <3>2. Cardinality({}) = 0
        BY FS_EmptySet
      <3> QED BY <2>1, <2>3, <3>1, <3>2 DEF Owned
    <2> QED BY <2>2, <2>3
  <1> QED BY <1>4, <1>5, <1>6

(* Mutual exclusion, through every nesting, hand-over and timeout: only    *)
(* the owner is inside, and mutex->hold counts the releases it owes.       *)
THEOREM MutexOwnership == Spec => []OwnershipExact
  <1> QED BY MutexInvariant, MutexInvOwnership, PTL

-----------------------------------------------------------------------------
(***************************************************************************)
(* Priorities.  A thread remembers one lent priority per mutex and gives   *)
(* back whatever it had when it took that mutex, so what follows needs     *)
(* callers that hold one mutex at a time.                                  *)
(***************************************************************************)

(* A thread that owns a mutex owns no other and waits for no other.        *)
OneAtATime ==
  \A t \in Thread : \A m, n \in Mutexes :
    owner[m] = t /\ (owner[n] = t \/ want[t] = n) => m = n

(* The priority an owner gives back is its own, and a list by priority is  *)
(* in the order of the waiters' own priorities, which is why the first is  *)
(* a good next owner.                                                      *)
GivesBackOwn == \A m \in Mutexes : owner[m] # Null => original[m] = InitPrio[owner[m]]

ByPriority == Flag = "PRIO" => \A m \in Mutexes : Sorted(suspend[m], InitPrio)

PrioInv == PriorityRestored /\ OwnerInherits /\ GivesBackOwn /\ ByPriority

(* A thread in a list owns nothing and so has its own priority.            *)
WaitersOwnNothing ==
  \A m \in Mutexes, t \in Thread :
    Contains(suspend[m], t) => /\ \A n \in Mutexes : owner[n] # t
                               /\ owner[m] \in Thread

LEMMA WaitersPlain == MutexInv /\ OneAtATime => WaitersOwnNothing
  <1> SUFFICES ASSUME MutexInv, OneAtATime, NEW m \in Mutexes, NEW t \in Thread,
                      Contains(suspend[m], t)
               PROVE  (\A n \in Mutexes : owner[n] # t) /\ owner[m] \in Thread
    BY DEF WaitersOwnNothing
  <1> USE Types, Bounds
  <1>1. want[t] = m /\ PerMutex(m) /\ ~Flying(t, m)
    BY DEF MutexInv, ListedWait, Ownership, Flying
  <1>2. suspend[m] # <<>>
    BY EmptyContains
  <1>3. owner[m] \in Thread /\ Owned(m)
    BY <1>1, <1>2 DEF PerMutex, Free
  <1>4. owner[m] # t
    BY <1>1, <1>3 DEF PerMutex, Owned
  <1> QED BY <1>1, <1>3, <1>4 DEF OneAtATime

LEMMA PrioInit == Init => PrioInv
  <1> SUFFICES ASSUME Init PROVE PrioInv
    OBVIOUS
  <1>1. \A m \in Mutexes : suspend[m] = <<>> /\ owner[m] = Null
    BY DEF Init
  <1>2. \A x : ~Contains(<<>>, x)
    BY DEF Contains
  <1>3. Sorted(<<>>, InitPrio)
    BY DEF Sorted
  <1> QED BY <1>1, <1>2, <1>3 DEF Init, PrioInv, PriorityRestored, OwnerInherits,
                                  GivesBackOwn, ByPriority

(* Steps that change no owner and no priority, and let no thread wait      *)
LEMMA PrioQuiet ==
  ASSUME MutexInv, PrioInv, UNCHANGED <<owner, original, prio>>,
         \A m \in Mutexes :
           \/ suspend'[m] = suspend[m]
           \/ \E u \in Thread : suspend'[m] = RemoveFirst(suspend[m], u)
  PROVE  PrioInv'
  <1> USE Types
  <1>1. \A m \in Mutexes : /\ \A x \in Thread : Contains(suspend'[m], x) => Contains(suspend[m], x)
                           /\ Sorted(suspend[m], InitPrio) => Sorted(suspend'[m], InitPrio)
    <2> TAKE m \in Mutexes
    <2>1. CASE suspend'[m] = suspend[m]
      BY <2>1
    <2>2. ASSUME NEW u \in Thread, suspend'[m] = RemoveFirst(suspend[m], u)
          PROVE  /\ \A x \in Thread : Contains(suspend'[m], x) => Contains(suspend[m], x)
                 /\ Sorted(suspend[m], InitPrio) => Sorted(suspend'[m], InitPrio)
      <3>1. suspend[m] \in Seq(Thread) /\ IsInjective(suspend[m])
        OBVIOUS
      <3> QED BY <2>2, <3>1, RemoveContains, RemoveSorted
    <2> QED BY <2>1, <2>2
  <1> QED BY <1>1 DEF PrioInv, PriorityRestored, OwnerInherits, GivesBackOwn, ByPriority

LEMMA PrioTakeFree ==
  ASSUME MutexInv, PrioInv, OneAtATime', NEW t \in Thread, NEW m \in Mutexes, TakeFree(t, m)
  PROVE  PrioInv'
  <1> USE Types
  <1>1. /\ value[m] > 0 /\ owner' = [owner EXCEPT ![m] = t]
        /\ original' = [original EXCEPT ![m] = prio[t]]
        /\ UNCHANGED <<suspend, prio>>
    BY DEF TakeFree
  <1>2. owner[m] = Null /\ suspend[m] = <<>>
    <2>1. PerMutex(m)
      BY DEF MutexInv, Ownership
    <2> QED BY <1>1, <2>1 DEF PerMutex, Owned, Free
  <1>3. owner'[m] = t /\ \A n \in Mutexes \ {m} : owner'[n] = owner[n]
    BY <1>1
  <1>4. prio[t] = InitPrio[t]
    <2>1. \A n \in Mutexes : owner[n] # t
      BY <1>2, <1>3 DEF OneAtATime
    <2> QED BY <2>1 DEF PrioInv, PriorityRestored
  <1>5. PriorityRestored'
    BY <1>1, <1>3, <1>2 DEF PrioInv, PriorityRestored
  <1>6. OwnerInherits'
    <2>1. \A x : ~Contains(suspend[m], x)
      BY <1>2 DEF Contains
    <2> QED BY <1>1, <1>3, <2>1 DEF PrioInv, OwnerInherits
  <1>7. GivesBackOwn'
    BY <1>1, <1>3, <1>4 DEF PrioInv, GivesBackOwn
  <1> QED BY <1>1, <1>5, <1>6, <1>7 DEF PrioInv, ByPriority

LEMMA PrioTakeWait ==
  ASSUME MutexInv, PrioInv, OneAtATime, OneAtATime', NEW t \in Thread, NEW m \in Mutexes,
         TakeWait(t, m)
  PROVE  PrioInv'
  <1> USE Types
  <1> DEFINE r == ListSuspend(suspend[m], t, Flag, prio')
  <1>0. /\ want[t] = Null /\ owner[m] # t /\ value[m] = 0
        /\ prio' = Lend(t, owner[m])
        /\ suspend' = [suspend EXCEPT ![m] = r]
        /\ want' = [want EXCEPT ![t] = m]
        /\ UNCHANGED <<owner, original>>
    BY DEF TakeWait
  <1>1. PICK o \in Thread : owner[m] = o
    <2>1. PerMutex(m)
      BY DEF MutexInv, Ownership
    <2> QED BY <1>0, <2>1 DEF PerMutex, Free
  <1>2. /\ \A x \in Thread : prio[x] \in Int
        /\ \A x \in Thread \ {o} : prio'[x] = prio[x]
        /\ prio'[o] \in Int /\ prio'[o] <= prio[o] /\ prio'[o] <= prio[t]
        /\ prio' \in [Thread -> Int]
    <2>1. \A x \in Thread : prio[x] \in Int
      BY DEF Prios
    <2>2. prio' = [prio EXCEPT ![o] = IF prio[t] < prio[o] THEN prio[t] ELSE prio[o]]
      BY <1>0, <1>1 DEF Lend
    <2> QED BY <2>1, <2>2
  <1>3. \A n \in Mutexes : owner[n] # t /\ ~Contains(suspend[n], t)
    <2>1. want'[t] = m /\ owner' = owner
      BY <1>0
    <2> QED BY <1>0, <2>1 DEF OneAtATime, MutexInv, ListedWait
  <1>4. prio[t] = InitPrio[t] /\ t # o
    BY <1>1, <1>3 DEF PrioInv, PriorityRestored
  <1>5. WaitersOwnNothing
    BY WaitersPlain
  <1>6. \A n \in Mutexes, x \in Thread :
          Contains(suspend[n], x) => x # o /\ prio'[x] = prio[x] /\ prio[x] = InitPrio[x]
    BY <1>1, <1>2, <1>5 DEF WaitersOwnNothing, PrioInv, PriorityRestored
  <1>7. /\ r \in Seq(Thread)
        /\ \A x : Contains(r, x) <=> Contains(suspend[m], x) \/ x = t
    BY <1>3, ListSuspendContains
  <1>8. Flag = "PRIO" => Sorted(r, InitPrio)
    <2> SUFFICES ASSUME Flag = "PRIO" PROVE Sorted(r, InitPrio)
      OBVIOUS
    <2>1. Sorted(suspend[m], InitPrio)
      BY DEF PrioInv, ByPriority
    <2>2. \A x \in Thread : Contains(suspend[m], x) => prio'[x] = InitPrio[x]
      BY <1>6
    <2>3. Sorted(suspend[m], prio')
      <3>1. suspend[m] \in Seq(Thread)
        OBVIOUS
      <3> QED BY ONLY <2>1, <2>2, <3>1, SortedSame
    <2>4. Sorted(r, prio')
      BY <1>2, <2>3, ListSuspendSorted
    <2>5. \A x \in Thread : Contains(r, x) => InitPrio[x] = prio'[x]
      BY <1>2, <1>4, <1>7, <2>2
    <2> HIDE DEF r
    <2> QED BY ONLY <1>7, <2>4, <2>5, SortedSame
  <1> HIDE DEF r
  <1>9. suspend'[m] = r /\ \A n \in Mutexes \ {m} : suspend'[n] = suspend[n]
    BY <1>0
  <1>10. PriorityRestored'
    BY <1>0, <1>1, <1>2 DEF PrioInv, PriorityRestored
  <1>11. OwnerInherits'
    <2> SUFFICES ASSUME NEW n \in Mutexes, NEW x \in Thread, Contains(suspend'[n], x)
                 PROVE  prio'[owner'[n]] <= prio'[x]
      BY DEF OwnerInherits
    <2>1. CASE n = m /\ x = t
      BY <1>0, <1>1, <1>2, <1>4, <2>1
    <2>2. CASE n = m /\ x # t
      <3>1. Contains(suspend[m], x) /\ x # o
        BY <1>6, <1>7, <1>9, <2>2
      <3>2. prio[o] <= prio[x]
        BY <1>1, <3>1 DEF PrioInv, OwnerInherits
      <3> QED BY <1>0, <1>1, <1>2, <2>2, <3>1, <3>2
    <2>3. CASE n # m
      <3>1. Contains(suspend[n], x) /\ x # o
        BY <1>6, <1>9, <2>3
      <3>2. prio[owner[n]] <= prio[x] /\ owner[n] \in Thread /\ owner[n] # o
        BY <1>1, <1>5, <2>3, <3>1 DEF PrioInv, OwnerInherits, WaitersOwnNothing, OneAtATime
      <3> QED BY <1>0, <1>2, <3>1, <3>2
    <2> QED BY <2>1, <2>2, <2>3
  <1>12. GivesBackOwn'
    BY <1>0 DEF PrioInv, GivesBackOwn
  <1>13. ByPriority'
    BY <1>8, <1>9 DEF PrioInv, ByPriority
  <1> QED BY <1>10, <1>11, <1>12, <1>13 DEF PrioInv

(* What the last release of t gives back makes all threads but the owners  *)
(* of other mutexes have their own priority.                               *)
LEMMA GivenBackOwn ==
  ASSUME MutexInv, PrioInv, OneAtATime, NEW t \in Thread, NEW m \in Mutexes, owner[m] = t,
         NEW p, p = GivenBack(t, m)
  PROVE  /\ p[t] = InitPrio[t] /\ p \in [Thread -> Int]
         /\ \A x \in Thread \ {t} : p[x] = prio[x]
         /\ \A n \in Mutexes \ {m} : owner[n] # t
  <1> USE Types
  <1>1. original[m] = InitPrio[t]
    BY DEF PrioInv, GivesBackOwn
  <1>2. \A x \in Thread : prio[x] \in Int /\ InitPrio[x] \in Int
    BY MutexAssumption DEF Prios
  <1>3. \A n \in Mutexes \ {m} : owner[n] # t
    BY DEF OneAtATime
  <1> QED BY <1>1, <1>2, <1>3 DEF GivenBack

LEMMA PrioReleaseFree ==
  ASSUME MutexInv, PrioInv, OneAtATime, NEW t \in Thread, NEW m \in Mutexes,
         ReleaseFree(t, m)
  PROVE  PrioInv'
  <1> USE Types
  <1>1. /\ want[t] = Null /\ owner[m] = t /\ suspend[m] = <<>>
        /\ prio' = GivenBack(t, m)
        /\ owner' = [owner EXCEPT ![m] = Null]
        /\ original' = [original EXCEPT ![m] = NoPrio]
        /\ UNCHANGED suspend
    BY DEF ReleaseFree
  <1>2. /\ prio'[t] = InitPrio[t] /\ \A x \in Thread \ {t} : prio'[x] = prio[x]
        /\ \A n \in Mutexes \ {m} : owner[n] # t
    BY <1>1, GivenBackOwn
  <1>3. owner'[m] = Null /\ \A n \in Mutexes \ {m} : owner'[n] = owner[n] /\ original'[n] = original[n]
    BY <1>1
  <1>4. PriorityRestored'
    <2> SUFFICES ASSUME NEW x \in Thread, \A n \in Mutexes : owner'[n] # x
                 PROVE  prio'[x] = InitPrio[x]
      BY DEF PriorityRestored
    <2>1. CASE x = t
      BY <1>2, <2>1
    <2>2. CASE x # t
      <3>1. \A n \in Mutexes : owner[n] # x
        BY <1>1, <1>3, <2>2
      <3>2. prio[x] = InitPrio[x]
        BY <3>1 DEF PrioInv, PriorityRestored
      <3> QED BY <1>2, <2>2, <3>2
    <2> QED BY <2>1, <2>2
  <1>5. OwnerInherits'
    <2> SUFFICES ASSUME NEW n \in Mutexes, NEW x \in Thread, Contains(suspend[n], x)
                 PROVE  prio'[owner'[n]] <= prio'[x]
      BY <1>1 DEF OwnerInherits
    <2>1. n # m
      BY <1>1 DEF Contains
    <2>2. x # t
      BY <1>1 DEF MutexInv, ListedWait
    <2>3. owner[n] \in Thread /\ prio[owner[n]] <= prio[x]
      BY WaitersPlain DEF WaitersOwnNothing, PrioInv, OwnerInherits
    <2> QED BY <1>2, <1>3, <2>1, <2>2, <2>3
  <1>6. GivesBackOwn'
    BY <1>3 DEF PrioInv, GivesBackOwn
  <1> QED BY <1>1, <1>4, <1>5, <1>6 DEF PrioInv, ByPriority

(* The new owner is at least as urgent as those it keeps waiting: by the   *)
(* order of the list, or by the search of rt_ipc_get_highest_priority.     *)
LEMMA PromotedInherits ==
  ASSUME NEW m \in Mutexes, NEW p \in [Thread -> Int], NEW u \in Thread,
         suspend[m] \in Seq(Thread), suspend[m] # <<>>, u = Head(suspend[m]),
         \A x \in Thread : p[x] \in Nat,
         Flag = "PRIO" => Sorted(suspend[m], p),
         NEW x \in Thread, x # u, Contains(suspend[m], x)
  PROVE  Promoted(p, u, m)[u] <= p[x]
  <1>1. PICK i \in 1 .. Len(suspend[m]) : suspend[m][i] = x
    BY DEF Contains
  <1>2. suspend[m][1] = u /\ i > 1 /\ 1 \in 1 .. Len(suspend[m])
    BY <1>1
  <1>3. CASE Flag = "PRIO"
    <2>1. Promoted(p, u, m) = p
      BY <1>3 DEF Promoted
    <2>2. p[u] <= p[x]
      BY <1>1, <1>2, <1>3 DEF Sorted
    <2> QED BY <2>1, <2>2
  <1>4. CASE Flag = "FIFO"
    <2> DEFINE I == {MaxPrio - 1} \cup {p[suspend[m][k]] : k \in DOMAIN suspend[m]}
    <2>1. Promoted(p, u, m)[u] = ListHighest(suspend[m], p, MaxPrio)
      BY <1>4 DEF Promoted
    <2>2. ListHighest(suspend[m], p, MaxPrio) = Min(I)
      BY DEF ListHighest
    <2>3. p[x] \in I
      BY <1>1
    <2>4. I \in SUBSET Nat /\ I # {}
      BY Bounds
    <2> HIDE DEF I
    <2>5. \A k \in I : Min(I) <= k
      BY <2>4, MinNat
    <2> QED BY <2>1, <2>2, <2>3, <2>5
  <1> QED BY <1>3, <1>4, MutexAssumption

LEMMA PrioHandOver ==
  ASSUME MutexInv, PrioInv, OneAtATime, NEW t \in Thread, NEW m \in Mutexes,
         ReleaseHandOver(t, m)
  PROVE  PrioInv'
  <1> USE Types
  <1> DEFINE p == GivenBack(t, m)
  <1>1. PICK u \in Thread : u = Head(suspend[m]) /\ Contains(suspend[m], u)
    <2>1. suspend[m] \in Seq(Thread) /\ suspend[m] # <<>>
      BY DEF ReleaseHandOver
    <2> QED BY <2>1, HeadContains
  <1>2. /\ want[t] = Null /\ owner[m] = t /\ suspend[m] # <<>>
        /\ owner' = [owner EXCEPT ![m] = u]
        /\ original' = [original EXCEPT ![m] = p[u]]
        /\ prio' = Promoted(p, u, m)
        /\ suspend' = [suspend EXCEPT ![m] = RemoveFirst(@, u)]
    BY <1>1 DEF ReleaseHandOver, Resumed
  <1>3. /\ p[t] = InitPrio[t] /\ p \in [Thread -> Int]
        /\ \A x \in Thread \ {t} : p[x] = prio[x]
        /\ \A n \in Mutexes \ {m} : owner[n] # t
    BY <1>2, GivenBackOwn
  <1>4. WaitersOwnNothing
    BY WaitersPlain
  <1>5. \A n \in Mutexes, x \in Thread :
          Contains(suspend[n], x) => x # t /\ want[x] = n /\ p[x] = InitPrio[x] /\ p[x] = prio[x]
    <2> SUFFICES ASSUME NEW n \in Mutexes, NEW x \in Thread, Contains(suspend[n], x)
                 PROVE  x # t /\ want[x] = n /\ p[x] = InitPrio[x] /\ p[x] = prio[x]
      OBVIOUS
    <2>1. want[x] = n /\ x # t
      BY <1>2 DEF MutexInv, ListedWait
    <2>2. prio[x] = InitPrio[x]
      BY <1>4 DEF WaitersOwnNothing, PrioInv, PriorityRestored
    <2> HIDE DEF p
    <2> QED BY <1>3, <2>1, <2>2
  <1>6. \A x \in Thread : p[x] \in Nat
    <2>1. InitPrio[t] \in Nat /\ \A x \in Thread : prio[x] \in Nat
      BY MutexAssumption DEF Prios
    <2> HIDE DEF p
    <2> QED BY <1>3, <2>1
  <1> HIDE DEF p
  <1>7. \A x \in Thread \ {u} : prio'[x] = p[x]
    BY <1>2, <1>3 DEF Promoted
  <1>8. /\ owner'[m] = u /\ original'[m] = p[u]
        /\ \A n \in Mutexes \ {m} : /\ owner'[n] = owner[n] /\ original'[n] = original[n]
                                    /\ suspend'[n] = suspend[n]
    BY <1>2
  <1>9. /\ \A x \in Thread : Contains(suspend'[m], x) <=> Contains(suspend[m], x) /\ x # u
        /\ Sorted(suspend[m], InitPrio) => Sorted(suspend'[m], InitPrio)
    <2>1. suspend[m] \in Seq(Thread) /\ IsInjective(suspend[m])
          /\ suspend'[m] = RemoveFirst(suspend[m], u)
      BY <1>2
    <2> QED BY <2>1, RemoveContains, RemoveSorted
  <1>10. \A n \in Mutexes \ {m} : owner[n] # u
    BY <1>1, <1>4 DEF WaitersOwnNothing
  <1>11. PriorityRestored'
    <2> SUFFICES ASSUME NEW x \in Thread, \A n \in Mutexes : owner'[n] # x
                 PROVE  prio'[x] = InitPrio[x]
      BY DEF PriorityRestored
    <2>1. x # u /\ \A n \in Mutexes \ {m} : owner[n] # x
      BY <1>8
    <2>2. CASE x = t
      BY <1>3, <1>7, <2>1, <2>2
    <2>3. CASE x # t
      <3>1. \A n \in Mutexes : owner[n] # x
        BY <1>2, <2>1, <2>3
      <3>2. prio[x] = InitPrio[x]
        BY <3>1 DEF PrioInv, PriorityRestored
      <3> QED BY <1>3, <1>7, <2>1, <2>3, <3>2
    <2> QED BY <2>2, <2>3
  <1>12. OwnerInherits'
    <2> SUFFICES ASSUME NEW n \in Mutexes, NEW x \in Thread, Contains(suspend'[n], x)
                 PROVE  prio'[owner'[n]] <= prio'[x]
      BY DEF OwnerInherits
    <2>1. CASE n = m
      <3>1. Contains(suspend[m], x) /\ x # u
        BY <1>9, <2>1
      <3>2. Flag = "PRIO" => Sorted(suspend[m], p)
        <4>1. \A y \in Thread : Contains(suspend[m], y) => p[y] = InitPrio[y]
          BY <1>5
        <4> SUFFICES ASSUME Flag = "PRIO" PROVE Sorted(suspend[m], p)
          OBVIOUS
        <4>2. Sorted(suspend[m], InitPrio) /\ suspend[m] \in Seq(Thread)
          BY DEF PrioInv, ByPriority
        <4> QED BY ONLY <4>1, <4>2, SortedSame
      <3>3. suspend[m] \in Seq(Thread)
        OBVIOUS
      <3>4. prio'[u] <= p[x]
        BY <1>1, <1>2, <1>3, <1>6, <3>1, <3>2, <3>3, PromotedInherits
      <3> QED BY <1>7, <1>8, <2>1, <3>1, <3>4
    <2>2. CASE n # m
      <3>1. Contains(suspend[n], x)
        BY <1>8, <2>2
      <3>2. x # t /\ x # u /\ p[x] = prio[x]
        <4>1. want[u] = m /\ want[x] = n
          BY <1>1, <1>5, <3>1
        <4> QED BY <1>5, <2>2, <3>1, <4>1
      <3>3. owner[n] \in Thread /\ owner[n] # t /\ owner[n] # u /\ prio[owner[n]] <= prio[x]
        BY <1>3, <1>4, <1>10, <2>2, <3>1 DEF WaitersOwnNothing, PrioInv, OwnerInherits
      <3>4. /\ owner'[n] = owner[n] /\ prio'[x] = prio[x]
            /\ prio'[owner[n]] = prio[owner[n]]
        BY <1>3, <1>7, <1>8, <2>2, <3>2, <3>3
      <3> QED BY <3>3, <3>4
    <2> QED BY <2>1, <2>2
  <1>13. GivesBackOwn'
    <2>1. p[u] = InitPrio[u]
      BY <1>1, <1>5
    <2> QED BY <1>8, <2>1 DEF PrioInv, GivesBackOwn
  <1>14. ByPriority'
    BY <1>8, <1>9 DEF PrioInv, ByPriority
  <1> QED BY <1>11, <1>12, <1>13, <1>14 DEF PrioInv

LEMMA PrioNext ==
  MutexInv /\ OneAtATime /\ OneAtATime' /\ PrioInv /\ [Next]_vars => PrioInv'
  <1> SUFFICES ASSUME MutexInv, OneAtATime, OneAtATime', PrioInv, [Next]_vars PROVE PrioInv'
    OBVIOUS
  <1> USE Types
  <1>1. CASE UNCHANGED vars
    BY <1>1, PrioQuiet DEF vars
  <1>2. ASSUME NEW t \in Thread, TakeReturn(t) PROVE PrioInv'
    BY <1>2, PrioQuiet DEF TakeReturn
  <1>3. ASSUME NEW t \in Thread, Timeout(t) PROVE PrioInv'
    <2>1. PICK m \in Mutexes : want[t] = m
      BY <1>3 DEF Timeout, MutexInv, WaitersExact, TimersOfWaiters
    <2>2. /\ suspend' = [suspend EXCEPT ![m] = RemoveFirst(@, t)]
          /\ UNCHANGED <<owner, original, prio>>
      BY <1>3, <2>1 DEF Timeout, Resumed
    <2>3. /\ suspend'[m] = RemoveFirst(suspend[m], t)
          /\ \A n \in Mutexes \ {m} : suspend'[n] = suspend[n]
      BY <2>2
    <2> QED BY <2>2, <2>3, PrioQuiet
  <1>4. ASSUME NEW t \in Thread, NEW m \in Mutexes,
               \/ TakeAgain(t, m) \/ TakeRefused(t, m)
               \/ ReleaseRefused(t, m) \/ ReleaseInner(t, m)
        PROVE  PrioInv'
    <2>1. UNCHANGED <<owner, original, prio, suspend>>
      BY <1>4 DEF TakeAgain, TakeRefused, ReleaseRefused, ReleaseInner
    <2> QED BY <2>1, PrioQuiet
  <1>5. ASSUME NEW t \in Thread, NEW m \in Mutexes, TakeFree(t, m) PROVE PrioInv'
    BY <1>5, PrioTakeFree
  <1>6. ASSUME NEW t \in Thread, NEW m \in Mutexes, TakeWait(t, m) PROVE PrioInv'
    BY <1>6, PrioTakeWait
  <1>7. ASSUME NEW t \in Thread, NEW m \in Mutexes, ReleaseFree(t, m) PROVE PrioInv'
    BY <1>7, PrioReleaseFree
  <1>8. ASSUME NEW t \in Thread, NEW m \in Mutexes, ReleaseHandOver(t, m) PROVE PrioInv'
    BY <1>8, PrioHandOver
  <1> QED BY <1>1, <1>2, <1>3, <1>4, <1>5, <1>6, <1>7, <1>8 DEF Next, Take, Release

LEMMA PrioInvariant == Spec /\ []OneAtATime => []PrioInv
  BY MutexInvariant, PrioInit, PrioNext, PTL DEF Spec

(* As long as threads hold one mutex at a time, an owner is at least as    *)
(* urgent as every thread that rt_mutex_take has put to wait for it, after *)
(* a hand-over by rt_mutex_release too, in either order of waiting.        *)
THEOREM MutexInherits == Spec /\ []OneAtATime => []OwnerInherits
  <1>1. PrioInv => OwnerInherits
    BY DEF PrioInv
  <1> QED BY <1>1, PrioInvariant, PTL

(* As long as threads hold one mutex at a time, rt_mutex_release leaves    *)
(* every thread that owns nothing with the priority it was created with.   *)
(* MCMutexRestore shows that this fails for threads that hold two.         *)
THEOREM MutexRestores == Spec /\ []OneAtATime => []PriorityRestored
  <1>1. PrioInv => PriorityRestored
    BY DEF PrioInv
  <1> QED BY <1>1, PrioInvariant, PTL

(* Where there is one mutex, as in MCMutex, rt_mutex_take and              *)
(* rt_mutex_release need no such discipline of their callers.              *)
THEOREM LoneMutexPriorities ==
  (\A m, n \in Mutexes : m = n) => (Spec => [](OwnerInherits /\ PriorityRestored))
  <1> SUFFICES ASSUME \A m, n \in Mutexes : m = n
               PROVE  Spec => [](OwnerInherits /\ PriorityRestored)
    OBVIOUS
  <1>1. OneAtATime
    BY DEF OneAtATime
  <1> QED BY <1>1, MutexInherits, MutexRestores, PTL
=============================================================================
