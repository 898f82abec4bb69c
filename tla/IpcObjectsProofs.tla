-------------------------- MODULE IpcObjectsProofs --------------------------
(***************************************************************************)
(* Proofs about IpcObjects, for any finite set of threads and of message   *)
(* slots, any events and either order of waiting.                          *)
(***************************************************************************)
EXTENDS IpcObjects, KernelLemmas

-----------------------------------------------------------------------------
(* The walk of rt_event_send *)

Lists == {q \in Seq(Thread) : IsInjective(q)}

Accs == [set : SUBSET Bit, list : Lists,
         got : UNION {[D -> SUBSET Bit] : D \in SUBSET Thread}]

WalkSteps(s) ==
  CHOOSE f : f = [i \in 0 .. Len(event_wait) |->
                   IF i = 0 THEN NoneYet(s) ELSE Visit(f[i - 1], event_wait[i])]

(* What the walk of rt_event_send keeps has its type.                      *)
LEMMA AccFacts ==
  ASSUME NEW acc \in Accs
  PROVE  /\ acc.set \in SUBSET Bit /\ acc.list \in Lists /\ DOMAIN acc.got \in SUBSET Thread
         /\ acc.got \in [DOMAIN acc.got -> SUBSET Bit]
  <1>1. /\ acc.set \in SUBSET Bit /\ acc.list \in Lists
        /\ acc.got \in UNION {[D -> SUBSET Bit] : D \in SUBSET Thread}
    BY DEF Accs
  <1>2. PICK D \in SUBSET Thread : acc.got \in [D -> SUBSET Bit]
    BY <1>1
  <1> QED BY <1>1, <1>2

(* A waiter that is not satisfied leaves everything as it is; another one  *)
(* takes what it asked for and is there.                                   *)
Visited(acc, t) ==
  LET info == event_info[t]
      a == Visit(acc, t)
  IN  /\ a \in Accs
      /\ ~Satisfied(info, acc.set) => a = acc
      /\ Satisfied(info, acc.set) =>
           /\ a.set = IF info.clear THEN acc.set \ info.set ELSE acc.set
           /\ a.list = RemoveFirst(acc.list, t)
           /\ DOMAIN a.got = DOMAIN acc.got \cup {t}
           /\ a.got[t] = info.set \cap acc.set
           /\ \A u \in DOMAIN acc.got \ {t} : a.got[u] = acc.got[u]

(* One round of the loop of rt_event_send does what Visited says.          *)
LEMMA VisitFacts ==
  ASSUME EventTypeOK, NEW acc \in Accs, NEW t \in Thread
  PROVE  Visited(acc, t)
  <1> DEFINE info == event_info[t]
             gt == info.set \cap acc.set
             g == [u \in DOMAIN acc.got \cup {t} |-> IF u = t THEN gt ELSE acc.got[u]]
             st == IF info.clear THEN acc.set \ gt ELSE acc.set
             l == RemoveFirst(acc.list, t)
             a == Visit(acc, t)
  <1>1. /\ acc.set \in SUBSET Bit /\ DOMAIN acc.got \in SUBSET Thread
        /\ acc.got \in [DOMAIN acc.got -> SUBSET Bit] /\ acc.list \in Lists
    BY AccFacts
  <1>2. /\ g \in [DOMAIN acc.got \cup {t} -> SUBSET Bit]
        /\ DOMAIN acc.got \cup {t} \in SUBSET Thread
        /\ DOMAIN g = DOMAIN acc.got \cup {t} /\ g[t] = gt
        /\ \A u \in DOMAIN acc.got \ {t} : g[u] = acc.got[u]
    BY <1>1
  <1>3. st \in SUBSET Bit /\ st = IF info.clear THEN acc.set \ info.set ELSE acc.set
    BY <1>1
  <1>l. l \in Lists
    BY <1>1, RemoveContains DEF Lists
  <1>4. ~Satisfied(info, acc.set) => a = acc
    BY DEF Visit
  <1>5. Satisfied(info, acc.set) => a = [set |-> st, list |-> l, got |-> g]
    BY DEF Visit
  <1> HIDE DEF g, st, l, a
  <1>6. [set |-> st, list |-> l, got |-> g] \in Accs
    BY <1>2, <1>3, <1>l DEF Accs
  <1>7. a \in Accs
    BY <1>4, <1>5, <1>6
  <1>8. ASSUME Satisfied(info, acc.set)
        PROVE  /\ a.set = IF info.clear THEN acc.set \ info.set ELSE acc.set
               /\ a.list = RemoveFirst(acc.list, t)
               /\ DOMAIN a.got = DOMAIN acc.got \cup {t}
               /\ a.got[t] = info.set \cap acc.set
               /\ \A u \in DOMAIN acc.got \ {t} : a.got[u] = acc.got[u]
    <2>1. a.set = st /\ a.list = l /\ a.got = g
      BY <1>5, <1>8
    <2> QED BY <1>2, <1>3, <2>1 DEF l
  <1> QED BY <1>4, <1>7, <1>8 DEF a, Visited

(* A round of the loop keeps the type.                                     *)
LEMMA VisitType ==
  ASSUME EventTypeOK
  PROVE  \A acc \in Accs, t \in Thread : Visit(acc, t) \in Accs
  BY VisitFacts DEF Visited

(* The walk begins with nobody served.                                     *)
LEMMA NoneYetFacts ==
  ASSUME EventTypeOK, NEW s \in SUBSET Bit
  PROVE  /\ NoneYet(s) \in Accs /\ NoneYet(s).set = s /\ NoneYet(s).list = event_wait
         /\ DOMAIN NoneYet(s).got = {}
  <1> DEFINE g == [u \in {} |-> {}]
  <1>1. g \in [{} -> SUBSET Bit] /\ DOMAIN g = {} /\ {} \in SUBSET Thread
    OBVIOUS
  <1> HIDE DEF g
  <1>2. [set |-> s, list |-> event_wait, got |-> g] \in Accs
    BY <1>1 DEF Accs, Lists, EventTypeOK
  <1> QED BY <1>1, <1>2 DEF NoneYet, g

(* The walk goes from each waiter to the next one.                         *)
LEMMA WalkFrom ==
  ASSUME EventTypeOK, NEW s \in SUBSET Bit
  PROVE  LET f == WalkSteps(s)
         IN  /\ f \in [0 .. Len(event_wait) -> Accs]
             /\ f[0] = NoneYet(s)
             /\ \A i \in 1 .. Len(event_wait) : f[i] = Visit(f[i - 1], event_wait[i])
             /\ Walk(s) = f[Len(event_wait)]
  <1> DEFINE N == Len(event_wait)
             step == [i \in 1 .. N |-> [acc \in Accs |-> Visit(acc, event_wait[i])]]
             Is(f) == f = [i \in 0 .. N |->
                            IF i = 0 THEN NoneYet(s) ELSE Visit(f[i - 1], event_wait[i])]
             w == WalkSteps(s)
  <1>1. N \in Nat /\ \A i \in 1 .. N : event_wait[i] \in Thread
    BY DEF EventTypeOK
  <1>2. \A i \in 1 .. N, acc \in Accs : step[i][acc] \in Accs
    BY <1>1, VisitType
  <1>3. \A i \in 1 .. N, acc \in Accs : step[i][acc] = Visit(acc, event_wait[i])
    OBVIOUS
  <1>4. NoneYet(s) \in Accs
    BY NoneYetFacts
  <1> HIDE DEF N, step
  <1>a. Closed(Accs, N, NoneYet(s), step)
    BY <1>1, <1>2, <1>4 DEF Closed
  <1>b. \E f : Iterates(f, Accs, N, NoneYet(s), step)
    BY ONLY <1>a, Recursion, Zenon
  <1>5. PICK f \in [0 .. N -> Accs] :
          f[0] = NoneYet(s) /\ \A i \in 1 .. N : f[i] = step[i][f[i - 1]]
    BY <1>b DEF Iterates
  <1>6. \A i \in 0 .. N : f[i] = IF i = 0 THEN NoneYet(s) ELSE Visit(f[i - 1], event_wait[i])
    <2> SUFFICES ASSUME NEW i \in 0 .. N, i # 0 PROVE f[i] = Visit(f[i - 1], event_wait[i])
      BY <1>5
    <2>1. i \in 1 .. N /\ i - 1 \in 0 .. N
      BY <1>1
    <2> QED BY <1>3, <1>5, <2>1
  <1>7. Is(f)
    BY <1>6
  <1>8. w = CHOOSE h : Is(h)
    BY DEF WalkSteps, N
  <1>9. Is(w)
    <2> HIDE DEF Is, w
    <2> QED BY <1>7, <1>8
  <1>10. \A i \in 0 .. N : w[i] = IF i = 0 THEN NoneYet(s) ELSE Visit(w[i - 1], event_wait[i])
    <2> HIDE DEF w
    <2> QED BY <1>9
  <1>11. DOMAIN w = 0 .. N
    <2> HIDE DEF w
    <2> QED BY <1>9
  <1>12. w[0] = NoneYet(s)
    BY <1>1, <1>10
  <1>13. \A i \in 1 .. N : w[i] = Visit(w[i - 1], event_wait[i])
    BY <1>1, <1>10
  <1> HIDE DEF w, Is
  <1>14. {i \in 0 .. N : w[i] \in Accs} = 0 .. N
    <2> DEFINE G == {i \in 0 .. N : w[i] \in Accs}
    <2>1. G \in SUBSET (0 .. N) /\ 0 \in G
      BY <1>1, <1>4, <1>12
    <2>2. ASSUME NEW i \in 1 .. N, i - 1 \in G PROVE i \in G
      <3>1. w[i] = Visit(w[i - 1], event_wait[i]) /\ w[i - 1] \in Accs
        BY <1>13, <2>2
      <3>2. w[i] \in Accs
        BY <1>1, <3>1, VisitType, Zenon
      <3> QED BY <3>2
    <2> QED BY <1>1, <2>1, <2>2, UpTo
  <1>15. w = [i \in 0 .. N |-> w[i]]
    <2>1. w = [i \in 0 .. N |->
                IF i = 0 THEN NoneYet(s) ELSE Visit(w[i - 1], event_wait[i])]
      BY <1>9 DEF Is
    <2> QED BY <1>11, <2>1
  <1>16. w \in [0 .. N -> Accs]
    BY <1>14, <1>15
  <1>17. Walk(s) = w[N]
    BY DEF Walk, w, WalkSteps, N
  <1> QED BY <1>12, <1>13, <1>16, <1>17 DEF w, N

(* What has happened when the walk that began with the events s is behind  *)
(* the i-th waiter and has computed acc: a waiter left asleep is not       *)
(* satisfied, events that were cleared went to one of the waiters so far,  *)
(* to it alone, and a waiter lost what it could have had to one in front.  *)
Walked(acc, s, i) ==
  LET w(j) == event_wait[j]
      Cleared(t) == t \in DOMAIN acc.got /\ event_info[t].clear
  IN  /\ acc.set \subseteq s
      /\ \A x : Contains(acc.list, x) <=> Contains(event_wait, x) /\ x \notin DOMAIN acc.got
      /\ \A t \in DOMAIN acc.got : /\ \E j \in 1 .. i : t = w(j)
                                   /\ acc.got[t] \subseteq s \cap event_info[t].set
      /\ \A j \in 1 .. i : w(j) \notin DOMAIN acc.got => ~Satisfied(event_info[w(j)], acc.set)
      /\ \A t \in Thread : Cleared(t) =>
           /\ acc.got[t] \cap acc.set = {}
           /\ \A u \in Thread \ {t} : Cleared(u) => acc.got[t] \cap acc.got[u] = {}
      /\ \A x \in s \ acc.set : \E j \in 1 .. i : Cleared(w(j)) /\ x \in acc.got[w(j)]
      /\ \A j \in 1 .. i :
           w(j) \notin DOMAIN acc.got /\ Satisfied(event_info[w(j)], s) =>
             \E k \in 1 .. j - 1 : /\ Cleared(w(k))
                                   /\ acc.got[w(k)] \cap event_info[w(j)].set # {}

(* Fewer events satisfy no more.                                           *)
LEMMA SatisfiedMonotone ==
  ASSUME NEW info, NEW r, NEW s, r \subseteq s, Satisfied(info, r)
  PROVE  Satisfied(info, s)
  BY DEF Satisfied

(* One round of the loop takes Walked from a waiter to the next.           *)
LEMMA WalkedStep ==
  ASSUME EventTypeOK, NEW s \in SUBSET Bit, NEW acc \in Accs,
         NEW i \in 1 .. Len(event_wait), Walked(acc, s, i - 1)
  PROVE  Walked(Visit(acc, event_wait[i]), s, i)
  <1> DEFINE w(j) == event_wait[j]
             a == Visit(acc, w(i))
             info == event_info[w(i)]
             Cleared(t) == t \in DOMAIN acc.got /\ event_info[t].clear
             ClearedA(t) == t \in DOMAIN a.got /\ event_info[t].clear
  <1>0. /\ Len(event_wait) \in Nat /\ i \in Nat /\ i >= 1
        /\ \A j \in 1 .. i : w(j) \in Thread
        /\ \A j \in 1 .. i - 1 : j \in 1 .. i /\ w(j) # w(i)
        /\ \A j \in 1 .. i : j = i \/ j \in 1 .. i - 1
    <2>1. \A j, k \in 1 .. Len(event_wait) : event_wait[j] = event_wait[k] => j = k
      BY DEF EventTypeOK, IsInjective
    <2> QED BY <2>1 DEF EventTypeOK
  <1>1. /\ a \in Accs
        /\ ~Satisfied(info, acc.set) => a = acc
        /\ Satisfied(info, acc.set) =>
             /\ a.set = IF info.clear THEN acc.set \ info.set ELSE acc.set
             /\ a.list = RemoveFirst(acc.list, w(i))
             /\ DOMAIN a.got = DOMAIN acc.got \cup {w(i)}
             /\ a.got[w(i)] = info.set \cap acc.set
             /\ \A u \in DOMAIN acc.got \ {w(i)} : a.got[u] = acc.got[u]
    <2>1. w(i) \in Thread
      BY <1>0
    <2>2. Visited(acc, w(i))
      BY <2>1, VisitFacts, Zenon
    <2> QED BY <2>2 DEF Visited
  <1>2. /\ acc.set \subseteq s
        /\ \A t \in DOMAIN acc.got : /\ \E j \in 1 .. i - 1 : t = w(j)
                                     /\ acc.got[t] \subseteq s \cap event_info[t].set
        /\ \A j \in 1 .. i - 1 :
             w(j) \notin DOMAIN acc.got => ~Satisfied(event_info[w(j)], acc.set)
    BY DEF Walked
  <1>3. \A t \in Thread : Cleared(t) =>
          /\ acc.got[t] \cap acc.set = {}
          /\ \A u \in Thread \ {t} : Cleared(u) => acc.got[t] \cap acc.got[u] = {}
    BY DEF Walked
  <1>4. \A x \in s \ acc.set : \E j \in 1 .. i - 1 : Cleared(w(j)) /\ x \in acc.got[w(j)]
    BY DEF Walked
  <1>5. \A j \in 1 .. i - 1 :
          w(j) \notin DOMAIN acc.got /\ Satisfied(event_info[w(j)], s) =>
            \E k \in 1 .. j - 1 : /\ Cleared(w(k))
                                  /\ acc.got[w(k)] \cap event_info[w(j)].set # {}
    BY DEF Walked
  <1>6. w(i) \notin DOMAIN acc.got
    BY <1>0, <1>2
  <1>7. /\ a.set \subseteq acc.set
        /\ \A u \in DOMAIN acc.got : u \in DOMAIN a.got /\ a.got[u] = acc.got[u]
    BY <1>1, <1>6
  <1>8. \A t : Cleared(t) => ClearedA(t)
    BY <1>7
  <1>l. \A x : Contains(a.list, x) <=> Contains(event_wait, x) /\ x \notin DOMAIN a.got
    <2>1. \A x : Contains(acc.list, x) <=> Contains(event_wait, x) /\ x \notin DOMAIN acc.got
      BY DEF Walked
    <2>2. acc.list \in Seq(Thread) /\ IsInjective(acc.list)
      BY AccFacts DEF Lists
    <2>3. \A x : Contains(RemoveFirst(acc.list, w(i)), x) <=> Contains(acc.list, x) /\ x # w(i)
      BY ONLY <2>2, RemoveContains, Zenon
    <2>4. CASE ~Satisfied(info, acc.set)
      <3>1. a = acc
        BY <1>1, <2>4
      <3> HIDE DEF a
      <3> QED BY <2>1, <3>1
    <2>5. CASE Satisfied(info, acc.set)
      <3>1. a.list = RemoveFirst(acc.list, w(i)) /\ DOMAIN a.got = DOMAIN acc.got \cup {w(i)}
        BY <1>1, <2>5
      <3> HIDE DEF a, w
      <3> QED BY ONLY <2>1, <2>3, <3>1
    <2> QED BY <2>4, <2>5
  <1> HIDE DEF a, w
  <1>9. \A t \in DOMAIN a.got : /\ \E j \in 1 .. i : t = w(j)
                                /\ a.got[t] \subseteq s \cap event_info[t].set
    <2> SUFFICES ASSUME NEW t \in DOMAIN a.got
                 PROVE  (\E j \in 1 .. i : t = w(j)) /\ a.got[t] \subseteq s \cap event_info[t].set
      OBVIOUS
    <2>1. CASE t \in DOMAIN acc.got
      BY <1>0, <1>2, <1>7, <2>1
    <2>2. CASE t \notin DOMAIN acc.got
      <3>1. t = w(i) /\ a.got[t] = info.set \cap acc.set
        BY <1>1, <2>2
      <3> QED BY <1>0, <1>2, <3>1
    <2> QED BY <2>1, <2>2
  <1>10. ASSUME NEW j \in 1 .. i, w(j) \notin DOMAIN a.got
         PROVE  ~Satisfied(event_info[w(j)], a.set)
    <2>1. CASE j = i
      <3>1. ~Satisfied(info, acc.set) /\ a = acc
        BY <1>1, <1>10, <2>1
      <3> QED BY <2>1, <3>1
    <2>2. CASE j \in 1 .. i - 1
      <3>1. w(j) \notin DOMAIN acc.got
        BY <1>7, <1>10
      <3>2. ~Satisfied(event_info[w(j)], acc.set)
        BY <1>2, <2>2, <3>1
      <3> QED BY <1>7, <3>2, SatisfiedMonotone
    <2> QED BY <1>0, <2>1, <2>2
  <1>11. ASSUME NEW t \in Thread, ClearedA(t)
         PROVE  /\ a.got[t] \cap a.set = {}
                /\ \A u \in Thread \ {t} : ClearedA(u) => a.got[t] \cap a.got[u] = {}
    <2>1. CASE t \in DOMAIN acc.got
      <3>1. Cleared(t) /\ a.got[t] = acc.got[t]
        BY <1>7, <1>11, <2>1
      <3>2. a.got[t] \cap acc.set = {}
        BY <1>3, <3>1
      <3>3. ASSUME NEW u \in Thread \ {t}, ClearedA(u) PROVE a.got[t] \cap a.got[u] = {}
        <4>1. CASE u \in DOMAIN acc.got
          BY <1>3, <1>7, <3>1, <3>3, <4>1
        <4>2. CASE u \notin DOMAIN acc.got
          <5>1. a.got[u] \subseteq acc.set
            BY <1>1, <3>3, <4>2
          <5> QED BY <3>2, <5>1
        <4> QED BY <4>1, <4>2
      <3> QED BY <1>7, <3>2, <3>3
    <2>2. CASE t \notin DOMAIN acc.got
      <3>1. /\ t = w(i) /\ a.got[t] = info.set \cap acc.set
            /\ a.set = acc.set \ info.set
        BY <1>1, <1>11, <2>2
      <3>2. ASSUME NEW u \in Thread \ {t}, ClearedA(u) PROVE a.got[t] \cap a.got[u] = {}
        <4>1. u \in DOMAIN acc.got /\ a.got[u] = acc.got[u] /\ Cleared(u)
          BY <1>1, <1>7, <3>1, <3>2
        <4> QED BY <1>3, <3>1, <4>1
      <3> QED BY <3>1, <3>2
    <2> QED BY <2>1, <2>2
  <1>12. ASSUME NEW x \in s \ a.set
         PROVE  \E j \in 1 .. i : ClearedA(w(j)) /\ x \in a.got[w(j)]
    <2>1. CASE x \in acc.set
      <3>1. Satisfied(info, acc.set) /\ info.clear /\ x \in info.set
        BY <1>1, <2>1, <1>12
      <3>2. ClearedA(w(i)) /\ x \in a.got[w(i)]
        BY <1>1, <2>1, <3>1
      <3> QED BY <1>0, <3>2
    <2>2. CASE x \notin acc.set
      <3>1. PICK j \in 1 .. i - 1 : Cleared(w(j)) /\ x \in acc.got[w(j)]
        BY <1>4, <2>2
      <3>2. j \in 1 .. i
        BY <1>0
      <3> QED BY <1>7, <1>8, <3>1, <3>2
    <2> QED BY <2>1, <2>2
  <1>13. ASSUME NEW j \in 1 .. i, w(j) \notin DOMAIN a.got, Satisfied(event_info[w(j)], s)
         PROVE  \E k \in 1 .. j - 1 : /\ ClearedA(w(k))
                                      /\ a.got[w(k)] \cap event_info[w(j)].set # {}
    <2>1. CASE j = i
      <3>1. ~Satisfied(info, acc.set)
        BY <1>1, <1>13, <2>1
      <3>2. PICK x \in s \ acc.set : x \in info.set
        BY <1>2, <1>13, <2>1, <3>1 DEF Satisfied
      <3>3. PICK k \in 1 .. i - 1 : Cleared(w(k)) /\ x \in acc.got[w(k)]
        BY <1>4, <3>2
      <3> QED BY <1>7, <1>8, <2>1, <3>2, <3>3
    <2>2. CASE j \in 1 .. i - 1
      <3>1. w(j) \notin DOMAIN acc.got
        BY <1>7, <1>13
      <3>2. PICK k \in 1 .. j - 1 : /\ Cleared(w(k))
                                    /\ acc.got[w(k)] \cap event_info[w(j)].set # {}
        BY <1>5, <1>13, <2>2, <3>1
      <3> QED BY <1>7, <1>8, <3>2
    <2> QED BY <1>0, <2>1, <2>2
  <1>14. a.set \subseteq s
    BY <1>2, <1>7
  <1>15. Walked(a, s, i)
    BY <1>l, <1>9, <1>10, <1>11, <1>12, <1>13, <1>14 DEF Walked, w
  <1> QED BY <1>15 DEF a, w

(* rt_event_send's loop                                                    *)
LEMMA WalkEnds ==
  ASSUME EventTypeOK, NEW s \in SUBSET Bit
  PROVE  Walk(s) \in Accs /\ Walked(Walk(s), s, Len(event_wait))
  <1> DEFINE N == Len(event_wait)
             f == WalkSteps(s)
             G == {i \in 0 .. N : Walked(f[i], s, i)}
  <1>1. /\ f \in [0 .. N -> Accs] /\ f[0] = NoneYet(s) /\ Walk(s) = f[N]
        /\ \A i \in 1 .. N : f[i] = Visit(f[i - 1], event_wait[i])
    BY WalkFrom
  <1>2. N \in Nat
    BY DEF EventTypeOK
  <1> HIDE DEF f
  <1>3. Walked(f[0], s, 0)
    <2>1. f[0].set = s /\ f[0].list = event_wait /\ DOMAIN f[0].got = {} /\ 1 .. 0 = {}
      BY <1>1, NoneYetFacts
    <2> QED BY <2>1 DEF Walked
  <1>4. ASSUME NEW i \in 1 .. N, i - 1 \in G PROVE i \in G
    <2>1. f[i - 1] \in Accs /\ Walked(f[i - 1], s, i - 1) /\ f[i] = Visit(f[i - 1], event_wait[i])
      BY <1>1, <1>4
    <2>2. Walked(f[i], s, i)
      BY <2>1, WalkedStep, Zenon
    <2> QED BY <2>2, <1>2
  <1>5. G = 0 .. N
    <2>1. G \in SUBSET (0 .. N) /\ 0 \in G
      BY <1>2, <1>3
    <2>2. \A i \in 1 .. N : i - 1 \in G => i \in G
      BY <1>4
    <2> QED BY <1>2, <2>1, <2>2, UpTo
  <1>6. N \in G
    BY <1>2, <1>5
  <1> QED BY <1>1, <1>2, <1>6

-----------------------------------------------------------------------------
(* Threads, their timers and the lists *)

SleepCalls == {"event_recv", "mq_recv", "mq_send", "completion_wait", "wqueue_wait"}

ThreadCalls == Calls \cup {"run", "event_recv", "completion_wait", "wqueue_wait"}

ThreadTypes == ThreadsTypeOK /\ pc \in [Thread -> ThreadCalls]

(* A thread sleeps in the call it is in, without an error so far, and a    *)
(* timer that runs belongs to a thread that sleeps.                        *)
Parked ==
  /\ ThreadTypes
  /\ \A c \in SleepCalls : \A t \in Sleepers[c] :
       t \in Thread /\ pc[t] = c /\ error[t] = "EOK"
  /\ \A t \in timer : wait[t] = "ticks" /\ \E c \in SleepCalls : t \in Sleepers[c]

(* Who sleeps in which call, read off the lists.                           *)
LEMMA SleepersAre ==
  /\ DOMAIN Sleepers = SleepCalls
  /\ Sleepers["event_recv"] = Range(event_wait)
  /\ Sleepers["mq_recv"] = Range(suspend)
  /\ Sleepers["mq_send"] = Range(sender)
  /\ Sleepers["completion_wait"] = Range(completion)
  /\ Sleepers["wqueue_wait"] = polling
  BY DEF Sleepers, SleepCalls

(* The same in the next state.                                             *)
LEMMA SleepersNext ==
  /\ Sleepers'["event_recv"] = Range(event_wait')
  /\ Sleepers'["mq_recv"] = Range(suspend')
  /\ Sleepers'["mq_send"] = Range(sender')
  /\ Sleepers'["completion_wait"] = Range(completion')
  /\ Sleepers'["wqueue_wait"] = polling'
  BY DEF Sleepers

(* A thread that is in a call and not in its list is in no list.           *)
LEMMA Awake ==
  ASSUME Parked, NEW t \in Thread, pc[t] \in SleepCalls => t \notin Sleepers[pc[t]]
  PROVE  \A c \in SleepCalls : t \notin Sleepers[c]
  BY DEF Parked

(* The thread t goes to sleep in the call c.                               *)
Enters(t, c) ==
  /\ \A d \in SleepCalls : t \notin Sleepers[d]
  /\ Sleepers'[c] = Sleepers[c] \cup {t}
  /\ \A d \in SleepCalls \ {c} : Sleepers'[d] = Sleepers[d]

(* A thread that goes to sleep with a fresh error and a timer of its own   *)
(* keeps Parked.                                                           *)
LEMMA ParkBlocks ==
  ASSUME Parked, NEW t \in Thread, NEW c \in SleepCalls, NEW w \in Waits,
         Blocks(t, c, w), Enters(t, c)
  PROVE  Parked'
  <1> USE DEF Enters
  <1>1. /\ error' = [error EXCEPT ![t] = "EOK"] /\ pc' = [pc EXCEPT ![t] = c]
        /\ wait' = [wait EXCEPT ![t] = w]
        /\ timer' = IF w = "ticks" THEN timer \cup {t} ELSE timer
    BY DEF Blocks
  <1>2. /\ timer \subseteq Thread /\ error \in [Thread -> {"EOK", "ETIMEOUT", "ERROR"}]
        /\ wait \in [Thread -> Waits] /\ pc \in [Thread -> ThreadCalls]
    BY DEF Parked, ThreadTypes, ThreadsTypeOK
  <1>3. c \in ThreadCalls
    BY DEF SleepCalls, ThreadCalls, Calls
  <1>4. ThreadTypes'
    <2>1. timer' \subseteq Thread
      BY <1>1, <1>2
    <2>2. error' \in [Thread -> {"EOK", "ETIMEOUT", "ERROR"}]
      BY <1>1, <1>2
    <2>3. wait' \in [Thread -> Waits] /\ pc' \in [Thread -> ThreadCalls]
      BY <1>1, <1>2, <1>3
    <2> QED BY <2>1, <2>2, <2>3 DEF ThreadTypes, ThreadsTypeOK
  <1>5. ASSUME NEW d \in SleepCalls, NEW u \in Sleepers'[d]
        PROVE  u \in Thread /\ pc'[u] = d /\ error'[u] = "EOK"
    <2>1. CASE u = t
      BY <1>1, <1>2, <1>5, <2>1
    <2>2. CASE u # t
      <3>1. u \in Sleepers[d]
        BY <1>5, <2>2
      <3>2. u \in Thread /\ pc[u] = d /\ error[u] = "EOK"
        BY <3>1 DEF Parked
      <3> QED BY <1>1, <1>2, <2>2, <3>2
    <2> QED BY <2>1, <2>2
  <1>6. ASSUME NEW u \in timer'
        PROVE  wait'[u] = "ticks" /\ \E d \in SleepCalls : u \in Sleepers'[d]
    <2>1. CASE u = t
      <3>1. w = "ticks"
        <4>1. t \notin timer
          BY DEF Parked
        <4> QED BY <1>1, <1>6, <2>1, <4>1
      <3> QED BY <1>1, <1>2, <2>1, <3>1
    <2>2. CASE u # t
      <3>1. u \in timer
        BY <1>1, <1>6, <2>2
      <3>2. wait[u] = "ticks" /\ \E d \in SleepCalls : u \in Sleepers[d]
        BY <3>1 DEF Parked
      <3>3. \E d \in SleepCalls : u \in Sleepers'[d]
        BY <3>2
      <3> QED BY <1>1, <1>2, <2>2, <3>1, <3>2, <3>3
    <2> QED BY <2>1, <2>2
  <1> QED BY <1>4, <1>5, <1>6 DEF Parked

(* The threads of R are resumed, and the threads of A, which are in no     *)
(* list, go on.                                                            *)
Goes(R, A) ==
  /\ timer' = timer \ R
  /\ \A t \in A : \A c \in SleepCalls : t \notin Sleepers[c]
  /\ \A t \in Thread : t \in R \/ t \in A \/
       (pc'[t] = pc[t] /\ error'[t] = error[t] /\ wait'[t] = wait[t])

WakesAll(R) == \A c \in SleepCalls : Sleepers'[c] = Sleepers[c] \ R

(* The threads of R sleep in the call c, if they do.                       *)
WakesOne(c, R) ==
  /\ \A t \in R : pc[t] = c
  /\ Sleepers'[c] = Sleepers[c] \ R
  /\ \A d \in SleepCalls \ {c} : Sleepers'[d] = Sleepers[d]

(* So do threads that are taken out of their lists with their timers.      *)
LEMMA ParkWakes ==
  ASSUME Parked, ThreadTypes', NEW R, NEW A, Goes(R, A), WakesAll(R)
  PROVE  Parked'
  <1> USE DEF Goes, WakesAll
  <1>1. ASSUME NEW c \in SleepCalls, NEW t \in Sleepers'[c]
        PROVE  t \in Thread /\ pc'[t] = c /\ error'[t] = "EOK"
    <2>1. t \in Sleepers[c] /\ t \notin R
      BY <1>1
    <2>2. t \in Thread /\ pc[t] = c /\ error[t] = "EOK" /\ t \notin A
      BY <2>1 DEF Parked
    <2> QED BY <2>1, <2>2
  <1>2. ASSUME NEW t \in timer'
        PROVE  wait'[t] = "ticks" /\ \E c \in SleepCalls : t \in Sleepers'[c]
    <2>1. t \in timer /\ t \notin R
      BY <1>2
    <2>2. PICK c \in SleepCalls : t \in Sleepers[c]
      BY <2>1 DEF Parked
    <2>3. wait[t] = "ticks" /\ t \in Thread /\ t \notin A /\ t \in Sleepers'[c]
      BY <2>1, <2>2 DEF Parked
    <2> QED BY <2>1, <2>3
  <1> QED BY <1>1, <1>2 DEF Parked

(* The same when all of them sleep in one call.                            *)
LEMMA ParkWakesOne ==
  ASSUME Parked, ThreadTypes', NEW R, NEW A, NEW c \in SleepCalls,
         Goes(R, A), WakesOne(c, R)
  PROVE  Parked'
  <1>1. ASSUME NEW d \in SleepCalls PROVE Sleepers'[d] = Sleepers[d] \ R
    <2>1. CASE d = c
      BY <2>1 DEF WakesOne
    <2>2. CASE d # c
      <3>1. \A t \in Sleepers[d] : t \notin R
        BY <2>2 DEF Parked, WakesOne
      <3>2. Sleepers'[d] = Sleepers[d]
        BY <2>2 DEF WakesOne
      <3> QED BY <3>1, <3>2
    <2> QED BY <2>1, <2>2
  <1>2. WakesAll(R)
    BY <1>1 DEF WakesAll
  <1> QED BY <1>2, ParkWakes

(* The thread t goes on, or returns from its call.                         *)
Moves(t, at) ==
  /\ GoesOn(t, at) /\ at \in ThreadCalls
  /\ error' = error \/ error' = [error EXCEPT ![t] = "EOK"]
  /\ pc[t] \in SleepCalls => t \notin Sleepers[pc[t]]

(* It does, and the threads of R, in the list of the call c, are resumed.  *)
LEMMA ParkMoves ==
  ASSUME Parked, NEW t \in Thread, NEW at, Moves(t, at), NEW R, NEW c \in SleepCalls,
         timer' = timer \ R, WakesOne(c, R)
  PROVE  Parked'
  <1>1. /\ timer \subseteq Thread /\ error \in [Thread -> {"EOK", "ETIMEOUT", "ERROR"}]
        /\ wait \in [Thread -> Waits] /\ pc \in [Thread -> ThreadCalls]
    BY DEF Parked, ThreadTypes, ThreadsTypeOK
  <1>2. /\ pc' = [pc EXCEPT ![t] = at] /\ wait' = [wait EXCEPT ![t] = "none"]
        /\ at \in ThreadCalls /\ (error' = error \/ error' = [error EXCEPT ![t] = "EOK"])
    BY DEF Moves, GoesOn
  <1>3. pc' \in [Thread -> ThreadCalls] /\ wait' \in [Thread -> Waits]
    BY <1>1, <1>2 DEF Waits
  <1>4. error' \in [Thread -> {"EOK", "ETIMEOUT", "ERROR"}]
    BY <1>1, <1>2
  <1>5. ThreadTypes'
    BY <1>1, <1>3, <1>4 DEF ThreadTypes, ThreadsTypeOK
  <1>6. \A d \in SleepCalls : t \notin Sleepers[d]
    BY Awake DEF Moves
  <1>7. Goes(R, {t})
    BY <1>1, <1>2, <1>6 DEF Goes
  <1> QED BY <1>5, <1>7, ParkWakesOne

(* rt_ipc_list_resume_all keeps the types.                                 *)
LEMMA ResumeAllType ==
  ASSUME ThreadTypes, NEW R, ResumeAll(R)
  PROVE  ThreadTypes'
  <1>1. /\ timer \subseteq Thread /\ error \in [Thread -> {"EOK", "ETIMEOUT", "ERROR"}]
        /\ wait \in [Thread -> Waits] /\ pc \in [Thread -> ThreadCalls]
    BY DEF ThreadTypes, ThreadsTypeOK
  <1>2. /\ error' = [t \in Thread |-> IF t \in R THEN "ERROR" ELSE error[t]]
        /\ timer' = timer \ R /\ pc' = pc /\ wait' = wait
    BY DEF ResumeAll, Resume
  <1>3. error' \in [Thread -> {"EOK", "ETIMEOUT", "ERROR"}]
    BY <1>1, <1>2
  <1> QED BY <1>1, <1>2, <1>3 DEF ThreadTypes, ThreadsTypeOK

(* Only threads in the calls of C are touched.                             *)
Local(C) ==
  \A t \in Thread : \/ pc[t] \in C /\ pc'[t] \in C
                    \/ pc'[t] = pc[t] /\ error'[t] = error[t]

(* A thread that goes on touches no other.                                 *)
LEMMA MovesLocal ==
  ASSUME Parked, NEW t \in Thread, NEW at, Moves(t, at), NEW C, pc[t] \in C, at \in C
  PROVE  Local(C)
  <1>1. /\ pc' = [pc EXCEPT ![t] = at]
        /\ (error' = error \/ error' = [error EXCEPT ![t] = "EOK"])
    BY DEF Moves, GoesOn
  <1>2. error \in [Thread -> {"EOK", "ETIMEOUT", "ERROR"}] /\ pc \in [Thread -> ThreadCalls]
    BY DEF Parked, ThreadTypes, ThreadsTypeOK
  <1> QED BY <1>1, <1>2 DEF Local

(* A thread that goes to sleep touches no other.                           *)
LEMMA BlocksLocal ==
  ASSUME Parked, NEW t \in Thread, NEW c, NEW w, Blocks(t, c, w), NEW C, pc[t] \in C, c \in C
  PROVE  Local(C)
  <1>1. pc' = [pc EXCEPT ![t] = c] /\ error' = [error EXCEPT ![t] = "EOK"]
    BY DEF Blocks
  <1>2. error \in [Thread -> {"EOK", "ETIMEOUT", "ERROR"}] /\ pc \in [Thread -> ThreadCalls]
    BY DEF Parked, ThreadTypes, ThreadsTypeOK
  <1> QED BY <1>1, <1>2 DEF Local

-----------------------------------------------------------------------------
(* The event set *)

EventInv == EventTypeOK /\ NoMissedEvent

EventLocal == Local({"run", "event_recv"})

(* NoMissedEvent by threads instead of positions.                          *)
LEMMA MissedListed ==
  ASSUME EventTypeOK
  PROVE  NoMissedEvent <=> \A t \in Thread :
           Contains(event_wait, t) => ~Satisfied(event_info[t], set)
  <1>1. /\ DOMAIN event_wait = 1 .. Len(event_wait)
        /\ \A i \in 1 .. Len(event_wait) : event_wait[i] \in Thread
    BY DEF EventTypeOK
  <1> QED BY <1>1 DEF NoMissedEvent, Contains

(* The same in the next state.                                             *)
LEMMA MissedListedNext ==
  ASSUME EventTypeOK',
         \A t \in Thread : Contains(event_wait', t) => ~Satisfied(event_info'[t], set')
  PROVE  NoMissedEvent'
  <1>1. /\ DOMAIN event_wait' = 1 .. Len(event_wait')
        /\ \A i \in 1 .. Len(event_wait') : event_wait'[i] \in Thread
    BY DEF EventTypeOK
  <1> QED BY <1>1 DEF NoMissedEvent, Contains

Infos == [set : SUBSET Bit, option : {"AND", "OR"}, clear : BOOLEAN]

(* What rt_event_send does: the threads in got are served.                 *)
Serves(s, got) ==
  LET w == Walk(set \cup s)
  IN  /\ got = w.got /\ w \in Accs /\ Walked(w, set \cup s, Len(event_wait))
      /\ event_wait' \in Seq(Thread) /\ IsInjective(event_wait')
      /\ \A x : Contains(event_wait', x) <=> Contains(event_wait, x) /\ x \notin DOMAIN got
      /\ DOMAIN got \subseteq {t \in Thread : Contains(event_wait, t)}
      /\ \A t \in DOMAIN got : event_info'[t].set = got[t]
      /\ \A t \in Thread \ DOMAIN got : event_info'[t] = event_info[t]
      /\ timer' = timer \ DOMAIN got

(* rt_event_send does to the state what the walk has computed.             *)
LEMMA SendServes ==
  ASSUME EventTypeOK, NEW s \in SUBSET Bit, EventSend(s)
  PROVE  EventTypeOK' /\ \E got : Serves(s, got)
  <1> DEFINE z == set \cup s
             w == Walk(z)
             got == w.got
  <1>1. z \in SUBSET Bit
    BY DEF EventTypeOK
  <1>2. w \in Accs /\ Walked(w, z, Len(event_wait))
    BY <1>1, WalkEnds
  <1>3. /\ set' = w.set /\ event_wait' = w.list
        /\ event_info' = [t \in Thread |-> IF t \in DOMAIN got
                                           THEN [event_info[t] EXCEPT !.set = got[t]]
                                           ELSE event_info[t]]
        /\ timer' = timer \ DOMAIN got
    BY DEF EventSend, Resume
  <1> HIDE DEF w
  <1>4. /\ w.set \in SUBSET Bit /\ w.list \in Lists /\ DOMAIN got \in SUBSET Thread
        /\ got \in [DOMAIN got -> SUBSET Bit]
    BY <1>2, AccFacts
  <1>5. /\ \A x : Contains(w.list, x) <=> Contains(event_wait, x) /\ x \notin DOMAIN w.got
        /\ \A t \in DOMAIN w.got : \E j \in 1 .. Len(event_wait) : t = event_wait[j]
    BY <1>2 DEF Walked
  <1> HIDE DEF got
  <1>6. event_info \in [Thread -> Infos]
    BY DEF EventTypeOK, Infos
  <1>7. event_info' \in [Thread -> Infos]
    <2>1. ASSUME NEW t \in DOMAIN got PROVE [event_info[t] EXCEPT !.set = got[t]] \in Infos
      BY <1>4, <1>6 DEF Infos
    <2> QED BY <1>3, <1>6, <2>1
  <1>8. EventTypeOK'
    BY <1>3, <1>4, <1>7 DEF EventTypeOK, Lists, Infos
  <1>9. \A t \in DOMAIN got : event_info'[t].set = got[t]
    <2> SUFFICES ASSUME NEW t \in DOMAIN got PROVE event_info'[t].set = got[t]
      OBVIOUS
    <2>1. event_info'[t] = [event_info[t] EXCEPT !.set = got[t]] /\ event_info[t] \in Infos
      BY <1>3, <1>4, <1>6
    <2> QED BY <2>1 DEF Infos
  <1>10. DOMAIN got \subseteq {t \in Thread : Contains(event_wait, t)}
    BY <1>4, <1>5 DEF Contains, got
  <1>11. \A t \in Thread \ DOMAIN got : event_info'[t] = event_info[t]
    BY <1>3
  <1>12. \A x : Contains(event_wait', x) <=> Contains(event_wait, x) /\ x \notin DOMAIN got
    BY <1>3, <1>5 DEF got
  <1>13. Serves(s, got)
    BY <1>2, <1>3, <1>4, <1>9, <1>10, <1>11, <1>12 DEF Serves, got, w, Lists
  <1> QED BY <1>8, <1>13

(* rt_event_send keeps the invariant: who sleeps on is not satisfied by    *)
(* what is left.                                                           *)
LEMMA EventSendOk ==
  ASSUME Parked, EventInv, NEW s \in SUBSET Bit, EventSend(s),
         UNCHANGED <<mqvars, completionvars, wqueuevars>>
  PROVE  Parked' /\ EventInv' /\ EventLocal
  <1>1. PICK got : Serves(s, got)
    BY SendServes DEF EventInv
  <1>2. EventTypeOK'
    BY SendServes DEF EventInv
  <1>3. EventInv'
    <2> SUFFICES ASSUME NEW t \in Thread, Contains(event_wait', t)
                 PROVE  ~Satisfied(event_info'[t], set')
      BY <1>2, MissedListedNext DEF EventInv
    <2>1. Contains(event_wait, t) /\ t \notin DOMAIN got /\ event_info'[t] = event_info[t]
      BY <1>1 DEF Serves
    <2> DEFINE w == Walk(set \cup s)
    <2>2. w.got = got /\ set' = w.set /\ Walked(w, set \cup s, Len(event_wait))
      BY <1>1 DEF Serves, EventSend
    <2> HIDE DEF w
    <2>3. \A j \in 1 .. Len(event_wait) : event_wait[j] \notin DOMAIN w.got =>
            ~Satisfied(event_info[event_wait[j]], w.set)
      BY <2>2 DEF Walked
    <2> QED BY <2>1, <2>2, <2>3 DEF Contains
  <1>4. pc' = pc /\ error' = error /\ wait' = wait
    BY DEF EventSend
  <1>5. EventLocal
    BY <1>4 DEF EventLocal, Local
  <1>6. timer' = timer \ DOMAIN got
    BY <1>1 DEF Serves
  <1>7. ThreadTypes'
    BY <1>4, <1>6 DEF Parked, ThreadTypes, ThreadsTypeOK
  <1>8. /\ Sleepers'["event_recv"] = Sleepers["event_recv"] \ DOMAIN got
        /\ \A t \in DOMAIN got : t \in Sleepers["event_recv"]
    <2>1. /\ \A x : x \in Range(event_wait) <=> Contains(event_wait, x)
          /\ \A x : x \in Range(event_wait') <=> Contains(event_wait', x)
      BY <1>2, RangeContains DEF EventInv, EventTypeOK
    <2>2. /\ Sleepers'["event_recv"] = Range(event_wait')
          /\ Sleepers["event_recv"] = Range(event_wait)
      BY SleepersAre, SleepersNext
    <2>3. /\ \A x : Contains(event_wait', x) <=> Contains(event_wait, x) /\ x \notin DOMAIN got
          /\ DOMAIN got \subseteq {t \in Thread : Contains(event_wait, t)}
      BY <1>1 DEF Serves
    <2> QED BY ONLY <2>1, <2>2, <2>3
  <1>9. \A c \in SleepCalls \ {"event_recv"} : Sleepers'[c] = Sleepers[c]
    BY SleepersAre, SleepersNext DEF SleepCalls, mqvars, completionvars, wqueuevars
  <1>10. \A t \in DOMAIN got : pc[t] = "event_recv"
    BY <1>8 DEF Parked, SleepCalls
  <1>11. "event_recv" \in SleepCalls
    BY DEF SleepCalls
  <1>12. Parked'
    <2>1. WakesOne("event_recv", DOMAIN got)
      BY <1>8, <1>9, <1>10 DEF WakesOne
    <2>2. Goes(DOMAIN got, {})
      BY <1>4, <1>6 DEF Goes
    <2> QED BY <1>7, <1>11, <2>1, <2>2, ParkWakesOne, Zenon
  <1> QED BY <1>3, <1>5, <1>12

(* rt_event_recv keeps it: taking events satisfies nobody, and who goes to *)
(* sleep is not satisfied.                                                 *)
LEMMA EventRecvOk ==
  ASSUME Parked, EventInv, NEW t \in EventUser, EventRecv(t),
         UNCHANGED <<mqvars, completionvars, wqueuevars>>
  PROVE  Parked' /\ EventInv' /\ EventLocal
  <1>0. /\ t \in Thread /\ pc[t] = "run" /\ EventCall \subseteq Infos
        /\ event_info \in [Thread -> Infos]
        /\ set \in SUBSET Bit /\ event_wait \in Seq(Thread) /\ IsInjective(event_wait)
    BY EventAssumption DEF EventRecv, EventInv, EventTypeOK, Infos
  <1>1. PICK info \in EventCall :
          \/ /\ set' = (IF info.clear THEN set \ info.set ELSE set)
             /\ UNCHANGED <<event_wait, event_info, threads>>
          \/ /\ ~Satisfied(info, set)
             /\ \E w \in WaitsOf(t) : Blocks(t, "event_recv", w)
             /\ event_info' = [event_info EXCEPT ![t] = info]
             /\ event_wait' = ListSuspend(event_wait, t, Flag, Prio)
             /\ UNCHANGED set
    BY DEF EventRecv
  <1>2. \A u \in Thread : Contains(event_wait, u) => ~Satisfied(event_info[u], set)
    BY MissedListed DEF EventInv
  <1>a. \A d \in SleepCalls \ {"event_recv"} : Sleepers'[d] = Sleepers[d]
    BY SleepersAre, SleepersNext DEF SleepCalls, mqvars, completionvars, wqueuevars
  <1>3. ASSUME set' = (IF info.clear THEN set \ info.set ELSE set),
               UNCHANGED <<event_wait, event_info, threads>>
        PROVE  Parked' /\ EventInv' /\ EventLocal
    <2>1. Parked'
      BY <1>3 DEF threads, Parked, ThreadTypes, ThreadsTypeOK, Sleepers,
                  mqvars, completionvars, wqueuevars
    <2>2. EventLocal
      BY <1>3 DEF threads, EventLocal, Local
    <2>3. EventTypeOK' /\ set' \subseteq set
      BY <1>0, <1>3 DEF EventInv, EventTypeOK
    <2>4. ASSUME NEW u \in Thread, Contains(event_wait', u)
          PROVE  ~Satisfied(event_info'[u], set')
      <3>1. ~Satisfied(event_info[u], set)
        BY <1>2, <1>3, <2>4
      <3>2. ~Satisfied(event_info[u], set')
        BY <2>3, <3>1, SatisfiedMonotone
      <3> QED BY <1>3, <3>2
    <2>5. NoMissedEvent'
      BY <2>3, <2>4, MissedListedNext
    <2> QED BY <2>1, <2>2, <2>3, <2>5 DEF EventInv
  <1>4. ASSUME NEW w \in WaitsOf(t), Blocks(t, "event_recv", w), ~Satisfied(info, set),
               event_info' = [event_info EXCEPT ![t] = info],
               event_wait' = ListSuspend(event_wait, t, Flag, Prio), UNCHANGED set
        PROVE  Parked' /\ EventInv' /\ EventLocal
    <2>0. \A d \in SleepCalls : t \notin Sleepers[d]
      BY <1>0, Awake DEF SleepCalls
    <2>1. ~Contains(event_wait, t)
      BY <1>0, <2>0, SleepersAre, RangeContains DEF SleepCalls
    <2>2. /\ event_wait' \in Seq(Thread) /\ IsInjective(event_wait')
          /\ \A x : Contains(event_wait', x) <=> Contains(event_wait, x) \/ x = t
      BY <1>0, <1>4, <2>1, ListSuspendContains, ZenonT(60)
    <2>3. event_info' \in [Thread -> Infos]
      BY <1>0, <1>4
    <2>4. EventTypeOK'
      BY <1>0, <1>4, <2>2, <2>3 DEF EventTypeOK, Infos
    <2>5. ASSUME NEW u \in Thread, Contains(event_wait', u)
          PROVE  ~Satisfied(event_info'[u], set')
      <3>1. CASE u = t
        BY <1>0, <1>4, <3>1
      <3>2. CASE u # t
        <4>1. Contains(event_wait, u)
          BY <2>2, <2>5, <3>2
        <4> QED BY <1>0, <1>2, <1>4, <3>2, <4>1
      <3> QED BY <3>1, <3>2
    <2>6. NoMissedEvent'
      BY <2>4, <2>5, MissedListedNext
    <2>7. Sleepers'["event_recv"] = Sleepers["event_recv"] \cup {t}
      <3>1. /\ \A x : x \in Range(event_wait) <=> Contains(event_wait, x)
            /\ \A x : x \in Range(event_wait') <=> Contains(event_wait', x)
        BY <1>0, <2>2, RangeContains
      <3>2. Range(event_wait') = Range(event_wait) \cup {t}
        BY <2>2, <3>1
      <3> QED BY <3>2, SleepersAre, SleepersNext
    <2>8. Enters(t, "event_recv") /\ "event_recv" \in SleepCalls /\ w \in Waits
      BY <1>a, <2>0, <2>7 DEF Enters, SleepCalls, WaitsOf, Waits
    <2>9. Parked'
      BY <1>0, <1>4, <2>8, ParkBlocks, Zenon
    <2>10. EventLocal
      BY <1>0, <1>4, BlocksLocal DEF EventLocal
    <2> QED BY <2>4, <2>6, <2>9, <2>10 DEF EventInv
  <1> QED BY <1>1, <1>3, <1>4

(* The rest of rt_event_recv, after the wait, keeps it.                    *)
LEMMA EventResumedOk ==
  ASSUME Parked, EventInv, NEW t \in EventUser, EventResumed(t),
         UNCHANGED <<mqvars, completionvars, wqueuevars>>
  PROVE  Parked' /\ EventInv' /\ EventLocal
  <1>0. /\ t \in Thread /\ pc[t] = "event_recv" /\ ~Contains(event_wait, t)
        /\ event_info \in [Thread -> Infos]
        /\ event_wait \in Seq(Thread) /\ IsInjective(event_wait)
    BY EventAssumption DEF EventResumed, EventInv, EventTypeOK, Infos
  <1>1. /\ Returns(t) /\ event_info' = [event_info EXCEPT ![t] = NoInfo]
        /\ set' = set /\ event_wait' = event_wait /\ timer' = timer
    BY DEF EventResumed
  <1>2. t \notin Sleepers["event_recv"]
    BY <1>0, SleepersAre, RangeContains
  <1>3. Moves(t, "run")
    BY <1>0, <1>1, <1>2 DEF Moves, Returns, ThreadCalls
  <1>4. WakesOne("event_recv", {}) /\ "event_recv" \in SleepCalls
    BY <1>1, SleepersAre, SleepersNext
       DEF WakesOne, SleepCalls, mqvars, completionvars, wqueuevars
  <1>5. timer' = timer \ {}
    BY <1>1
  <1>6. Parked'
    BY <1>0, <1>3, <1>4, <1>5, ParkMoves, Zenon
  <1>7. EventLocal
    BY <1>0, <1>3, MovesLocal DEF EventLocal
  <1>8. EventTypeOK'
    <2>1. NoInfo \in Infos
      BY DEF NoInfo, Infos
    <2>2. event_info' \in [Thread -> Infos]
      BY <1>0, <1>1, <2>1
    <2> QED BY <1>1, <2>2 DEF EventInv, EventTypeOK, Infos
  <1>9. ASSUME NEW u \in Thread, Contains(event_wait', u)
        PROVE  ~Satisfied(event_info'[u], set')
    BY <1>0, <1>1, <1>9, MissedListed DEF EventInv
  <1> QED BY <1>6, <1>7, <1>8, <1>9, MissedListedNext DEF EventInv

(* rt_event_control wakes everybody.                                       *)
LEMMA EventResetOk ==
  ASSUME Parked, EventInv, EventReset, UNCHANGED <<mqvars, completionvars, wqueuevars>>
  PROVE  Parked' /\ EventInv' /\ EventLocal
  <1> DEFINE R == Range(event_wait)
  <1>1. /\ ResumeAll(R) /\ event_wait' = <<>> /\ set' = {} /\ event_info' = event_info
    BY DEF EventReset
  <1>2. /\ error' = [t \in Thread |-> IF t \in R THEN "ERROR" ELSE error[t]]
        /\ timer' = timer \ R /\ pc' = pc /\ wait' = wait
    BY <1>1 DEF ResumeAll, Resume
  <1>3. ThreadTypes'
    BY <1>1, ResumeAllType DEF Parked
  <1>4. Sleepers["event_recv"] = R /\ Sleepers'["event_recv"] = {}
    BY <1>1, SleepersAre, SleepersNext DEF Range
  <1> HIDE DEF R
  <1>5. \A t \in R : pc[t] = "event_recv"
    BY <1>4 DEF Parked, SleepCalls
  <1>6. WakesOne("event_recv", R) /\ "event_recv" \in SleepCalls
    BY <1>4, <1>5, SleepersAre, SleepersNext
       DEF WakesOne, SleepCalls, mqvars, completionvars, wqueuevars
  <1>7. Goes(R, {})
    BY <1>2 DEF Goes
  <1>8. Parked'
    BY <1>3, <1>6, <1>7, ParkWakesOne, Zenon
  <1>9. EventLocal
    BY <1>2, <1>5 DEF EventLocal, Local
  <1>10. EventTypeOK' /\ NoMissedEvent'
    BY <1>1 DEF EventInv, EventTypeOK, NoMissedEvent, IsInjective
  <1> QED BY <1>8, <1>9, <1>10 DEF EventInv

-----------------------------------------------------------------------------
(* The completion *)

CompletionInv ==
  /\ completed \in BOOLEAN
  /\ completion \in {<<>>, <<Waiter>>}
  /\ completion # <<>> => ~completed

CompletionLocal == Local({"run", "completion_wait"})

(* What the invariant says of the completion is what the runs check.       *)
LEMMA CompletionIs ==
  ASSUME CompletionInv
  PROVE  CompletionTypeOK /\ NoIdleCompletion
  <1>1. <<Waiter>> \in Seq(Thread) /\ Len(<<Waiter>>) = 1 /\ <<>> \in Seq(Thread)
    BY CompletionAssumption
  <1>2. CASE completion = <<>>
    BY <1>1, <1>2 DEF CompletionInv, CompletionTypeOK, NoIdleCompletion
  <1>3. CASE completion = <<Waiter>>
    BY <1>1, <1>3 DEF CompletionInv, CompletionTypeOK, NoIdleCompletion
  <1> QED BY <1>2, <1>3 DEF CompletionInv

(* The list of a completion holds the waiter or nobody.                    *)
LEMMA WaiterRange == Range(<<>>) = {} /\ Range(<<Waiter>>) = {Waiter}
  <1>1. Range(<<>>) = {}
    BY DEF Range
  <1>2. DOMAIN <<Waiter>> = {1} /\ <<Waiter>>[1] = Waiter
    OBVIOUS
  <1>3. Range(<<Waiter>>) = {Waiter}
    BY <1>2 DEF Range
  <1> QED BY <1>1, <1>3

(* The steps of completion.c keep the invariant.                           *)
LEMMA CompletionOk ==
  ASSUME Parked, CompletionInv, CompletionStep
  PROVE  Parked' /\ CompletionInv' /\ CompletionLocal
  <1>0. /\ Waiter \in Thread /\ "completion_wait" \in SleepCalls
        /\ UNCHANGED <<eventvars, mqvars, wqueuevars>>
        /\ Sleepers["completion_wait"] = Range(completion)
        /\ Sleepers'["completion_wait"] = Range(completion')
    BY CompletionAssumption, SleepersAre, SleepersNext DEF CompletionStep, SleepCalls
  <1>1. \A d \in SleepCalls \ {"completion_wait"} : Sleepers'[d] = Sleepers[d]
    BY <1>0, SleepersAre, SleepersNext DEF SleepCalls, eventvars, mqvars, wqueuevars
  <1>2. ASSUME CompletionWait PROVE Parked' /\ CompletionInv' /\ CompletionLocal
    <2>0. pc[Waiter] = "run"
      BY <1>2 DEF CompletionWait
    <2>1. \A d \in SleepCalls : Waiter \notin Sleepers[d]
      BY <1>0, <2>0, Awake DEF SleepCalls
    <2>2. completion = <<>>
      BY <1>0, <2>1, WaiterRange DEF CompletionInv
    <2>3. CASE completed' = FALSE /\ UNCHANGED <<completion, threads>>
      <3>1. Parked'
        BY <1>0, <2>3 DEF threads, Parked, ThreadTypes, ThreadsTypeOK, Sleepers,
                          eventvars, mqvars, wqueuevars
      <3>2. CompletionInv' /\ CompletionLocal
        BY <2>2, <2>3 DEF CompletionInv, CompletionLocal, Local, threads
      <3> QED BY <3>1, <3>2
    <2>4. ASSUME ~completed, NEW w \in WaitsOf(Waiter), Blocks(Waiter, "completion_wait", w),
                 completion' = Append(completion, Waiter), UNCHANGED completed
          PROVE  Parked' /\ CompletionInv' /\ CompletionLocal
      <3>1. completion' = <<Waiter>>
        BY <2>2, <2>4
      <3>2. Enters(Waiter, "completion_wait") /\ w \in Waits
        BY <1>0, <1>1, <2>1, <2>2, <3>1, WaiterRange DEF Enters, WaitsOf, Waits
      <3>3. Parked'
        BY <1>0, <2>4, <3>2, ParkBlocks, Zenon
      <3>4. CompletionLocal
        BY <1>0, <2>0, <2>4, BlocksLocal DEF CompletionLocal
      <3>5. CompletionInv'
        BY <2>4, <3>1 DEF CompletionInv
      <3> QED BY <3>3, <3>4, <3>5
    <2> QED BY <1>2, <2>3, <2>4 DEF CompletionWait
  <1>3. ASSUME CompletionResumed PROVE Parked' /\ CompletionInv' /\ CompletionLocal
    <2>1. /\ pc[Waiter] = "completion_wait" /\ completion = <<>> /\ completion' = <<>>
          /\ Returns(Waiter) /\ completed' = FALSE /\ timer' = timer
      BY <1>3 DEF CompletionResumed
    <2>2. WakesOne("completion_wait", {}) /\ timer' = timer \ {}
      BY <1>0, <1>1, <2>1 DEF WakesOne
    <2>3. Moves(Waiter, "run")
      BY <1>0, <2>1, WaiterRange DEF Moves, Returns, ThreadCalls
    <2>4. Parked'
      BY <1>0, <2>2, <2>3, ParkMoves, Zenon
    <2>5. CompletionLocal
      BY <1>0, <2>1, <2>3, MovesLocal DEF CompletionLocal
    <2> QED BY <2>1, <2>4, <2>5 DEF CompletionInv
  <1>4. ASSUME CompletionDone PROVE Parked' /\ CompletionInv' /\ CompletionLocal
    <2> DEFINE R == Range(completion)
    <2>1. /\ completed' = TRUE /\ completion' = <<>> /\ timer' = timer \ R
          /\ error' = error /\ pc' = pc /\ wait' = wait
      BY <1>4 DEF CompletionDone, Resume
    <2>2. \A t \in R : pc[t] = "completion_wait"
      BY <1>0 DEF Parked
    <2>3. WakesOne("completion_wait", R)
      BY <1>0, <1>1, <2>1, <2>2, WaiterRange DEF WakesOne
    <2> HIDE DEF R
    <2>4. Goes(R, {})
      BY <2>1 DEF Goes
    <2>5. ThreadTypes'
      BY <2>1 DEF Parked, ThreadTypes, ThreadsTypeOK
    <2>6. Parked'
      BY <1>0, <2>3, <2>4, <2>5, ParkWakesOne, Zenon
    <2> QED BY <2>1, <2>6 DEF CompletionInv, CompletionLocal, Local
  <1>5. CompletionWait \/ CompletionResumed \/ CompletionDone
    BY DEF CompletionStep
  <1> QED BY ONLY <1>2, <1>3, <1>4, <1>5

-----------------------------------------------------------------------------
(* The wait queue *)

WqueueInv ==
  /\ wakeup \in BOOLEAN /\ waiting_list \in Seq(WqUser) /\ polling \subseteq WqUser
  /\ IsInjective(waiting_list)
  /\ \A t \in WqUser : Contains(waiting_list, t) => pc[t] = "wqueue_wait"
  /\ \A t \in polling : Contains(waiting_list, t)
  /\ FlagFresh

WqueueLocal == Local({"run", "wqueue_wait"})

(* What the invariant says of the wait queue is what the runs check.       *)
LEMMA WqueueIs ==
  ASSUME WqueueInv
  PROVE  WqueueTypeOK /\ NodesLive /\ FlagFresh
  <1>1. /\ DOMAIN waiting_list = 1 .. Len(waiting_list)
        /\ \A i \in 1 .. Len(waiting_list) : waiting_list[i] \in WqUser
    BY DEF WqueueInv
  <1>2. \A i \in DOMAIN waiting_list : pc[waiting_list[i]] = "wqueue_wait"
    BY <1>1 DEF WqueueInv, Contains
  <1> QED BY <1>2 DEF WqueueInv, WqueueTypeOK, NodesLive

(* What a step of another object leaves alone                              *)
LEMMA WqueueFrame ==
  ASSUME WqueueInv, NEW C, Local(C), "wqueue_wait" \notin C, UNCHANGED wqueuevars
  PROVE  WqueueInv'
  <1>1. wakeup' = wakeup /\ waiting_list' = waiting_list /\ polling' = polling
    BY DEF wqueuevars
  <1>2. \A t \in WqUser : pc[t] = "wqueue_wait" <=> pc'[t] = "wqueue_wait"
    BY WaitQueueAssumption DEF Local
  <1>3. FlagFresh'
    BY <1>1, <1>2 DEF WqueueInv, FlagFresh
  <1>4. \A t \in WqUser : Contains(waiting_list', t) => pc'[t] = "wqueue_wait"
    BY <1>1, <1>2 DEF WqueueInv
  <1> QED BY <1>1, <1>3, <1>4 DEF WqueueInv

(* rt_wqueue_wait puts one node in the list before it suspends the thread. *)
LEMMA WqueueWaitOk ==
  ASSUME Parked, WqueueInv, NEW t \in WqUser, WqueueWait(t),
         UNCHANGED <<eventvars, mqvars, completionvars>>
  PROVE  Parked' /\ WqueueInv' /\ WqueueLocal
  <1>0. /\ t \in Thread /\ "wqueue_wait" \in SleepCalls /\ pc[t] = "run"
        /\ Sleepers["wqueue_wait"] = polling /\ Sleepers'["wqueue_wait"] = polling'
        /\ waiting_list \in Seq(WqUser) /\ IsInjective(waiting_list) /\ polling \subseteq WqUser
        /\ pc \in [Thread -> ThreadCalls] /\ WqUser \subseteq Thread
    BY WaitQueueAssumption, SleepersAre, SleepersNext
       DEF WqueueWait, SleepCalls, WqueueInv, Parked, ThreadTypes
  <1>1. \A d \in SleepCalls \ {"wqueue_wait"} : Sleepers'[d] = Sleepers[d]
    BY SleepersAre, SleepersNext DEF SleepCalls, eventvars, mqvars, completionvars
  <1>2. \A d \in SleepCalls : t \notin Sleepers[d]
    BY <1>0, Awake DEF SleepCalls
  <1>3. ~Contains(waiting_list, t)
    BY <1>0 DEF WqueueInv
  <1>4. CASE wakeup' = FALSE /\ UNCHANGED <<waiting_list, polling, threads>>
    <2>1. Parked'
      BY <1>4 DEF threads, Parked, ThreadTypes, ThreadsTypeOK, Sleepers,
                        eventvars, mqvars, completionvars
    <2>2. FlagFresh'
      BY <1>4 DEF FlagFresh
    <2>3. WqueueInv' /\ WqueueLocal
      BY <1>4, <2>2 DEF WqueueInv, WqueueLocal, Local, threads
    <2> QED BY <2>1, <2>3
  <1>5. ASSUME ~wakeup, NEW w \in WaitsOf(t), Blocks(t, "wqueue_wait", w),
               waiting_list' = Append(waiting_list, t), polling' = polling \cup {t},
               UNCHANGED wakeup
        PROVE  Parked' /\ WqueueInv' /\ WqueueLocal
    <2>1. Enters(t, "wqueue_wait") /\ w \in Waits
      BY <1>0, <1>1, <1>2, <1>5 DEF Enters, WaitsOf, Waits
    <2>2. Parked'
      BY <1>0, <1>5, <2>1, ParkBlocks, Zenon
    <2>3. WqueueLocal
      BY <1>0, <1>5, BlocksLocal DEF WqueueLocal
    <2>4. /\ waiting_list' \in Seq(WqUser) /\ IsInjective(waiting_list')
          /\ \A x : Contains(waiting_list', x) <=> Contains(waiting_list, x) \/ x = t
      BY <1>0, <1>3, <1>5, AppendContains
    <2>5. pc' = [pc EXCEPT ![t] = "wqueue_wait"]
      BY <1>5 DEF Blocks
    <2>6. \A u \in WqUser : Contains(waiting_list', u) => pc'[u] = "wqueue_wait"
      BY <1>0, <2>4, <2>5 DEF WqueueInv
    <2>7. \A u \in polling' : Contains(waiting_list', u)
      BY <1>5, <2>4 DEF WqueueInv
    <2>8. FlagFresh'
      BY <1>5 DEF FlagFresh
    <2> QED BY <1>0, <1>5, <2>2, <2>3, <2>4, <2>6, <2>7, <2>8 DEF WqueueInv
  <1> QED BY <1>4, <1>5 DEF WqueueWait

(* The thread removes its node before it returns.                          *)
LEMMA WqueueResumedOk ==
  ASSUME Parked, WqueueInv, NEW t \in WqUser, WqueueResumed(t),
         UNCHANGED <<eventvars, mqvars, completionvars>>
  PROVE  Parked' /\ WqueueInv' /\ WqueueLocal
  <1>0. /\ t \in Thread /\ "wqueue_wait" \in SleepCalls
        /\ pc[t] = "wqueue_wait" /\ t \notin polling
        /\ Sleepers["wqueue_wait"] = polling /\ Sleepers'["wqueue_wait"] = polling'
        /\ waiting_list \in Seq(WqUser) /\ IsInjective(waiting_list) /\ polling \subseteq WqUser
        /\ pc \in [Thread -> ThreadCalls] /\ WqUser \subseteq Thread
    BY WaitQueueAssumption, SleepersAre, SleepersNext
       DEF WqueueResumed, SleepCalls, WqueueInv, Parked, ThreadTypes
  <1>1. /\ Returns(t) /\ wakeup' = FALSE /\ waiting_list' = RemoveFirst(waiting_list, t)
        /\ polling' = polling /\ timer' = timer
    BY DEF WqueueResumed
  <1>2. WakesOne("wqueue_wait", {}) /\ timer' = timer \ {}
    BY <1>0, <1>1, SleepersAre, SleepersNext
       DEF WakesOne, SleepCalls, eventvars, mqvars, completionvars
  <1>3. Moves(t, "run")
    BY <1>0, <1>1 DEF Moves, Returns, ThreadCalls
  <1>4. Parked'
    BY <1>0, <1>2, <1>3, ParkMoves, Zenon
  <1>5. WqueueLocal
    BY <1>0, <1>3, MovesLocal DEF WqueueLocal
  <1>6. waiting_list' \in Seq(WqUser) /\ IsInjective(waiting_list')
    BY <1>0, <1>1, RemoveContains
  <1>7. \A x : Contains(waiting_list', x) <=> Contains(waiting_list, x) /\ x # t
    BY ONLY <1>0, <1>1, RemoveContains, Zenon
  <1>8. pc' = [pc EXCEPT ![t] = "run"]
    BY <1>1 DEF Returns, GoesOn
  <1>9. \A u \in WqUser : Contains(waiting_list', u) => pc'[u] = "wqueue_wait"
    BY <1>0, <1>7, <1>8 DEF WqueueInv
  <1>10. \A u \in polling' : Contains(waiting_list', u)
    BY <1>0, <1>1, <1>7 DEF WqueueInv
  <1>11. FlagFresh'
    BY <1>1 DEF FlagFresh
  <1> QED BY <1>0, <1>1, <1>4, <1>5, <1>6, <1>9, <1>10, <1>11 DEF WqueueInv

(* rt_wqueue_wakeup resumes a thread whose node is in the list.            *)
LEMMA WqueueWakeupOk ==
  ASSUME Parked, WqueueInv, WqueueWakeup, UNCHANGED <<eventvars, mqvars, completionvars>>
  PROVE  Parked' /\ WqueueInv' /\ WqueueLocal
  <1> DEFINE R == First(waiting_list)
  <1>0. /\ "wqueue_wait" \in SleepCalls
        /\ Sleepers["wqueue_wait"] = polling /\ Sleepers'["wqueue_wait"] = polling'
        /\ waiting_list \in Seq(WqUser) /\ IsInjective(waiting_list) /\ polling \subseteq WqUser
    BY SleepersAre, SleepersNext DEF SleepCalls, WqueueInv
  <1>1. /\ wakeup' = TRUE /\ waiting_list' = Shortened(waiting_list)
        /\ polling' = polling \ R /\ timer' = timer \ R
        /\ error' = error /\ pc' = pc /\ wait' = wait
    BY DEF WqueueWakeup, Resume
  <1>2. \A t \in R : t \in WqUser /\ pc[t] = "wqueue_wait"
    BY <1>0, HeadContains DEF First, WqueueInv
  <1>3. /\ waiting_list' \in Seq(WqUser) /\ IsInjective(waiting_list')
        /\ \A x : Contains(waiting_list', x) <=> Contains(waiting_list, x) /\ x \notin R
    <2>1. CASE waiting_list = <<>>
      BY <1>0, <1>1, <2>1 DEF Shortened, First
    <2>2. CASE waiting_list # <<>>
      <3>1. waiting_list' = Tail(waiting_list) /\ R = {Head(waiting_list)}
        BY <1>1, <2>2 DEF Shortened, First
      <3>2. Tail(waiting_list) \in Seq(WqUser) /\ IsInjective(Tail(waiting_list))
        BY <1>0, <2>2, TailContains
      <3>3. \A x : Contains(Tail(waiting_list), x) <=>
              Contains(waiting_list, x) /\ x # Head(waiting_list)
        BY ONLY <1>0, <2>2, TailContains, Zenon
      <3> HIDE DEF R
      <3> QED BY <3>1, <3>2, <3>3
    <2> QED BY <2>1, <2>2
  <1>4. polling # {} => R # {}
    BY <1>0, EmptyContains DEF First, WqueueInv
  <1> HIDE DEF R
  <1>5. WakesOne("wqueue_wait", R)
    BY <1>0, <1>1, <1>2, SleepersAre, SleepersNext
       DEF WakesOne, SleepCalls, eventvars, mqvars, completionvars
  <1>6. Goes(R, {})
    BY <1>1 DEF Goes
  <1>7. ThreadTypes'
    BY <1>1 DEF Parked, ThreadTypes, ThreadsTypeOK
  <1>8. Parked'
    BY <1>0, <1>5, <1>6, <1>7, ParkWakesOne, Zenon
  <1>9. FlagFresh'
    <2> SUFFICES ASSUME polling' # {} PROVE \E t \in WqUser \ polling' : pc'[t] = "wqueue_wait"
      BY DEF FlagFresh
    <2>1. PICK t \in R : TRUE
      BY <1>1, <1>4
    <2> QED BY <1>1, <1>2, <2>1
  <1>10. \A u \in WqUser : Contains(waiting_list', u) => pc'[u] = "wqueue_wait"
    BY <1>1, <1>3 DEF WqueueInv
  <1>11. \A u \in polling' : Contains(waiting_list', u)
    BY <1>1, <1>3 DEF WqueueInv
  <1>12. WqueueLocal
    BY <1>1 DEF WqueueLocal, Local
  <1> QED BY <1>0, <1>1, <1>3, <1>8, <1>9, <1>10, <1>11, <1>12 DEF WqueueInv

-----------------------------------------------------------------------------
(* The links of the message queue *)

(* The slots of q, linked in this order from p on                          *)
Path(links, p, q) ==
  /\ q \in Seq(Slot) /\ IsInjective(q)
  /\ p = IF q = <<>> THEN Null ELSE q[1]
  /\ \A i \in 1 .. Len(q) : links[q[i]] = IF i = Len(q) THEN Null ELSE q[i + 1]

ChainSteps(links) ==
  CHOOSE f : f = [k \in 0 .. Cardinality(Slot) |->
                   [s \in Slot \cup {Null} |->
                     IF k = 0 \/ s = Null THEN <<>> ELSE <<s>> \o f[k - 1][links[s]]]]

Links == [Slot -> Slot \cup {Null}]

(* The pool of messages is finite.                                         *)
LEMMA SlotCount == Cardinality(Slot) \in Nat /\ IsFiniteSet(Slot)
  BY MessageQueueAssumption, FS_CardinalityType

(* Following the links one step further puts one slot in front.            *)
LEMMA ChainStep ==
  ASSUME NEW links \in Links
  PROVE  LET f == ChainSteps(links)
         IN  /\ \A k \in 0 .. Cardinality(Slot) : f[k][Null] = <<>>
             /\ \A k \in 1 .. Cardinality(Slot) : \A s \in Slot :
                  f[k][s] = <<s>> \o f[k - 1][links[s]]
             /\ \A p : ChainFrom(links, p) = f[Cardinality(Slot)][p]
  <1> DEFINE N == Cardinality(Slot)
             D == Slot \cup {Null}
             S == [D -> Seq(Slot)]
             Row(f, k) == [s \in D |-> IF k = 0 \/ s = Null THEN <<>>
                                       ELSE <<s>> \o f[links[s]]]
             base == [s \in D |-> <<>>]
             step == [k \in 1 .. N |-> [f \in S |-> Row(f, k)]]
             Is(f) == f = [k \in 0 .. N |->
                            [s \in D |-> IF k = 0 \/ s = Null THEN <<>>
                                         ELSE <<s>> \o f[k - 1][links[s]]]]
             w == ChainSteps(links)
  <1>1. N \in Nat /\ links \in [Slot -> D]
    BY SlotCount DEF Links
  <1>2. ASSUME NEW k \in 1 .. N, NEW f \in S PROVE Row(f, k) \in S
    <2>1. ASSUME NEW s \in D, s # Null PROVE <<s>> \o f[links[s]] \in Seq(Slot)
      <3>1. <<s>> \in Seq(Slot) /\ f[links[s]] \in Seq(Slot)
        BY <1>1, <2>1
      <3> QED BY <3>1, ConcatProperties
    <2> QED BY <2>1
  <1>3. base \in S
    OBVIOUS
  <1>4. \A k \in 1 .. N, f \in S : step[k][f] = Row(f, k)
    OBVIOUS
  <1> HIDE DEF N, S, Row, base, step
  <1>5. Closed(S, N, base, step)
    BY <1>1, <1>2, <1>3, <1>4 DEF Closed
  <1>6. \E f : Iterates(f, S, N, base, step)
    BY ONLY <1>5, Recursion, Zenon
  <1>7. PICK f : f \in [0 .. N -> S] /\ f[0] = base /\ \A k \in 1 .. N : f[k] = step[k][f[k - 1]]
    BY <1>6 DEF Iterates
  <1>8. ASSUME NEW k \in 0 .. N
        PROVE  f[k] = [s \in D |-> IF k = 0 \/ s = Null THEN <<>>
                                   ELSE <<s>> \o f[k - 1][links[s]]]
    <2>1. CASE k = 0
      BY <1>7, <2>1 DEF base
    <2>2. CASE k # 0
      <3>1. k \in 1 .. N /\ k - 1 \in 0 .. N
        BY <1>1, <2>2
      <3>2. f[k - 1] \in S /\ f[k] = Row(f[k - 1], k)
        BY <1>4, <1>7, <3>1
      <3> QED BY <3>2 DEF Row
    <2> QED BY <2>1, <2>2
  <1>9. Is(f)
    BY <1>7, <1>8
  <1>10. w = CHOOSE h : Is(h)
    BY DEF ChainSteps, N
  <1>11. Is(w)
    <2> HIDE DEF Is, w
    <2> QED BY <1>9, <1>10
  <1>12. \A p : ChainFrom(links, p) = w[N][p]
    BY DEF ChainFrom, w, ChainSteps, N
  <1> HIDE DEF w
  <1>13. \A k \in 0 .. N : w[k] = [s \in D |-> IF k = 0 \/ s = Null THEN <<>>
                                              ELSE <<s>> \o w[k - 1][links[s]]]
    BY <1>11
  <1> HIDE DEF Is
  <1>14. \A k \in 0 .. N : w[k][Null] = <<>>
    BY <1>13
  <1>15. ASSUME NEW k \in 1 .. N, NEW s \in Slot PROVE w[k][s] = <<s>> \o w[k - 1][links[s]]
    <2>1. k \in 0 .. N /\ k # 0 /\ s # Null /\ s \in D
      BY <1>1, MessageQueueAssumption
    <2>2. w[k] = [r \in D |-> IF k = 0 \/ r = Null THEN <<>> ELSE <<r>> \o w[k - 1][links[r]]]
      BY ONLY <1>13, <2>1, Zenon
    <2> QED BY ONLY <2>1, <2>2
  <1> QED BY <1>12, <1>14, <1>15 DEF w, N

(* No path is longer than there are slots.                                 *)
LEMMA PathLen ==
  ASSUME NEW q \in Seq(Slot), IsInjective(q)
  PROVE  Len(q) \in 0 .. Cardinality(Slot)
  <1>1. Len(q) \in Nat /\ q \in [1 .. Len(q) -> Slot]
    OBVIOUS
  <1>2. q \in Injection(1 .. Len(q), Slot)
    BY <1>1 DEF Injection
  <1>3. IsFiniteSet(1 .. Len(q)) /\ Cardinality(1 .. Len(q)) = Len(q)
    BY <1>1, FS_Interval
  <1>4. Cardinality(1 .. Len(q)) <= Cardinality(Slot)
    BY ONLY <1>2, SlotCount, FS_Injection, Zenon
  <1> QED BY <1>1, <1>3, <1>4, SlotCount

(* Following the links gives the slots in their order.                     *)
LEMMA PathChain ==
  ASSUME NEW links \in Links, NEW p, NEW q, Path(links, p, q)
  PROVE  ChainFrom(links, p) = q
  <1> DEFINE N == Cardinality(Slot)
             f == ChainSteps(links)
             n == Len(q)
             Node(i) == IF i = n + 1 THEN Null ELSE q[i]
             From(i) == SubSeq(q, i, n)
             G == {j \in 0 .. n : \A k \in j .. N : f[k][Node(n + 1 - j)] = From(n + 1 - j)}
  <1>1. /\ q \in Seq(Slot) /\ IsInjective(q) /\ p = IF q = <<>> THEN Null ELSE q[1]
        /\ \A i \in 1 .. n : links[q[i]] = IF i = n THEN Null ELSE q[i + 1]
    BY DEF Path
  <1>2. /\ \A k \in 0 .. N : f[k][Null] = <<>>
        /\ \A k \in 1 .. N : \A s \in Slot : f[k][s] = <<s>> \o f[k - 1][links[s]]
        /\ ChainFrom(links, p) = f[N][p]
    BY ChainStep
  <1>3. N \in Nat /\ n \in Nat /\ n <= N /\ \A i \in 1 .. n : q[i] \in Slot
    BY <1>1, PathLen, SlotCount
  <1> HIDE DEF f, N
  <1>4. 0 \in G
    <2>1. From(n + 1) = <<>>
      BY <1>3, SubSeqEmpty
    <2>2. Node(n + 1 - 0) = Null /\ From(n + 1 - 0) = <<>>
      BY <1>3, <2>1
    <2> HIDE DEF Node, From
    <2>3. \A k \in 0 .. N : f[k][Node(n + 1 - 0)] = From(n + 1 - 0)
      BY <1>2, <2>2
    <2> QED BY <1>3, <2>3
  <1>5. ASSUME NEW j \in 1 .. n, j - 1 \in G PROVE j \in G
    <2> DEFINE i == n + 1 - j
    <2>1. /\ i \in 1 .. n /\ n + 1 - (j - 1) = i + 1 /\ Node(i) = q[i] /\ q[i] \in Slot
      BY <1>3
    <2>2. links[q[i]] = Node(i + 1)
      BY <1>1, <1>3, <2>1
    <2>3. From(i) = <<q[i]>> \o From(i + 1)
      <3>1. n \in i .. Len(q)
        BY <1>3, <2>1
      <3> QED BY <1>1, <2>1, <3>1, SubSeqRecursiveFirst
    <2>4. \A k \in j - 1 .. N : f[k][Node(i + 1)] = From(i + 1)
      BY <1>5, <2>1
    <2> HIDE DEF Node, From
    <2>5. ASSUME NEW k \in j .. N PROVE f[k][Node(i)] = From(i)
      <3>1. k \in 1 .. N /\ k - 1 \in j - 1 .. N
        BY <1>3
      <3>2. f[k][q[i]] = <<q[i]>> \o f[k - 1][links[q[i]]]
        BY <1>2, <2>1, <3>1
      <3>3. f[k - 1][Node(i + 1)] = From(i + 1)
        BY <2>4, <3>1
      <3> QED BY <2>1, <2>2, <2>3, <3>2, <3>3
    <2> QED BY <1>3, <2>5
  <1>6. G = 0 .. n
    <2>1. G \in SUBSET (0 .. n)
      OBVIOUS
    <2>2. \A j \in 1 .. n : j - 1 \in G => j \in G
      BY <1>5
    <2> HIDE DEF G
    <2> QED BY <1>3, <1>4, <2>1, <2>2, UpTo
  <1>7. n \in G
    <2>1. n \in 0 .. n
      BY <1>3
    <2> HIDE DEF G
    <2> QED BY <1>6, <2>1
  <1>8. f[N][Node(n + 1 - n)] = From(n + 1 - n)
    BY <1>3, <1>7
  <1>9. n + 1 - n = 1 /\ Node(1) = p
    <2>1. q = <<>> <=> n = 0
      BY <1>1
    <2> QED BY <1>1, <1>3, <2>1
  <1>10. From(1) = q
    BY <1>1, SubSeqFull
  <1> HIDE DEF Node, From
  <1> QED BY <1>2, <1>8, <1>9, <1>10

(* Links of other slots may change.                                        *)
LEMMA PathSame ==
  ASSUME NEW links, NEW p, NEW q, Path(links, p, q), NEW after,
         \A s \in Slot : Contains(q, s) => after[s] = links[s]
  PROVE  Path(after, p, q)
  <1>1. q \in Seq(Slot) /\ Len(q) \in Nat /\ \A i \in 1 .. Len(q) : q[i] \in Slot
    BY DEF Path
  <1>2. \A i \in 1 .. Len(q) : after[q[i]] = links[q[i]]
    BY <1>1 DEF Contains
  <1> QED BY <1>1, <1>2 DEF Path

(* The first slot is taken.                                                *)
LEMMA PathTail ==
  ASSUME NEW links, NEW p, NEW q, Path(links, p, q), p # Null
  PROVE  q # <<>> /\ p = Head(q) /\ Path(links, links[p], Tail(q))
  <1>1. /\ q \in Seq(Slot) /\ IsInjective(q) /\ q # <<>> /\ p = q[1] /\ p = Head(q)
        /\ \A i \in 1 .. Len(q) : links[q[i]] = IF i = Len(q) THEN Null ELSE q[i + 1]
    BY DEF Path
  <1> DEFINE r == Tail(q)
  <1>2. /\ r \in Seq(Slot) /\ Len(r) = Len(q) - 1 /\ Len(q) \in Nat /\ Len(q) >= 1
        /\ \A i \in 1 .. Len(q) - 1 : r[i] = q[i + 1]
    BY <1>1
  <1>3. IsInjective(r)
    BY <1>1, TailContains
  <1> HIDE DEF r
  <1>4. r = <<>> <=> Len(q) = 1
    BY <1>2
  <1>5. links[p] = IF r = <<>> THEN Null ELSE r[1]
    BY <1>1, <1>2, <1>4
  <1>6. ASSUME NEW i \in 1 .. Len(r)
        PROVE  links[r[i]] = IF i = Len(r) THEN Null ELSE r[i + 1]
    <2>1. i + 1 \in 1 .. Len(q) /\ r[i] = q[i + 1]
      BY <1>2
    <2>2. links[q[i + 1]] = IF i + 1 = Len(q) THEN Null ELSE q[(i + 1) + 1]
      BY <1>1, <2>1
    <2>3. CASE i = Len(r)
      BY <1>2, <2>1, <2>2, <2>3
    <2>4. CASE i # Len(r)
      <3>1. i + 1 \in 1 .. Len(q) - 1 /\ r[i + 1] = q[(i + 1) + 1] /\ i + 1 # Len(q)
        BY <1>2, <2>4
      <3> QED BY <2>1, <2>2, <2>4, <3>1
    <2> QED BY <2>3, <2>4
  <1>7. Path(links, links[p], r)
    BY <1>2, <1>3, <1>5, <1>6 DEF Path
  <1> QED BY <1>1, <1>7 DEF r

(* A slot is put in front.                                                 *)
LEMMA PathCons ==
  ASSUME NEW links, NEW p, NEW q, Path(links, p, q), NEW m \in Slot, ~Contains(q, m), NEW after,
         \A s \in Slot : Contains(q, s) => after[s] = links[s],
         after[m] = p
  PROVE  Path(after, m, <<m>> \o q)
  <1>1. /\ q \in Seq(Slot) /\ IsInjective(q) /\ p = IF q = <<>> THEN Null ELSE q[1]
        /\ \A i \in 1 .. Len(q) : after[q[i]] = IF i = Len(q) THEN Null ELSE q[i + 1]
    BY PathSame DEF Path
  <1> DEFINE r == <<m>> \o q
  <1>2. /\ r \in Seq(Slot) /\ Len(r) = Len(q) + 1 /\ r[1] = m /\ Len(q) \in Nat
        /\ \A i \in 2 .. Len(q) + 1 : r[i] = q[i - 1]
    BY <1>1
  <1>3. IsInjective(r)
    BY <1>1, ConsContains
  <1> HIDE DEF r
  <1>4. r # <<>> /\ (q = <<>> <=> Len(q) = 0)
    BY <1>1, <1>2
  <1>5. ASSUME NEW i \in 1 .. Len(r)
        PROVE  after[r[i]] = IF i = Len(r) THEN Null ELSE r[i + 1]
    <2>1. CASE i = 1
      <3>1. CASE Len(q) = 0
        BY <1>1, <1>2, <1>4, <2>1, <3>1
      <3>2. CASE Len(q) # 0
        <4>1. 2 \in 2 .. Len(q) + 1 /\ i # Len(r) /\ r[2] = q[2 - 1] /\ 2 - 1 = 1
          BY <1>2, <2>1, <3>2
        <4>2. r[2] = q[1]
          BY <4>1
        <4> QED BY <1>1, <1>2, <1>4, <2>1, <3>2, <4>1, <4>2
      <3> QED BY <3>1, <3>2
    <2>2. CASE i # 1
      <3>1. i - 1 \in 1 .. Len(q) /\ r[i] = q[i - 1] /\ (i = Len(r) <=> i - 1 = Len(q))
        BY <1>2, <2>2
      <3>2. after[q[i - 1]] = IF i - 1 = Len(q) THEN Null ELSE q[(i - 1) + 1]
        BY <1>1, <3>1
      <3>3. CASE i = Len(r)
        BY <3>1, <3>2, <3>3
      <3>4. CASE i # Len(r)
        <4>1. i + 1 \in 2 .. Len(q) + 1 /\ (i + 1) - 1 = i /\ (i - 1) + 1 = i
          BY <1>2, <3>4
        <4>2. r[i + 1] = q[i]
          BY <1>2, <4>1
        <4> QED BY <3>1, <3>2, <3>4, <4>1, <4>2
      <3> QED BY <3>3, <3>4
    <2> QED BY <2>1, <2>2
  <1>6. Path(after, m, r)
    BY <1>2, <1>3, <1>4, <1>5 DEF Path
  <1> QED BY <1>6 DEF r

(* A slot becomes the last one.                                            *)
LEMMA PathAppend ==
  ASSUME NEW links, NEW p, NEW q, Path(links, p, q), NEW m \in Slot, ~Contains(q, m), NEW after,
         \A s \in Slot : Contains(q, s) =>
           after[s] = IF s = Last(q) THEN m ELSE links[s],
         after[m] = Null
  PROVE  Path(after, IF q = <<>> THEN m ELSE p, Append(q, m))
  <1>q. q \in Seq(Slot)
    BY DEF Path
  <1>0. Len(q) \in Nat /\ DOMAIN q = 1 .. Len(q) /\ \A i \in 1 .. Len(q) : q[i] \in Slot
    BY <1>q
  <1>i. IsInjective(q)
    BY DEF Path
  <1>p. p = IF q = <<>> THEN Null ELSE q[1]
    BY DEF Path
  <1>1. \A i \in 1 .. Len(q) : links[q[i]] = IF i = Len(q) THEN Null ELSE q[i + 1]
    BY DEF Path
  <1>2. \A i \in 1 .. Len(q) : after[q[i]] = IF i = Len(q) THEN m ELSE q[i + 1]
    <2> SUFFICES ASSUME NEW i \in 1 .. Len(q)
                 PROVE  after[q[i]] = IF i = Len(q) THEN m ELSE q[i + 1]
      OBVIOUS
    <2>1. after[q[i]] = IF q[i] = Last(q) THEN m ELSE links[q[i]]
      BY <1>0 DEF Contains
    <2>2. q[i] = q[Len(q)] <=> i = Len(q)
      <3>1. Len(q) \in DOMAIN q /\ i \in DOMAIN q
        BY <1>0
      <3> QED BY ONLY <1>i, <3>1 DEF IsInjective
    <2> QED BY <1>1, <2>1, <2>2 DEF Last
  <1> DEFINE r == Append(q, m)
  <1>3. /\ r \in Seq(Slot) /\ Len(r) = Len(q) + 1 /\ r[Len(q) + 1] = m
        /\ \A i \in 1 .. Len(q) : r[i] = q[i]
    BY ONLY <1>q, m \in Slot, AppendProperties
  <1>4. IsInjective(r) /\ r # <<>>
    BY <1>q, <1>i, AppendContains
  <1> HIDE DEF r
  <1>5. (IF q = <<>> THEN m ELSE p) = r[1]
    <2>1. CASE q = <<>>
      BY <1>3, <2>1
    <2>2. CASE q # <<>>
      <3>1. 1 \in 1 .. Len(q)
        BY <1>q, <1>0, <2>2
      <3> QED BY <1>p, <1>3, <2>2, <3>1
    <2> QED BY <2>1, <2>2
  <1>6. ASSUME NEW i \in 1 .. Len(r)
        PROVE  after[r[i]] = IF i = Len(r) THEN Null ELSE r[i + 1]
    <2>1. CASE i = Len(r)
      BY <1>3, <2>1
    <2>2. CASE i # Len(r)
      <3>1. i \in 1 .. Len(q) /\ r[i] = q[i]
        BY <1>0, <1>3, <2>2
      <3>2. CASE i = Len(q)
        BY <1>2, <1>3, <2>2, <3>1, <3>2
      <3>3. CASE i # Len(q)
        <4>0. Len(q) \in Nat
          BY <1>0
        <4>1. i + 1 \in 1 .. Len(q)
          <5>1. i \in 1 .. Len(q)
            BY <3>1
          <5> QED BY ONLY <4>0, <5>1, <3>3
        <4>2. r[i + 1] = q[i + 1]
          BY <1>3, <4>1
        <4> QED BY <1>2, <2>2, <3>1, <3>3, <4>2
      <3> QED BY <3>2, <3>3
    <2> QED BY <2>1, <2>2
  <1>7. Path(after, IF q = <<>> THEN m ELSE p, r)
    BY <1>3, <1>4, <1>5, <1>6 DEF Path
  <1> QED BY <1>7 DEF r

(* The slots of q are pushed one by one, the first one first.              *)
LEMMA PathPush ==
  ASSUME NEW links, NEW p, NEW r, Path(links, p, r), NEW q \in Seq(Slot), IsInjective(q),
         \A s \in Slot : ~(Contains(q, s) /\ Contains(r, s)), NEW after,
         \A s \in Slot : Contains(r, s) => after[s] = links[s],
         \A i \in 1 .. Len(q) : after[q[i]] = IF i = 1 THEN p ELSE q[i - 1]
  PROVE  /\ Path(after, IF q = <<>> THEN p ELSE Last(q), Reverse(q) \o r)
         /\ \A x : Contains(Reverse(q) \o r, x) <=> Contains(q, x) \/ Contains(r, x)
  <1> DEFINE v == Reverse(q)
             z == v \o r
             n == Len(q)
  <1>a. Path(after, p, r)
    BY PathSame
  <1>1. r \in Seq(Slot)
    BY DEF Path
  <1>i. IsInjective(r)
    BY DEF Path
  <1>p. p = IF r = <<>> THEN Null ELSE r[1]
    BY DEF Path
  <1>l. \A i \in 1 .. Len(r) : after[r[i]] = IF i = Len(r) THEN Null ELSE r[i + 1]
    BY <1>a DEF Path
  <1>r. Len(r) \in Nat /\ DOMAIN r = 1 .. Len(r) /\ \A i \in 1 .. Len(r) : r[i] \in Slot
    BY <1>1
  <1>n. Len(r) \in Nat
    BY <1>r
  <1>2. n \in Nat /\ DOMAIN q = 1 .. n /\ \A i \in 1 .. n : q[i] \in Slot
    OBVIOUS
  <1>m. n \in Nat
    BY <1>2
  <1>3. v \in Seq(Slot) /\ Len(v) = n /\ \A i \in 1 .. n : v[i] = q[n + 1 - i]
    <2>1. v = [i \in 1 .. n |-> q[(n - i) + 1]]
      BY DEF Reverse
    <2>2. \A i \in 1 .. n : n + 1 - i \in 1 .. n /\ (n - i) + 1 = n + 1 - i
      BY <1>2
    <2> QED BY <1>2, <2>1, <2>2
  <1> HIDE DEF v
  <1>4. /\ z \in Seq(Slot) /\ Len(z) = n + Len(r)
        /\ \A i \in 1 .. n + Len(r) : z[i] = IF i <= n THEN v[i] ELSE r[i - n]
    BY ONLY <1>1, <1>3, ConcatProperties
  <1> HIDE DEF z, n
  <1>z. Len(z) = n + Len(r)
    BY <1>4
  <1>5. /\ \A i \in 1 .. n : i \in 1 .. Len(z) /\ n + 1 - i \in 1 .. n /\ z[i] = q[n + 1 - i]
        /\ \A i \in 1 .. Len(r) : n + i \in 1 .. Len(z) /\ z[n + i] = r[i]
        /\ \A i \in 1 .. Len(z) : i \in 1 .. n \/ i - n \in 1 .. Len(r)
    <2>1. ASSUME NEW i \in 1 .. n
          PROVE  i \in 1 .. Len(z) /\ n + 1 - i \in 1 .. n /\ z[i] = q[n + 1 - i]
      <3>1. i \in 1 .. Len(z) /\ n + 1 - i \in 1 .. n /\ i \in 1 .. n + Len(r) /\ i <= n
        BY ONLY <1>m, <1>n, <1>z, i \in 1 .. n
      <3> QED BY <1>3, <1>4, <3>1
    <2>2. ASSUME NEW i \in 1 .. Len(r) PROVE n + i \in 1 .. Len(z) /\ z[n + i] = r[i]
      <3>1. n + i \in 1 .. n + Len(r) /\ ~(n + i <= n) /\ (n + i) - n = i
        BY ONLY <1>m, <1>n, i \in 1 .. Len(r)
      <3>2. z[n + i] = r[(n + i) - n]
        BY <1>4, <3>1
      <3> QED BY <1>4, <3>1, <3>2
    <2>3. ASSUME NEW i \in 1 .. Len(z) PROVE i \in 1 .. n \/ i - n \in 1 .. Len(r)
      BY ONLY <1>m, <1>n, <1>z, i \in 1 .. Len(z)
    <2> QED BY <2>1, <2>2, <2>3
  <1>6. ASSUME NEW x PROVE Contains(z, x) <=> Contains(q, x) \/ Contains(r, x)
    <2>1. ASSUME Contains(z, x) PROVE Contains(q, x) \/ Contains(r, x)
      <3>1. PICK i \in 1 .. Len(z) : z[i] = x
        BY <2>1 DEF Contains
      <3>2. CASE i \in 1 .. n
        <4>1. n + 1 - i \in 1 .. Len(q) /\ q[n + 1 - i] = x
          BY <1>5, <3>1, <3>2 DEF n
        <4> QED BY <4>1 DEF Contains
      <3>3. CASE i - n \in 1 .. Len(r)
        <4>1. n + (i - n) = i
          BY <1>m
        <4>2. r[i - n] = x
          BY <1>5, <3>1, <3>3, <4>1
        <4> QED BY <3>3, <4>2 DEF Contains
      <3> QED BY <1>5, <3>2, <3>3
    <2>2. ASSUME Contains(q, x) PROVE Contains(z, x)
      <3>1. PICK i \in 1 .. n : q[i] = x
        BY <2>2 DEF Contains, n
      <3>2. n + 1 - i \in 1 .. n /\ n + 1 - (n + 1 - i) = i
        BY <1>m
      <3>3. z[n + 1 - i] = q[i] /\ n + 1 - i \in 1 .. Len(z)
        BY <1>5, <3>2
      <3> QED BY <3>1, <3>3 DEF Contains
    <2>3. ASSUME Contains(r, x) PROVE Contains(z, x)
      <3>1. PICK i \in 1 .. Len(r) : r[i] = x
        BY <2>3 DEF Contains
      <3>2. z[n + i] = x /\ n + i \in 1 .. Len(z)
        BY <1>5, <1>m, <3>1
      <3> QED BY <3>2 DEF Contains
    <2> QED BY <2>1, <2>2, <2>3
  <1>7. IsInjective(z)
    <2>0. DOMAIN z = 1 .. Len(z)
      BY <1>4
    <2> SUFFICES ASSUME NEW i \in 1 .. Len(z), NEW j \in 1 .. Len(z), z[i] = z[j] PROVE i = j
      BY <2>0 DEF IsInjective
    <2>1. \A k \in 1 .. n : Contains(q, z[k]) /\ z[k] \in Slot
      BY <1>2, <1>5 DEF Contains, n
    <2>2. \A k \in 1 .. Len(z) : k - n \in 1 .. Len(r) =>
            z[k] = r[k - n] /\ Contains(r, z[k]) /\ z[k] \in Slot
      <3> SUFFICES ASSUME NEW k \in 1 .. Len(z), k - n \in 1 .. Len(r)
                   PROVE  z[k] = r[k - n]
        BY <1>r DEF Contains
      <3>1. n + (k - n) = k
        BY <1>m
      <3> QED BY <1>5, <3>1
    <2>3. CASE i \in 1 .. n /\ j \in 1 .. n
      <3>1. /\ n + 1 - i \in DOMAIN q /\ n + 1 - j \in DOMAIN q
            /\ q[n + 1 - i] = q[n + 1 - j]
        BY <1>2, <1>5, <2>3
      <3>2. n + 1 - i = n + 1 - j
        BY ONLY IsInjective(q), <3>1 DEF IsInjective
      <3> QED BY <1>m, <3>2
    <2>4. CASE i - n \in 1 .. Len(r) /\ j - n \in 1 .. Len(r)
      <3>1. i - n \in DOMAIN r /\ j - n \in DOMAIN r /\ r[i - n] = r[j - n]
        BY <1>r, <2>2, <2>4
      <3>2. i - n = j - n
        BY ONLY <1>i, <3>1 DEF IsInjective
      <3> QED BY <1>m, <3>2
    <2> QED BY <1>5, <2>1, <2>2, <2>3, <2>4
  <1>8. (IF q = <<>> THEN p ELSE Last(q)) = IF z = <<>> THEN Null ELSE z[1]
    <2>a. q = <<>> <=> n = 0
      BY DEF n
    <2>b. r = <<>> <=> Len(r) = 0
      BY <1>1
    <2>c. z = <<>> <=> Len(z) = 0
      BY <1>4
    <2>0. (q = <<>> <=> n = 0) /\ (z = <<>> <=> Len(z) = 0) /\ (r = <<>> <=> Len(r) = 0)
      BY <2>a, <2>b, <2>c
    <2>1. CASE q = <<>> /\ r = <<>>
      <3>1. Len(z) = 0
        BY <1>z, <2>0, <2>1
      <3> QED BY <1>p, <2>0, <2>1, <3>1
    <2>2. CASE q = <<>> /\ r # <<>>
      <3>1. 1 \in 1 .. Len(r) /\ n + 1 = 1 /\ Len(z) # 0
        BY <1>m, <1>n, <1>z, <2>0, <2>2
      <3>2. z[1] = r[1]
        BY <1>5, <3>1
      <3> QED BY <1>p, <2>0, <2>2, <3>1, <3>2
    <2>3. CASE q # <<>>
      <3>1. 1 \in 1 .. n /\ n + 1 - 1 = n /\ Len(z) # 0
        BY <1>m, <1>n, <1>z, <2>0, <2>3
      <3>2. z[1] = q[n]
        BY <1>5, <3>1
      <3> QED BY <2>0, <2>3, <3>1, <3>2 DEF Last, n
    <2> QED BY <2>1, <2>2, <2>3
  <1>9. ASSUME NEW i \in 1 .. Len(z)
        PROVE  after[z[i]] = IF i = Len(z) THEN Null ELSE z[i + 1]
    <2>1. CASE i \in 1 .. n /\ i # n
      <3>1. /\ n + 1 - i \in 1 .. n /\ n + 1 - i # 1 /\ (n + 1 - i) - 1 = n + 1 - (i + 1)
            /\ i + 1 \in 1 .. n /\ i # Len(z)
        BY <1>m, <1>n, <1>z, <2>1
      <3>2. after[q[n + 1 - i]] = q[(n + 1 - i) - 1]
        BY <3>1 DEF n
      <3>3. z[i] = q[n + 1 - i] /\ z[i + 1] = q[n + 1 - (i + 1)]
        BY <1>5, <2>1, <3>1
      <3> QED BY <3>1, <3>2, <3>3
    <2>2. CASE i = n
      <3>1. n \in 1 .. n /\ n + 1 - n = 1 /\ 1 \in 1 .. n
        BY <1>m, <1>9, <2>2
      <3>2. z[i] = q[1] /\ after[q[1]] = p
        BY <1>5, <2>2, <3>1 DEF n
      <3>3. CASE r = <<>>
        <4>1. i = Len(z)
          BY <1>1, <1>m, <1>z, <2>2, <3>3
        <4> QED BY <1>p, <3>2, <3>3, <4>1
      <3>4. CASE r # <<>>
        <4>1. 1 \in 1 .. Len(r) /\ i # Len(z)
          <5>1. Len(r) # 0
            BY <1>1, <3>4
          <5> QED BY <1>m, <1>n, <1>z, <2>2, <5>1
        <4>2. z[n + 1] = r[1]
          BY <1>5, <4>1
        <4> QED BY <1>p, <2>2, <3>2, <3>4, <4>1, <4>2
      <3> QED BY <3>3, <3>4
    <2>3. CASE i - n \in 1 .. Len(r)
      <3>1. n + (i - n) = i /\ (i = Len(z) <=> i - n = Len(r))
        BY <1>m, <1>n, <1>z
      <3>2. z[i] = r[i - n]
        BY <1>5, <2>3, <3>1
      <3>3. after[r[i - n]] = IF i - n = Len(r) THEN Null ELSE r[(i - n) + 1]
        BY <1>l, <2>3
      <3>4. CASE i = Len(z)
        BY <3>1, <3>2, <3>3, <3>4
      <3>5. CASE i # Len(z)
        <4>0. i - n \in 1 .. Len(r) /\ i - n # Len(r) /\ i \in Int
          BY <2>3, <3>1, <3>5
        <4>1. (i - n) + 1 \in 1 .. Len(r) /\ n + ((i - n) + 1) = i + 1
          BY ONLY <1>m, <1>n, <4>0
        <4>2. z[i + 1] = r[(i - n) + 1]
          BY <1>5, <4>1
        <4> QED BY <3>1, <3>2, <3>3, <3>5, <4>2
      <3> QED BY <3>4, <3>5
    <2> QED BY <1>5, <2>1, <2>2, <2>3
  <1>10. Path(after, IF q = <<>> THEN p ELSE Last(q), z)
    BY <1>4, <1>7, <1>8, <1>9 DEF Path
  <1> QED BY <1>6, <1>10 DEF z, v

(* The slots of c are queued.                                              *)
Queued(c) ==
  /\ next \in Links
  /\ Path(next, msg_queue_head, c)
  /\ entry = Len(c)
  /\ msg_queue_tail = IF c = <<>> THEN Null ELSE Last(c)

Apart(c, f) == \A s \in Slot : ~(Contains(c, s) /\ Contains(f, s))

(* A call that has taken a slot has it for itself, and every slot is in c, *)
(* in f or with a call.                                                    *)
Hands(c, f) ==
  /\ \A t \in Thread : Holds(t) =>
       msg[t] \in Slot /\ ~Contains(c, msg[t]) /\ ~Contains(f, msg[t])
  /\ \A t, u \in Thread : Holds(t) /\ Holds(u) /\ msg[t] = msg[u] => t = u
  /\ \A s \in Slot : Contains(c, s) \/ Contains(f, s) \/ \E t \in Thread : Holds(t) /\ msg[t] = s

(* A sequence is empty when its length is 0.                               *)
LEMMA EmptyLen ==
  ASSUME NEW S, NEW q \in Seq(S)
  PROVE  q = <<>> <=> Len(q) = 0
  OBVIOUS

(* A list is empty when its head pointer is null.                          *)
LEMMA EmptyHead ==
  ASSUME NEW links, NEW p, NEW q, Path(links, p, q)
  PROVE  q \in Seq(Slot) /\ (p = Null <=> q = <<>>) /\ (q # <<>> => p \in Slot /\ Contains(q, p))
  <1>1. q \in Seq(Slot) /\ p = IF q = <<>> THEN Null ELSE q[1]
    BY DEF Path
  <1>2. CASE q = <<>>
    BY <1>1, <1>2
  <1>3. CASE q # <<>>
    <2>1. q[1] = Head(q) /\ Head(q) \in Slot /\ Contains(q, Head(q))
      BY <1>1, <1>3, HeadContains
    <2> QED BY <1>1, <1>3, <2>1, MessageQueueAssumption
  <1> QED BY <1>2, <1>3

(* The last slot of a chain is in it.                                      *)
LEMMA LastIn ==
  ASSUME NEW q \in Seq(Slot), q # <<>>
  PROVE  Last(q) \in Slot /\ Contains(q, Last(q))
  <1>1. Len(q) \in 1 .. Len(q) /\ q[Len(q)] \in Slot
    OBVIOUS
  <1> QED BY <1>1 DEF Last, Contains

(* rt_mq_recv takes the first slot.                                        *)
LEMMA QueuedTake ==
  ASSUME NEW c, Queued(c), entry > 0, next' = next, msg_queue_head' = next[msg_queue_head],
         msg_queue_tail' = (IF msg_queue_tail = msg_queue_head THEN Null ELSE msg_queue_tail),
         entry' = entry - 1
  PROVE  c # <<>> /\ msg_queue_head = Head(c) /\ Queued(Tail(c))'
  <1>1. Path(next, msg_queue_head, c) /\ entry = Len(c) /\ next \in Links
        /\ msg_queue_tail = IF c = <<>> THEN Null ELSE Last(c)
    BY DEF Queued
  <1>2. c \in Seq(Slot) /\ IsInjective(c)
    BY <1>1 DEF Path
  <1>3. c # <<>> /\ msg_queue_head # Null
    BY <1>1, <1>2, EmptyHead
  <1>4. msg_queue_head = Head(c) /\ Path(next, next[msg_queue_head], Tail(c))
    BY <1>1, <1>3, PathTail
  <1>5. /\ Tail(c) \in Seq(Slot) /\ Len(Tail(c)) = Len(c) - 1 /\ Len(c) \in Nat
        /\ Head(c) = c[1] /\ \A i \in 1 .. Len(c) - 1 : Tail(c)[i] = c[i + 1]
    BY <1>2, <1>3
  <1>6. Len(c) # 0
    BY <1>2, <1>3
  <1>e. DOMAIN c = 1 .. Len(c)
    BY <1>2
  <1>t. Tail(c) = <<>> <=> Len(Tail(c)) = 0
    <2>1. Tail(c) \in Seq(Slot)
      BY <1>5
    <2> QED BY ONLY <2>1, EmptyLen, Zenon
  <1>d. DOMAIN c = 1 .. Len(c) /\ (Tail(c) = <<>> <=> Len(c) = 1)
    BY <1>5, <1>e, <1>t
  <1>7. msg_queue_tail' = IF Tail(c) = <<>> THEN Null ELSE Last(Tail(c))
    <2>1. CASE Len(c) = 1
      BY <1>1, <1>3, <1>4, <1>5, <1>d, <2>1 DEF Last
    <2>2. CASE Len(c) # 1
      <3>0. Len(c) \in Nat
        BY <1>5
      <3>1. /\ Len(c) - 1 \in 1 .. Len(c) - 1 /\ (Len(c) - 1) + 1 = Len(c)
            /\ 1 \in 1 .. Len(c) /\ Len(c) \in 1 .. Len(c)
        <4> DEFINE n == Len(c)
        <4>1. n \in Nat /\ n # 0 /\ n # 1
          BY <1>6, <2>2, <3>0
        <4> HIDE DEF n
        <4>2. /\ n - 1 \in 1 .. n - 1 /\ (n - 1) + 1 = n /\ 1 \in 1 .. n /\ n \in 1 .. n
          BY ONLY <4>1
        <4> QED BY <4>2 DEF n
      <3>2. Tail(c)[Len(c) - 1] = c[Len(c)]
        BY <1>5, <3>1
      <3>3. c[Len(c)] # c[1]
        BY ONLY <1>2, <1>d, <2>2, <3>1 DEF IsInjective
      <3> QED BY <1>1, <1>3, <1>4, <1>5, <1>d, <2>2, <3>2, <3>3 DEF Last
    <2> QED BY <2>1, <2>2
  <1>8. Queued(Tail(c))'
    BY <1>1, <1>4, <1>5, <1>7 DEF Queued
  <1> QED BY <1>3, <1>4, <1>8

(* rt_mq_send_wait links a slot at the end; the list from p on is left     *)
(* alone.                                                                  *)
LEMMA QueuedLink ==
  ASSUME NEW c, Queued(c), NEW p, NEW f, Path(next, p, f), Apart(c, f),
         NEW m \in Slot, ~Contains(c, m), ~Contains(f, m),
         next' = [next EXCEPT ![IF msg_queue_tail = Null THEN m ELSE msg_queue_tail] = m,
                              ![m] = Null],
         msg_queue_tail' = m,
         msg_queue_head' = (IF msg_queue_head = Null THEN m ELSE msg_queue_head),
         entry' = entry + 1
  PROVE  Queued(Append(c, m))' /\ Path(next', p, f)
  <1>1. Path(next, msg_queue_head, c) /\ entry = Len(c) /\ next \in [Slot -> Slot \cup {Null}]
        /\ msg_queue_tail = IF c = <<>> THEN Null ELSE Last(c)
    BY DEF Queued, Links
  <1>2. c \in Seq(Slot) /\ IsInjective(c) /\ f \in Seq(Slot)
    BY <1>1 DEF Path
  <1>3. msg_queue_head = Null <=> c = <<>>
    BY <1>1, EmptyHead
  <1>4. msg_queue_tail = Null <=> c = <<>>
    BY <1>1, <1>2, LastIn, MessageQueueAssumption
  <1>5. c # <<>> => Last(c) \in Slot /\ Contains(c, Last(c)) /\ Last(c) # m
    BY <1>2, LastIn
  <1>6. ASSUME NEW s \in Slot
        PROVE  next'[s] = IF s = m THEN Null ELSE IF c # <<>> /\ s = Last(c) THEN m ELSE next[s]
    BY <1>1, <1>4, <1>5
  <1>7. next' \in Links
    <2>1. next' \in [Slot -> Slot \cup {Null}]
      BY <1>1
    <2> QED BY <2>1 DEF Links
  <1>8. Path(next', IF c = <<>> THEN m ELSE msg_queue_head, Append(c, m))
    <2>1. ASSUME NEW s \in Slot, Contains(c, s)
          PROVE  next'[s] = IF s = Last(c) THEN m ELSE next[s]
      <3>1. c # <<>> /\ s # m
        BY <2>1 DEF Contains
      <3> QED BY <1>6, <3>1
    <2>2. next'[m] = Null
      BY <1>6
    <2> QED BY <1>1, <2>1, <2>2, PathAppend
  <1>9. msg_queue_head' = IF c = <<>> THEN m ELSE msg_queue_head
    BY <1>3
  <1>10. Path(next', p, f)
    <2>1. ASSUME NEW s \in Slot, Contains(f, s) PROVE next'[s] = next[s]
      <3>1. s # m /\ ~Contains(c, s)
        BY <2>1 DEF Apart
      <3>2. ~(c # <<>> /\ s = Last(c))
        BY <1>5, <3>1
      <3> QED BY <1>6, <3>1, <3>2
    <2> QED BY <2>1, PathSame
  <1>11. /\ Append(c, m) \in Seq(Slot) /\ Len(Append(c, m)) = Len(c) + 1 /\ Append(c, m) # <<>>
         /\ Append(c, m)[Len(c) + 1] = m
    BY <1>2
  <1>12. Queued(Append(c, m))'
    BY <1>1, <1>7, <1>8, <1>9, <1>11 DEF Queued, Last
  <1> QED BY <1>10, <1>12

(* rt_mq_urgent links a slot in front.                                     *)
LEMMA QueuedUrgent ==
  ASSUME NEW c, Queued(c), NEW p, NEW f, Path(next, p, f), Apart(c, f),
         NEW m \in Slot, ~Contains(c, m), ~Contains(f, m),
         next' = [next EXCEPT ![m] = msg_queue_head],
         msg_queue_head' = m,
         msg_queue_tail' = (IF msg_queue_tail = Null THEN m ELSE msg_queue_tail),
         entry' = entry + 1
  PROVE  Queued(<<m>> \o c)' /\ Path(next', p, f)
  <1>1. Path(next, msg_queue_head, c) /\ entry = Len(c) /\ next \in [Slot -> Slot \cup {Null}]
        /\ msg_queue_tail = IF c = <<>> THEN Null ELSE Last(c)
    BY DEF Queued, Links
  <1>2. c \in Seq(Slot) /\ IsInjective(c) /\ f \in Seq(Slot)
    BY <1>1 DEF Path
  <1>3. msg_queue_head \in Slot \cup {Null}
    BY <1>1, EmptyHead
  <1>4. msg_queue_tail = Null <=> c = <<>>
    BY <1>1, <1>2, LastIn, MessageQueueAssumption
  <1>5. next' \in Links /\ next'[m] = msg_queue_head
    <2>1. next' \in [Slot -> Slot \cup {Null}] /\ next'[m] = msg_queue_head
      BY <1>1, <1>3
    <2> QED BY <2>1 DEF Links
  <1>6. \A s \in Slot : s # m => next'[s] = next[s]
    BY <1>1
  <1>7. /\ \A s \in Slot : Contains(c, s) => next'[s] = next[s]
        /\ \A s \in Slot : Contains(f, s) => next'[s] = next[s]
    BY <1>6
  <1>8. Path(next', m, <<m>> \o c)
    BY <1>1, <1>5, <1>7, PathCons
  <1>9. Path(next', p, f)
    BY <1>7, PathSame
  <1> DEFINE r == <<m>> \o c
  <1>10. /\ r \in Seq(Slot) /\ Len(r) = Len(c) + 1 /\ r # <<>> /\ Len(c) \in Nat /\ r[1] = m
         /\ \A i \in 2 .. Len(c) + 1 : r[i] = c[i - 1]
    BY <1>2
  <1>11. msg_queue_tail' = r[Len(c) + 1]
    <2>1. CASE c = <<>>
      BY <1>4, <1>10, <2>1
    <2>2. CASE c # <<>>
      <3>0. Len(c) \in Nat /\ Len(c) # 0
        BY <1>2, <2>2
      <3>1. Len(c) + 1 \in 2 .. Len(c) + 1 /\ (Len(c) + 1) - 1 = Len(c)
        BY ONLY <3>0
      <3>2. r[Len(c) + 1] = c[Len(c)]
        BY <1>10, <3>1
      <3> QED BY <1>1, <1>4, <2>2, <3>2 DEF Last
    <2> QED BY <2>1, <2>2
  <1> HIDE DEF r
  <1>12. msg_queue_tail' = Last(r)
    BY <1>10, <1>11 DEF Last
  <1>13. Path(next', m, r)
    BY <1>8 DEF r
  <1>14. Queued(r)'
    BY <1>1, <1>5, <1>10, <1>12, <1>13 DEF Queued
  <1>15. Queued(<<m>> \o c)'
    BY <1>14 DEF r
  <1> QED BY <1>9, <1>15

(* A slot is freed.                                                        *)
LEMMA QueuedFree ==
  ASSUME NEW c, Queued(c), NEW f, Path(next, msg_queue_free, f), Apart(c, f),
         NEW m \in Slot, ~Contains(c, m), ~Contains(f, m),
         next' = [next EXCEPT ![m] = msg_queue_free],
         UNCHANGED <<msg_queue_head, msg_queue_tail, entry>>
  PROVE  Queued(c)' /\ Path(next', m, <<m>> \o f)
  <1>1. Path(next, msg_queue_head, c) /\ entry = Len(c) /\ next \in [Slot -> Slot \cup {Null}]
        /\ msg_queue_tail = IF c = <<>> THEN Null ELSE Last(c)
    BY DEF Queued, Links
  <1>2. msg_queue_free \in Slot \cup {Null}
    BY EmptyHead
  <1>3. next' \in Links /\ next'[m] = msg_queue_free
    <2>1. next' \in [Slot -> Slot \cup {Null}] /\ next'[m] = msg_queue_free
      BY <1>1, <1>2
    <2> QED BY <2>1 DEF Links
  <1>4. \A s \in Slot : s # m => next'[s] = next[s]
    BY <1>1
  <1>5. /\ \A s \in Slot : Contains(c, s) => next'[s] = next[s]
        /\ \A s \in Slot : Contains(f, s) => next'[s] = next[s]
    BY <1>4
  <1>6. Path(next', m, <<m>> \o f)
    BY <1>3, <1>5, PathCons
  <1>7. Path(next', msg_queue_head, c)
    BY <1>1, <1>5, PathSame
  <1>8. Queued(c)'
    BY <1>1, <1>3, <1>7 DEF Queued
  <1> QED BY <1>6, <1>8

(* The place of an item in a sequence without duplicates                   *)
LEMMA PlaceIs ==
  ASSUME NEW S, NEW q \in Seq(S), IsInjective(q), NEW i \in 1 .. Len(q)
  PROVE  LET I == {k \in 1 .. Len(q) : q[k] = q[i]} IN I # {} /\ Min(I) = i
  <1> DEFINE I == {k \in 1 .. Len(q) : q[k] = q[i]}
  <1>1. I = {i}
    <2>1. ASSUME NEW k \in 1 .. Len(q), q[k] = q[i] PROVE k = i
      <3>1. k \in DOMAIN q /\ i \in DOMAIN q
        OBVIOUS
      <3> QED BY ONLY IsInjective(q), <2>1, <3>1 DEF IsInjective
    <2> QED BY <2>1
  <1>2. I \in SUBSET Nat /\ I # {}
    BY <1>1
  <1>3. Min(I) \in I
    BY <1>2, MinNat
  <1> HIDE DEF I
  <1>4. I # {} /\ Min(I) = i
    BY <1>1, <1>2, <1>3
  <1> QED BY <1>4 DEF I

(* rt_mq_control frees the whole chain.                                    *)
LEMMA QueuedReset ==
  ASSUME NEW c, Queued(c), NEW f, Path(next, msg_queue_free, f), Apart(c, f), MqReset
  PROVE  /\ Queued(<<>>)' /\ Path(next', msg_queue_free', Reverse(c) \o f)
         /\ \A x : Contains(Reverse(c) \o f, x) <=> Contains(c, x) \/ Contains(f, x)
  <1>1. Path(next, msg_queue_head, c) /\ entry = Len(c) /\ next \in Links
        /\ msg_queue_tail = IF c = <<>> THEN Null ELSE Last(c)
    BY DEF Queued
  <1>2. c \in Seq(Slot) /\ IsInjective(c)
    BY <1>1 DEF Path
  <1>n. Len(c) \in Nat /\ DOMAIN c = 1 .. Len(c) /\ \A i \in 1 .. Len(c) : c[i] \in Slot
    BY <1>2
  <1>3. Chain = c
    BY <1>1, PathChain DEF Chain
  <1>4. /\ next' = [s \in Slot |->
                     IF ~Contains(c, s) THEN next[s]
                     ELSE LET i == SelectInSeq(c, LAMBDA r : r = s)
                          IN  IF i = 1 THEN msg_queue_free ELSE c[i - 1]]
        /\ msg_queue_free' = (IF c = <<>> THEN msg_queue_free ELSE Last(c))
        /\ msg_queue_head' = Null
        /\ msg_queue_tail' = (IF Contains(c, msg_queue_tail) THEN Null ELSE msg_queue_tail)
        /\ entry' = 0
    BY <1>3 DEF MqReset
  <1>5. ASSUME NEW i \in 1 .. Len(c) PROVE SelectInSeq(c, LAMBDA r : r = c[i]) = i
    BY <1>2, PlaceIs DEF SelectInSeq
  <1>6. \A i \in 1 .. Len(c) : next'[c[i]] = IF i = 1 THEN msg_queue_free ELSE c[i - 1]
    <2> SUFFICES ASSUME NEW i \in 1 .. Len(c)
                 PROVE  next'[c[i]] = IF i = 1 THEN msg_queue_free ELSE c[i - 1]
      OBVIOUS
    <2>1. c[i] \in Slot /\ Contains(c, c[i])
      BY <1>n DEF Contains
    <2>2. next'[c[i]] = LET k == SelectInSeq(c, LAMBDA r : r = c[i])
                        IN  IF k = 1 THEN msg_queue_free ELSE c[k - 1]
      BY <1>4, <2>1
    <2> QED BY <1>5, <2>2
  <1>7. \A s \in Slot : Contains(f, s) => next'[s] = next[s]
    BY <1>4 DEF Apart
  <1>8. /\ Path(next', IF c = <<>> THEN msg_queue_free ELSE Last(c), Reverse(c) \o f)
        /\ \A x : Contains(Reverse(c) \o f, x) <=> Contains(c, x) \/ Contains(f, x)
    BY <1>2, <1>6, <1>7, PathPush DEF Apart
  <1>9. next' \in Links
    <2>0. next \in [Slot -> Slot \cup {Null}] /\ msg_queue_free \in Slot \cup {Null}
      BY <1>1, EmptyHead DEF Links
    <2>1. ASSUME NEW s \in Slot PROVE next'[s] \in Slot \cup {Null}
      <3>1. CASE ~Contains(c, s)
        BY <1>4, <2>0, <3>1
      <3>2. CASE Contains(c, s)
        <4>1. PICK i \in 1 .. Len(c) : c[i] = s
          BY <3>2 DEF Contains
        <4>2. i # 1 => i - 1 \in 1 .. Len(c)
          BY <1>n
        <4> QED BY <1>6, <1>n, <2>0, <4>1, <4>2
      <3> QED BY <3>1, <3>2
    <2>2. next' = [s \in Slot |-> next'[s]]
      BY <1>4
    <2> QED BY <2>1, <2>2 DEF Links
  <1>10. Path(next', Null, <<>>)
    BY DEF Path, IsInjective
  <1>11. msg_queue_tail' = Null
    BY <1>1, <1>2, <1>4, LastIn
  <1>12. Queued(<<>>)'
    BY <1>4, <1>9, <1>10, <1>11 DEF Queued
  <1> QED BY <1>4, <1>8, <1>12

(* A call takes a slot out of a list.                                      *)
LEMMA HandsTake ==
  ASSUME NEW c, NEW f, Hands(c, f), NEW t \in Thread, ~Holds(t), Holds(t)',
         \A u \in Thread : u # t => pc'[u] = pc[u] /\ msg'[u] = msg[u],
         NEW m \in Slot, msg'[t] = m, Contains(c, m) \/ Contains(f, m), NEW c2, NEW f2,
         \A x : Contains(c2, x) <=> Contains(c, x) /\ x # m,
         \A x : Contains(f2, x) <=> Contains(f, x) /\ x # m
  PROVE  Hands(c2, f2)'
  <1> USE DEF Hands, Holds
  <1>1. \A u \in Thread : u # t => (Holds(u)' <=> Holds(u)) /\ msg'[u] = msg[u]
    OBVIOUS
  <1>2. \A u \in Thread : Holds(u) => u # t /\ msg[u] # m
    OBVIOUS
  <1> HIDE DEF Holds
  <1>3. \A u \in Thread : Holds(u)' =>
          msg'[u] \in Slot /\ ~Contains(c2, msg'[u]) /\ ~Contains(f2, msg'[u])
    BY <1>1
  <1>4. \A u, v \in Thread : Holds(u)' /\ Holds(v)' /\ msg'[u] = msg'[v] => u = v
    BY <1>1, <1>2
  <1>5. \A s \in Slot : Contains(c2, s) \/ Contains(f2, s) \/ \E u \in Thread : Holds(u)' /\ msg'[u] = s
    BY <1>1, <1>2
  <1> QED BY <1>3, <1>4, <1>5

(* A call puts its slot into a list.                                       *)
LEMMA HandsGive ==
  ASSUME NEW c, NEW f, Hands(c, f), NEW t \in Thread, Holds(t), ~Holds(t)',
         \A u \in Thread : u # t => pc'[u] = pc[u] /\ msg'[u] = msg[u],
         NEW c2, NEW f2,
         \A x : Contains(c2, x) \/ Contains(f2, x)
                  <=> Contains(c, x) \/ Contains(f, x) \/ x = msg[t]
  PROVE  Hands(c2, f2)'
  <1> USE DEF Hands, Holds
  <1>1. \A u \in Thread : u # t => (Holds(u)' <=> Holds(u)) /\ msg'[u] = msg[u]
    OBVIOUS
  <1> HIDE DEF Holds
  <1>2. \A u \in Thread : Holds(u) /\ u # t => msg[u] # msg[t]
    OBVIOUS
  <1>3. \A u \in Thread : Holds(u)' =>
          msg'[u] \in Slot /\ ~Contains(c2, msg'[u]) /\ ~Contains(f2, msg'[u])
    BY <1>1, <1>2
  <1>4. \A u, v \in Thread : Holds(u)' /\ Holds(v)' /\ msg'[u] = msg'[v] => u = v
    BY <1>1, <1>2
  <1>5. \A s \in Slot : Contains(c2, s) \/ Contains(f2, s) \/ \E u \in Thread : Holds(u)' /\ msg'[u] = s
    BY <1>1, <1>2
  <1> QED BY <1>3, <1>4, <1>5

(* The slots that calls have stay with them.                               *)
LEMMA HandsKeep ==
  ASSUME NEW c, NEW f, Hands(c, f), msg' = msg, \A t \in Thread : Holds(t)' <=> Holds(t),
         NEW c2, NEW f2,
         \A x : Contains(c2, x) \/ Contains(f2, x) <=> Contains(c, x) \/ Contains(f, x)
  PROVE  Hands(c2, f2)'
  <1>1. \A u \in Thread : Holds(u)' =>
          msg'[u] \in Slot /\ ~Contains(c2, msg'[u]) /\ ~Contains(f2, msg'[u])
    BY DEF Hands
  <1>2. \A u, v \in Thread : Holds(u)' /\ Holds(v)' /\ msg'[u] = msg'[v] => u = v
    BY DEF Hands
  <1>3. \A s \in Slot : Contains(c2, s) \/ Contains(f2, s) \/ \E u \in Thread : Holds(u)' /\ msg'[u] = s
    BY DEF Hands
  <1> QED BY <1>1, <1>2, <1>3 DEF Hands

(* As many resumed threads as before are enough for no more messages.      *)
LEMMA CountKeeps ==
  ASSUME NEW A \in SUBSET Thread, NEW B \in SUBSET Thread, A \subseteq B,
         NEW n \in Int, NEW k \in Int, n <= Cardinality(A), k <= n
  PROVE  k <= Cardinality(B)
  <1>1. IsFiniteSet(A) /\ IsFiniteSet(B)
    BY ThreadsAssumption, FS_Subset
  <1>2. Cardinality(A) \in Nat /\ Cardinality(B) \in Nat /\ Cardinality(A) <= Cardinality(B)
    BY <1>1, FS_CardinalityType, FS_Subset
  <1> QED BY <1>2

(* One resumed thread less is enough for one message less.                 *)
LEMMA CountLess ==
  ASSUME NEW A \in SUBSET Thread, NEW B \in SUBSET Thread, NEW t, A \ {t} \subseteq B,
         NEW n \in Int, n <= Cardinality(A)
  PROVE  n - 1 <= Cardinality(B)
  <1>1. IsFiniteSet(A) /\ IsFiniteSet(B)
    BY ThreadsAssumption, FS_Subset
  <1>2. Cardinality(A) \in Nat /\ Cardinality(B) \in Nat
    BY <1>1, FS_CardinalityType
  <1>3. Cardinality(A) <= Cardinality(B) + 1
    BY ONLY <1>1, A \ {t} \subseteq B, CardDrop
  <1> QED BY <1>2, <1>3

(* One resumed thread more is enough for one message more.                 *)
LEMMA CountMore ==
  ASSUME NEW A \in SUBSET Thread, NEW B \in SUBSET Thread, NEW t, A \subseteq B,
         t \notin A, t \in B, NEW n \in Int, n <= Cardinality(A)
  PROVE  n + 1 <= Cardinality(B)
  <1>1. IsFiniteSet(A) /\ IsFiniteSet(B)
    BY ThreadsAssumption, FS_Subset
  <1>2. Cardinality(A) \in Nat /\ Cardinality(B) \in Nat
    BY <1>1, FS_CardinalityType
  <1>3. Cardinality(A) + 1 <= Cardinality(B)
    BY <1>1, CardGrow
  <1> QED BY <1>2, <1>3

(* For n messages or free slots, the threads that wait in the call are     *)
(* none or at least n are resumed.                                         *)
WokenIn(p, e, call, l) == {t \in Thread : p[t] = call /\ ~Contains(l, t) /\ e[t] = "EOK"}

Enough(n, p, e, call, l) == l # <<>> => n <= Cardinality(WokenIn(p, e, call, l))

MqCounts(c, f) ==
  /\ Enough(Len(c), pc, error, "mq_recv", suspend)
  /\ Enough(Len(f), pc, error, "mq_send", sender)

MqLists ==
  /\ suspend \in Seq(Thread) /\ IsInjective(suspend)
  /\ sender \in Seq(Thread) /\ IsInjective(sender)

(* What is sent and queued is mail.                                        *)
MqData(c) ==
  /\ content \in [Slot -> Mail \cup {NoMail}]
  /\ mail \in [Thread -> Mail \cup {NoMail}]
  /\ msg \in [Thread -> Slot \cup {Null}]
  /\ \A s \in Slot : Contains(c, s) => content[s] \in Mail
  /\ \A t \in Thread : pc[t] = "mq_copy" => content[msg[t]] \in Mail
  /\ \A t \in Thread : pc[t] \in {"mq_send", "mq_link", "mq_link_head"} => mail[t] \in Mail

MqState(c, f) ==
  /\ Queued(c) /\ Path(next, msg_queue_free, f) /\ Apart(c, f)
  /\ Hands(c, f) /\ MqData(c) /\ MqLists /\ MqCounts(c, f)

MqInv == \E c, f : MqState(c, f)

(* The threads in the lists wait, and the thread variables are functions.  *)
MqWaiting ==
  /\ DOMAIN pc = Thread /\ DOMAIN error = Thread
  /\ \A t \in Thread : Contains(suspend, t) => pc[t] = "mq_recv" /\ error[t] = "EOK"
  /\ \A t \in Thread : Contains(sender, t) => pc[t] = "mq_send" /\ error[t] = "EOK"

(* Chain and free list are sequences of different slots.                   *)
LEMMA MqSeqs ==
  ASSUME NEW c, NEW f, MqState(c, f)
  PROVE  /\ c \in Seq(Slot) /\ IsInjective(c) /\ Len(c) \in Nat
         /\ f \in Seq(Slot) /\ IsInjective(f) /\ Len(f) \in Nat
  <1>1. c \in Seq(Slot) /\ IsInjective(c) /\ f \in Seq(Slot) /\ IsInjective(f)
    BY DEF MqState, Queued, Path
  <1> QED BY <1>1

(* All that are resumed stay so, but perhaps for those in X.               *)
StayWoken(X, call, p, e, l, p2, e2, l2) ==
  /\ l2 # <<>> => l # <<>>
  /\ \A u \in Thread : u \notin X /\ p[u] = call /\ ~Contains(l, u) /\ e[u] = "EOK" =>
                        p2[u] = call /\ ~Contains(l2, u) /\ e2[u] = "EOK"

(* No resumed thread is lost.                                              *)
LEMMA EnoughKeeps ==
  ASSUME NEW n \in Int, NEW call, NEW p, NEW e, NEW l,
         Enough(n, p, e, call, l), NEW p2, NEW e2, NEW l2,
         StayWoken({}, call, p, e, l, p2, e2, l2)
  PROVE  Enough(n, p2, e2, call, l2)
  <1> USE DEF StayWoken
  <1> DEFINE A == WokenIn(p, e, call, l)
             B == WokenIn(p2, e2, call, l2)
  <1> SUFFICES ASSUME l2 # <<>> PROVE n <= Cardinality(B)
    BY DEF Enough
  <1>1. A \in SUBSET Thread /\ B \in SUBSET Thread /\ A \subseteq B
    BY DEF WokenIn
  <1>2. n <= Cardinality(A)
    BY DEF Enough
  <1> HIDE DEF A, B
  <1> QED BY <1>1, <1>2, CountKeeps

(* A resumed thread takes a message, or a free slot, with it.              *)
LEMMA EnoughLess ==
  ASSUME NEW n \in Int, NEW call, NEW p, NEW e, NEW l, NEW t,
         Enough(n, p, e, call, l), NEW p2, NEW e2, NEW l2,
         StayWoken({t}, call, p, e, l, p2, e2, l2)
  PROVE  Enough(n - 1, p2, e2, call, l2)
  <1> USE DEF StayWoken
  <1> DEFINE A == WokenIn(p, e, call, l)
             B == WokenIn(p2, e2, call, l2)
  <1> SUFFICES ASSUME l2 # <<>> PROVE n - 1 <= Cardinality(B)
    BY DEF Enough
  <1>1. A \in SUBSET Thread /\ B \in SUBSET Thread /\ A \ {t} \subseteq B
    BY DEF WokenIn
  <1>2. n <= Cardinality(A)
    BY DEF Enough
  <1> HIDE DEF A, B
  <1> QED BY <1>1, <1>2, CountLess

(* The first thread of a list is resumed.                                  *)
LEMMA Shorter ==
  ASSUME NEW l \in Seq(Thread), IsInjective(l)
  PROVE  /\ Shortened(l) \in Seq(Thread) /\ IsInjective(Shortened(l))
         /\ \A x : Contains(Shortened(l), x) <=> Contains(l, x) /\ x \notin First(l)
         /\ Shortened(l) # <<>> => l # <<>>
         /\ \A x \in First(l) : x \in Thread /\ Contains(l, x)
         /\ l # <<>> => \E x : First(l) = {x}
  <1>1. CASE l = <<>>
    BY <1>1 DEF Shortened, First
  <1>2. CASE l # <<>>
    <2>1. Shortened(l) = Tail(l) /\ First(l) = {Head(l)}
      BY <1>2 DEF Shortened, First
    <2>2. /\ Tail(l) \in Seq(Thread) /\ IsInjective(Tail(l))
          /\ \A x : Contains(Tail(l), x) <=> Contains(l, x) /\ x # Head(l)
      BY <1>2, TailContains
    <2>3. Head(l) \in Thread /\ Contains(l, Head(l))
      BY <1>2, HeadContains
    <2> QED BY <1>2, <2>1, <2>2, <2>3
  <1> QED BY <1>1, <1>2

(* The threads in the list wait in the call, and no thread that is in the  *)
(* call is touched.                                                        *)
Resumable(call, p, e, l, p2, e2) ==
  /\ l \in Seq(Thread) /\ IsInjective(l)
  /\ \A u \in Thread : Contains(l, u) => p[u] = call /\ e[u] = "EOK"
  /\ \A u \in Thread : p[u] = call => p2[u] = p[u] /\ e2[u] = e[u]

(* With a further message, or free slot, the first sleeper is resumed.     *)
LEMMA EnoughMore ==
  ASSUME NEW n \in Int, NEW call, NEW p, NEW e, NEW l, Enough(n, p, e, call, l), NEW p2, NEW e2,
         Resumable(call, p, e, l, p2, e2)
  PROVE  Enough(n + 1, p2, e2, call, Shortened(l))
  <1> USE DEF Resumable
  <1> DEFINE l2 == Shortened(l)
             A == WokenIn(p, e, call, l)
             B == WokenIn(p2, e2, call, l2)
  <1> SUFFICES ASSUME l2 # <<>> PROVE n + 1 <= Cardinality(B)
    BY DEF Enough
  <1>1. l # <<>>
    BY Shorter
  <1>2. PICK x : First(l) = {x}
    BY <1>1, Shorter
  <1>3. x \in Thread /\ Contains(l, x) /\ \A y : Contains(l2, y) <=> Contains(l, y) /\ y # x
    BY <1>2, Shorter
  <1> HIDE DEF l2
  <1>4. A \in SUBSET Thread /\ B \in SUBSET Thread /\ A \subseteq B
    BY <1>3 DEF WokenIn
  <1>5. x \notin A /\ x \in B
    BY <1>3 DEF WokenIn
  <1>6. n <= Cardinality(A)
    BY <1>1 DEF Enough
  <1> HIDE DEF A, B
  <1> QED BY <1>4, <1>5, <1>6, CountMore

(* Nothing is there: nobody has to be resumed.                             *)
LEMMA EnoughNone ==
  ASSUME NEW p, NEW e, NEW call, NEW l
  PROVE  Enough(0, p, e, call, l)
  <1>1. IsFiniteSet(WokenIn(p, e, call, l))
    BY ThreadsAssumption, FS_Subset DEF WokenIn
  <1>2. Cardinality(WokenIn(p, e, call, l)) \in Nat
    BY <1>1, FS_CardinalityType
  <1> QED BY <1>2 DEF Enough

(* The links, and who has which slot, as far as a step changes them        *)
LEMMA TakeFreeKeeps ==
  ASSUME NEW c, NEW f, MqState(c, f), MqWaiting, NEW t \in Thread, pc[t] \in {"run", "mq_send"},
         NEW v \in Mail, NEW at \in {"mq_link", "mq_link_head"}, TakeFree(t, v, at)
  PROVE  MqState(c, Tail(f))'
  <1> DEFINE m == msg_queue_free
             f2 == Tail(f)
  <1>1. /\ m # Null /\ msg_queue_free' = next[m]
        /\ msg' = [msg EXCEPT ![t] = m] /\ mail' = [mail EXCEPT ![t] = v]
        /\ pc' = [pc EXCEPT ![t] = at]
        /\ next' = next /\ content' = content /\ msg_queue_head' = msg_queue_head
        /\ msg_queue_tail' = msg_queue_tail /\ entry' = entry /\ suspend' = suspend
        /\ sender' = sender /\ error' = error
    BY DEF TakeFree, GoesOn
  <1>2. /\ Queued(c) /\ Path(next, m, f) /\ Apart(c, f) /\ Hands(c, f) /\ MqData(c) /\ MqLists
        /\ MqCounts(c, f)
    BY DEF MqState
  <1>3. f # <<>> /\ m = Head(f) /\ Path(next, next[m], f2)
    BY <1>1, <1>2, PathTail
  <1>4. c \in Seq(Slot) /\ f \in Seq(Slot) /\ IsInjective(f) /\ Len(c) \in Nat /\ Len(f) \in Nat
    BY MqSeqs
  <1>5. \A x : Contains(f2, x) <=> Contains(f, x) /\ x # m
    BY <1>3, <1>4, TailContains
  <1>6. m \in Slot /\ Contains(f, m)
    BY <1>3, <1>4, HeadContains
  <1>7. Len(f2) = Len(f) - 1
    BY <1>3, <1>4
  <1>n. Len(c) \in Int /\ Len(f) \in Int
    BY <1>4
  <1>8. ~Contains(c, m)
    BY <1>2, <1>6 DEF Apart
  <1>p. DOMAIN pc = Thread /\ DOMAIN error = Thread
    BY DEF MqWaiting
  <1> HIDE DEF f2
  <1>m. msg \in [Thread -> Slot \cup {Null}] /\ mail \in [Thread -> Mail \cup {NoMail}]
    BY <1>2 DEF MqData
  <1>9. /\ pc'[t] = at /\ msg'[t] = m /\ mail'[t] = v
        /\ \A u \in Thread : u # t => pc'[u] = pc[u] /\ msg'[u] = msg[u] /\ mail'[u] = mail[u]
    BY <1>1, <1>p, <1>m
  <1>10. Queued(c)' /\ Path(next', msg_queue_free', f2)
    BY <1>1, <1>2, <1>3 DEF Queued
  <1>11. Apart(c, f2)
    BY <1>2, <1>5 DEF Apart
  <1>12. Hands(c, f2)'
    <2>1. ~Holds(t) /\ Holds(t)'
      BY <1>9 DEF Holds
    <2>2. \A x : Contains(c, x) <=> Contains(c, x) /\ x # m
      BY <1>8
    <2>3. \A u \in Thread : u # t => pc'[u] = pc[u] /\ msg'[u] = msg[u]
      BY <1>9
    <2>4. msg'[t] = m /\ (Contains(c, m) \/ Contains(f, m))
      BY <1>6, <1>9
    <2> HIDE DEF m
    <2> QED BY ONLY <1>2, <1>5, <1>6, <2>1, <2>2, <2>3, <2>4, t \in Thread, HandsTake
  <1>13. MqData(c)'
    <2>1. msg' \in [Thread -> Slot \cup {Null}] /\ mail' \in [Thread -> Mail \cup {NoMail}]
      BY <1>1, <1>6, <1>m
    <2>2. \A u \in Thread : pc'[u] = "mq_copy" => content'[msg'[u]] \in Mail
      BY <1>1, <1>2, <1>9 DEF MqData
    <2>3. \A u \in Thread : pc'[u] \in {"mq_send", "mq_link", "mq_link_head"} => mail'[u] \in Mail
      BY <1>2, <1>9 DEF MqData
    <2>4. content' \in [Slot -> Mail \cup {NoMail}] /\ \A s \in Slot : Contains(c, s) => content'[s] \in Mail
      BY <1>1, <1>2 DEF MqData
    <2> QED BY <2>1, <2>2, <2>3, <2>4 DEF MqData
  <1>14. MqCounts(c, f2)'
    <2>1. Enough(Len(c), pc', error', "mq_recv", suspend')
      <3>1. Enough(Len(c), pc, error, "mq_recv", suspend)
        BY <1>2 DEF MqCounts
      <3>2. \A u \in Thread : pc[u] = "mq_recv" => pc'[u] = "mq_recv" /\ error'[u] = error[u]
        BY <1>1, <1>9
      <3>3. StayWoken({}, "mq_recv", pc, error, suspend, pc', error', suspend')
        BY <1>1, <3>2 DEF StayWoken
      <3> QED BY ONLY <1>n, <3>1, <3>3, EnoughKeeps, Zenon
    <2>2. Enough(Len(f) - 1, pc', error', "mq_send", sender')
      <3>1. Enough(Len(f), pc, error, "mq_send", sender)
        BY <1>2 DEF MqCounts
      <3>2. \A u \in Thread : u # t => pc'[u] = pc[u] /\ error'[u] = error[u]
        BY <1>1, <1>9
      <3>3. StayWoken({t}, "mq_send", pc, error, sender, pc', error', sender')
        BY <1>1, <3>2 DEF StayWoken
      <3> QED BY ONLY <1>n, <3>1, <3>3, EnoughLess, Zenon
    <2> QED BY <1>7, <2>1, <2>2 DEF MqCounts
  <1>15. MqState(c, f2)'
    <2>1. MqLists' /\ Apart(c, f2)'
      BY <1>1, <1>2, <1>11 DEF MqLists, Apart
    <2> QED BY <1>10, <1>12, <1>13, <1>14, <2>1 DEF MqState
  <1> QED BY <1>15 DEF f2

(* rt_mq_recv takes a slot off the chain.                                  *)
LEMMA TakeFirstKeeps ==
  ASSUME NEW c, NEW f, MqState(c, f), MqWaiting, NEW t \in Thread, pc[t] \in {"run", "mq_recv"},
         TakeFirst(t)
  PROVE  c # <<>> /\ msg_queue_head = Head(c) /\ MqState(Tail(c), f)'
  <1> DEFINE m == msg_queue_head
             c2 == Tail(c)
  <1>1. /\ entry > 0 /\ msg_queue_head' = next[m]
        /\ msg_queue_tail' = (IF msg_queue_tail = m THEN Null ELSE msg_queue_tail)
        /\ entry' = entry - 1
        /\ msg' = [msg EXCEPT ![t] = m] /\ pc' = [pc EXCEPT ![t] = "mq_copy"]
        /\ next' = next /\ content' = content /\ msg_queue_free' = msg_queue_free
        /\ suspend' = suspend /\ sender' = sender /\ mail' = mail /\ error' = error
    BY DEF TakeFirst, GoesOn
  <1>2. /\ Queued(c) /\ Path(next, msg_queue_free, f) /\ Apart(c, f) /\ Hands(c, f) /\ MqData(c)
        /\ MqLists /\ MqCounts(c, f)
    BY DEF MqState
  <1>3. c # <<>> /\ m = Head(c) /\ Queued(c2)'
    BY <1>1, <1>2, QueuedTake
  <1>4. c \in Seq(Slot) /\ IsInjective(c) /\ f \in Seq(Slot) /\ Len(c) \in Nat /\ Len(f) \in Nat
    BY MqSeqs
  <1>5. \A x : Contains(c2, x) <=> Contains(c, x) /\ x # m
    BY <1>3, <1>4, TailContains
  <1>6. m \in Slot /\ Contains(c, m)
    BY <1>3, <1>4, HeadContains
  <1>7. Len(c2) = Len(c) - 1
    BY <1>3, <1>4
  <1>n. Len(c) \in Int /\ Len(f) \in Int
    BY <1>4
  <1>8. ~Contains(f, m)
    BY <1>2, <1>6 DEF Apart
  <1>p. DOMAIN pc = Thread /\ DOMAIN error = Thread
    BY DEF MqWaiting
  <1> HIDE DEF c2
  <1>m. msg \in [Thread -> Slot \cup {Null}]
    BY <1>2 DEF MqData
  <1>9. /\ pc'[t] = "mq_copy" /\ msg'[t] = m
        /\ \A u \in Thread : u # t => pc'[u] = pc[u] /\ msg'[u] = msg[u]
    BY <1>1, <1>p, <1>m
  <1>10. Path(next', msg_queue_free', f)
    BY <1>1, <1>2
  <1>11. Apart(c2, f)
    BY <1>2, <1>5 DEF Apart
  <1>12. Hands(c2, f)'
    <2>1. ~Holds(t) /\ Holds(t)'
      BY <1>9 DEF Holds
    <2>2. \A x : Contains(f, x) <=> Contains(f, x) /\ x # m
      BY <1>8
    <2>3. \A u \in Thread : u # t => pc'[u] = pc[u] /\ msg'[u] = msg[u]
      BY <1>9
    <2>4. msg'[t] = m /\ (Contains(c, m) \/ Contains(f, m))
      BY <1>6, <1>9
    <2> HIDE DEF m
    <2> QED BY ONLY <1>2, <1>5, <1>6, <2>1, <2>2, <2>3, <2>4, t \in Thread, HandsTake
  <1>13. MqData(c2)'
    <2>1. msg' \in [Thread -> Slot \cup {Null}]
      BY <1>1, <1>6, <1>m
    <2>2. \A u \in Thread : pc'[u] = "mq_copy" => content'[msg'[u]] \in Mail
      BY <1>1, <1>2, <1>6, <1>9 DEF MqData
    <2>3. \A u \in Thread : pc'[u] \in {"mq_send", "mq_link", "mq_link_head"} => mail'[u] \in Mail
      BY <1>1, <1>2, <1>9 DEF MqData
    <2>4. /\ content' \in [Slot -> Mail \cup {NoMail}] /\ mail' \in [Thread -> Mail \cup {NoMail}]
          /\ \A s \in Slot : Contains(c2, s) => content'[s] \in Mail
      BY <1>1, <1>2, <1>5 DEF MqData
    <2> QED BY <2>1, <2>2, <2>3, <2>4 DEF MqData
  <1>14. MqCounts(c2, f)'
    <2>1. Enough(Len(f), pc', error', "mq_send", sender')
      <3>1. Enough(Len(f), pc, error, "mq_send", sender)
        BY <1>2 DEF MqCounts
      <3>2. \A u \in Thread : pc[u] = "mq_send" => pc'[u] = "mq_send" /\ error'[u] = error[u]
        BY <1>1, <1>9
      <3>3. StayWoken({}, "mq_send", pc, error, sender, pc', error', sender')
        BY <1>1, <3>2 DEF StayWoken
      <3> QED BY ONLY <1>n, <3>1, <3>3, EnoughKeeps, Zenon
    <2>2. Enough(Len(c) - 1, pc', error', "mq_recv", suspend')
      <3>1. Enough(Len(c), pc, error, "mq_recv", suspend)
        BY <1>2 DEF MqCounts
      <3>2. \A u \in Thread : u # t => pc'[u] = pc[u] /\ error'[u] = error[u]
        BY <1>1, <1>9
      <3>3. StayWoken({t}, "mq_recv", pc, error, suspend, pc', error', suspend')
        BY <1>1, <3>2 DEF StayWoken
      <3> QED BY ONLY <1>n, <3>1, <3>3, EnoughLess, Zenon
    <2> QED BY <1>7, <2>1, <2>2 DEF MqCounts
  <1>15. MqState(c2, f)'
    <2>1. MqLists' /\ Apart(c2, f)'
      BY <1>1, <1>2, <1>11 DEF MqLists, Apart
    <2> QED BY <1>3, <1>10, <1>12, <1>13, <1>14, <2>1 DEF MqState, c2
  <1> QED BY <1>3, <1>15 DEF c2

(* A slot is linked at the end, or in front.                               *)
Linked(c, c2, m, v) ==
  \/ Link(m, v) /\ c2 = Append(c, m)
  \/ LinkHead(m, v) /\ c2 = <<m>> \o c

(* Linking at either end adds the slot to the chain.                       *)
LEMMA LinkedQueue ==
  ASSUME NEW c, Queued(c), NEW p, NEW f, Path(next, p, f), Apart(c, f),
         NEW m \in Slot, ~Contains(c, m), ~Contains(f, m), NEW v, NEW c2, Linked(c, c2, m, v)
  PROVE  /\ Queued(c2)' /\ Path(next', p, f)
         /\ Len(c2) = Len(c) + 1 /\ \A x : Contains(c2, x) <=> Contains(c, x) \/ x = m
         /\ content' = [content EXCEPT ![m] = v] /\ suspend' = Shortened(suspend)
         /\ timer' = timer \ First(suspend)
  <1>1. c \in Seq(Slot) /\ Len(c) \in Nat
    BY DEF Queued, Path
  <1>2. ASSUME Link(m, v), c2 = Append(c, m)
        PROVE  Queued(c2)' /\ Path(next', p, f) /\ Len(c2) = Len(c) + 1
               /\ \A x : Contains(c2, x) <=> Contains(c, x) \/ x = m
    <2>1. /\ next' = [next EXCEPT ![IF msg_queue_tail = Null THEN m ELSE msg_queue_tail] = m,
                                  ![m] = Null]
          /\ msg_queue_tail' = m
          /\ msg_queue_head' = (IF msg_queue_head = Null THEN m ELSE msg_queue_head)
          /\ entry' = entry + 1
      BY <1>2 DEF Link
    <2>2. Queued(Append(c, m))' /\ Path(next', p, f)
      BY <2>1, QueuedLink
    <2>3. Len(c2) = Len(c) + 1 /\ \A x : Contains(c2, x) <=> Contains(c, x) \/ x = m
      BY <1>1, <1>2, AppendContains
    <2> QED BY <1>2, <2>2, <2>3
  <1>3. ASSUME LinkHead(m, v), c2 = <<m>> \o c
        PROVE  Queued(c2)' /\ Path(next', p, f) /\ Len(c2) = Len(c) + 1
               /\ \A x : Contains(c2, x) <=> Contains(c, x) \/ x = m
    <2>1. /\ next' = [next EXCEPT ![m] = msg_queue_head]
          /\ msg_queue_head' = m
          /\ msg_queue_tail' = (IF msg_queue_tail = Null THEN m ELSE msg_queue_tail)
          /\ entry' = entry + 1
      BY <1>3 DEF LinkHead
    <2>2. Queued(<<m>> \o c)' /\ Path(next', p, f)
      BY <2>1, QueuedUrgent
    <2>3. Len(<<m>> \o c) = Len(c) + 1
      BY <1>1
    <2>4. \A x : Contains(c2, x) <=> Contains(c, x) \/ x = m
      BY <1>1, <1>3, ConsContains
    <2> QED BY <1>3, <2>2, <2>3, <2>4
  <1>4. /\ content' = [content EXCEPT ![m] = v] /\ suspend' = Shortened(suspend)
        /\ timer' = timer \ First(suspend)
    BY DEF Linked, Link, LinkHead, Resume
  <1> QED BY <1>2, <1>3, <1>4 DEF Linked

(* A sender links its slot and returns.                                    *)
LEMMA LinkKeeps ==
  ASSUME NEW c, NEW f, MqState(c, f), MqWaiting, NEW t \in Thread,
         pc[t] \in {"mq_link", "mq_link_head"}, NEW c2, Linked(c, c2, msg[t], mail[t]), Returns(t),
         mail' = [mail EXCEPT ![t] = NoMail], msg' = [msg EXCEPT ![t] = Null],
         UNCHANGED <<msg_queue_free, sender>>
  PROVE  MqState(c2, f)'
  <1> DEFINE m == msg[t]
             v == mail[t]
  <1>1. /\ Queued(c) /\ Path(next, msg_queue_free, f) /\ Apart(c, f) /\ Hands(c, f) /\ MqData(c)
        /\ MqLists /\ MqCounts(c, f)
    BY DEF MqState
  <1>2. m \in Slot /\ ~Contains(c, m) /\ ~Contains(f, m)
    BY <1>1 DEF Hands, Holds
  <1>3. v \in Mail
    BY <1>1 DEF MqData
  <1>4. /\ Queued(c2)' /\ Path(next', msg_queue_free, f)
        /\ Len(c2) = Len(c) + 1 /\ \A x : Contains(c2, x) <=> Contains(c, x) \/ x = m
        /\ content' = [content EXCEPT ![m] = v] /\ suspend' = Shortened(suspend)
    BY <1>1, <1>2, LinkedQueue
  <1>n. Len(c) \in Int /\ Len(f) \in Int
    BY MqSeqs
  <1>p. DOMAIN pc = Thread /\ DOMAIN error = Thread
    BY DEF MqWaiting
  <1>m. /\ msg \in [Thread -> Slot \cup {Null}] /\ mail \in [Thread -> Mail \cup {NoMail}]
        /\ content \in [Slot -> Mail \cup {NoMail}]
    BY <1>1 DEF MqData
  <1>5. /\ pc'[t] = "run" /\ msg'[t] = Null
        /\ \A u \in Thread : u # t => pc'[u] = pc[u] /\ msg'[u] = msg[u] /\ mail'[u] = mail[u]
        /\ \A u \in Thread : u # t => error'[u] = error[u]
    BY <1>m, <1>p DEF Returns, GoesOn
  <1>6. Apart(c2, f)'
    BY <1>1, <1>2, <1>4 DEF Apart
  <1>7. Hands(c2, f)'
    <2>1. Holds(t) /\ ~Holds(t)'
      BY <1>5 DEF Holds
    <2>2. \A x : Contains(c2, x) \/ Contains(f, x) <=> Contains(c, x) \/ Contains(f, x) \/ x = msg[t]
      BY <1>4
    <2>3. \A u \in Thread : u # t => pc'[u] = pc[u] /\ msg'[u] = msg[u]
      BY <1>5
    <2> QED BY ONLY <1>1, <2>1, <2>2, <2>3, t \in Thread, HandsGive
  <1>8. MqData(c2)'
    <2>1. /\ msg' \in [Thread -> Slot \cup {Null}] /\ mail' \in [Thread -> Mail \cup {NoMail}]
          /\ content' \in [Slot -> Mail \cup {NoMail}]
      BY <1>3, <1>4, <1>m
    <2>2. \A s \in Slot : content'[s] = IF s = m THEN v ELSE content[s]
      BY <1>4, <1>m
    <2>3. \A s \in Slot : Contains(c2, s) => content'[s] \in Mail
      BY <1>1, <1>3, <1>4, <2>2 DEF MqData
    <2>4. \A u \in Thread : pc'[u] = "mq_copy" => content'[msg'[u]] \in Mail
      <3> SUFFICES ASSUME NEW u \in Thread, pc'[u] = "mq_copy" PROVE content'[msg'[u]] \in Mail
        OBVIOUS
      <3>1. u # t /\ pc[u] = "mq_copy" /\ msg'[u] = msg[u]
        BY <1>5
      <3>2. msg[u] \in Slot /\ content[msg[u]] \in Mail
        BY <1>1, <3>1 DEF MqData, Hands, Holds
      <3> QED BY <1>3, <2>2, <3>1, <3>2
    <2>5. \A u \in Thread : pc'[u] \in {"mq_send", "mq_link", "mq_link_head"} => mail'[u] \in Mail
      BY <1>1, <1>5 DEF MqData
    <2> QED BY <2>1, <2>3, <2>4, <2>5 DEF MqData
  <1>9. MqLists'
    BY <1>1, <1>4, Shorter DEF MqLists
  <1>10. MqCounts(c2, f)'
    <2>1. Enough(Len(f), pc', error', "mq_send", sender')
      <3>1. Enough(Len(f), pc, error, "mq_send", sender)
        BY <1>1 DEF MqCounts
      <3>2. \A u \in Thread : pc[u] = "mq_send" => pc'[u] = "mq_send" /\ error'[u] = error[u]
        BY <1>5
      <3>3. StayWoken({}, "mq_send", pc, error, sender, pc', error', sender')
        BY <3>2 DEF StayWoken
      <3> QED BY ONLY <1>n, <3>1, <3>3, EnoughKeeps, Zenon
    <2>2. Enough(Len(c) + 1, pc', error', "mq_recv", Shortened(suspend))
      <3>1. Enough(Len(c), pc, error, "mq_recv", suspend)
        BY <1>1 DEF MqCounts
      <3>2. \A u \in Thread : pc[u] = "mq_recv" => pc'[u] = pc[u] /\ error'[u] = error[u]
        BY <1>5
      <3>3. \A u \in Thread : Contains(suspend, u) => pc[u] = "mq_recv" /\ error[u] = "EOK"
        BY DEF MqWaiting
      <3>4. suspend \in Seq(Thread) /\ IsInjective(suspend)
        BY <1>1 DEF MqLists
      <3>5. Resumable("mq_recv", pc, error, suspend, pc', error')
        BY <3>2, <3>3, <3>4 DEF Resumable
      <3> QED BY ONLY <1>n, <3>1, <3>5, EnoughMore, Zenon
    <2> QED BY <1>4, <2>1, <2>2 DEF MqCounts
  <1>11. Path(next', msg_queue_free', f)
    BY <1>4
  <1> QED BY <1>4, <1>6, <1>7, <1>8, <1>9, <1>10, <1>11 DEF MqState

(* An interrupt handler sends: a free slot is linked at once.              *)
LEMMA IrqKeeps ==
  ASSUME NEW c, NEW f, MqState(c, f), MqWaiting, msg_queue_free # Null,
         msg_queue_free' = next[msg_queue_free], NEW v \in Mail, NEW c2,
         Linked(c, c2, msg_queue_free, v), UNCHANGED <<sender, mail, msg, error, pc, wait>>
  PROVE  MqState(c2, Tail(f))' /\ f # <<>> /\ Contains(f, msg_queue_free)
         /\ msg_queue_free \in Slot /\ ~Contains(c, msg_queue_free)
  <1> DEFINE m == msg_queue_free
             f2 == Tail(f)
  <1>1. /\ Queued(c) /\ Path(next, m, f) /\ Apart(c, f) /\ Hands(c, f) /\ MqData(c)
        /\ MqLists /\ MqCounts(c, f)
    BY DEF MqState
  <1>2. f # <<>> /\ m = Head(f) /\ Path(next, next[m], f2)
    BY <1>1, PathTail
  <1>3. f \in Seq(Slot) /\ IsInjective(f) /\ Len(f) \in Nat /\ Len(c) \in Nat
    BY MqSeqs
  <1>4. \A x : Contains(f2, x) <=> Contains(f, x) /\ x # m
    BY <1>2, <1>3, TailContains
  <1>5. m \in Slot /\ Contains(f, m)
    BY <1>2, <1>3, HeadContains
  <1>6. Len(f2) = Len(f) - 1
    BY <1>2, <1>3
  <1> HIDE DEF f2
  <1>7. ~Contains(c, m) /\ ~Contains(f2, m) /\ Apart(c, f2)
    BY <1>1, <1>4, <1>5 DEF Apart
  <1>8. /\ Queued(c2)' /\ Path(next', next[m], f2)
        /\ Len(c2) = Len(c) + 1 /\ \A x : Contains(c2, x) <=> Contains(c, x) \/ x = m
        /\ content' = [content EXCEPT ![m] = v] /\ suspend' = Shortened(suspend)
    BY <1>1, <1>2, <1>5, <1>7, LinkedQueue
  <1>n. Len(c) \in Int /\ Len(f) \in Int
    BY <1>3
  <1>9. Apart(c2, f2)'
    BY <1>7, <1>8 DEF Apart
  <1>10. Hands(c2, f2)'
    <2>1. \A t \in Thread : Holds(t)' <=> Holds(t)
      BY DEF Holds
    <2>2. \A x : Contains(c2, x) \/ Contains(f2, x) <=> Contains(c, x) \/ Contains(f, x)
      BY <1>4, <1>5, <1>8
    <2>3. msg' = msg
      OBVIOUS
    <2> QED BY ONLY <1>1, <2>1, <2>2, <2>3, HandsKeep
  <1>11. MqData(c2)'
    <2>1. content \in [Slot -> Mail \cup {NoMail}]
      BY <1>1 DEF MqData
    <2>2. \A s \in Slot : content'[s] = IF s = m THEN v ELSE content[s]
      BY <1>8, <2>1
    <2>3. \A s \in Slot : Contains(c2, s) => content'[s] \in Mail
      BY <1>1, <1>8, <2>2 DEF MqData
    <2>4. \A u \in Thread : pc'[u] = "mq_copy" => content'[msg'[u]] \in Mail
      <3> SUFFICES ASSUME NEW u \in Thread, pc[u] = "mq_copy" PROVE content'[msg[u]] \in Mail
        OBVIOUS
      <3>2. msg[u] \in Slot /\ content[msg[u]] \in Mail
        BY <1>1 DEF MqData, Hands, Holds
      <3> QED BY <2>2, <3>2
    <2>5. content' \in [Slot -> Mail \cup {NoMail}]
      BY <1>8, <2>1
    <2> QED BY <1>1, <2>3, <2>4, <2>5 DEF MqData
  <1>12. MqLists'
    BY <1>1, <1>8, Shorter DEF MqLists
  <1>13. MqCounts(c2, f2)'
    <2>1. Enough(Len(f) - 1, pc', error', "mq_send", sender')
      <3>1. Enough(Len(f), pc, error, "mq_send", sender)
        BY <1>1 DEF MqCounts
      <3>2. StayWoken({Null}, "mq_send", pc, error, sender, pc', error', sender')
        BY DEF StayWoken
      <3> QED BY ONLY <1>n, <3>1, <3>2, EnoughLess, Zenon
    <2>2. Enough(Len(c) + 1, pc', error', "mq_recv", Shortened(suspend))
      <3>1. Enough(Len(c), pc, error, "mq_recv", suspend)
        BY <1>1 DEF MqCounts
      <3>2. Resumable("mq_recv", pc, error, suspend, pc', error')
        BY <1>1 DEF Resumable, MqWaiting, MqLists
      <3> QED BY ONLY <1>n, <3>1, <3>2, EnoughMore, Zenon
    <2> QED BY <1>6, <1>8, <2>1, <2>2 DEF MqCounts
  <1>14. Path(next', msg_queue_free', f2)
    BY <1>8
  <1>15. MqState(c2, f2)'
    BY <1>8, <1>9, <1>10, <1>11, <1>12, <1>13, <1>14 DEF MqState
  <1> QED BY <1>2, <1>5, <1>7, <1>15 DEF f2

(* rt_mq_recv frees the slot it copied.                                    *)
LEMMA CopyKeeps ==
  ASSUME NEW c, NEW f, MqState(c, f), MqWaiting, NEW t \in Thread, MqCopy(t),
         NEW m, m = msg[t]
  PROVE  MqState(c, <<m>> \o f)'
  <1> DEFINE f2 == <<m>> \o f
  <1>0. /\ pc[t] = "mq_copy" /\ next' = [next EXCEPT ![m] = msg_queue_free] /\ msg_queue_free' = m
        /\ msg' = [msg EXCEPT ![t] = Null] /\ sender' = Shortened(sender) /\ Returns(t)
        /\ content' = [content EXCEPT ![m] = NoMail]
        /\ UNCHANGED <<msg_queue_head, msg_queue_tail, entry>> /\ suspend' = suspend /\ mail' = mail
    BY DEF MqCopy
  <1>1. /\ Queued(c) /\ Path(next, msg_queue_free, f) /\ Apart(c, f) /\ Hands(c, f) /\ MqData(c)
        /\ MqLists /\ MqCounts(c, f)
    BY DEF MqState
  <1>2. m \in Slot /\ ~Contains(c, m) /\ ~Contains(f, m)
    BY <1>0, <1>1 DEF Hands, Holds
  <1>3. f \in Seq(Slot) /\ Len(f) \in Nat /\ Len(c) \in Nat
    BY MqSeqs
  <1>4. Queued(c)' /\ Path(next', m, f2)
    <2>1. next' = [next EXCEPT ![m] = msg_queue_free]
          /\ UNCHANGED <<msg_queue_head, msg_queue_tail, entry>>
      BY <1>0
    <2> QED BY ONLY <1>1, <1>2, <2>1, QueuedFree
  <1>5. Len(f2) = Len(f) + 1 /\ \A x : Contains(f2, x) <=> Contains(f, x) \/ x = m
    BY <1>2, <1>3, ConsContains
  <1> HIDE DEF f2
  <1>n. Len(c) \in Int /\ Len(f) \in Int
    BY <1>3
  <1>p. DOMAIN pc = Thread /\ DOMAIN error = Thread
    BY DEF MqWaiting
  <1>m. /\ msg \in [Thread -> Slot \cup {Null}] /\ mail \in [Thread -> Mail \cup {NoMail}]
        /\ content \in [Slot -> Mail \cup {NoMail}]
    BY <1>1 DEF MqData
  <1>6. /\ pc'[t] = "run" /\ msg'[t] = Null
        /\ \A u \in Thread : u # t => pc'[u] = pc[u] /\ msg'[u] = msg[u]
        /\ \A u \in Thread : u # t => error'[u] = error[u]
    BY <1>0, <1>m, <1>p DEF Returns, GoesOn
  <1>7. Apart(c, f2)'
    BY <1>1, <1>2, <1>5 DEF Apart
  <1>8. Hands(c, f2)'
    <2>1. Holds(t) /\ ~Holds(t)'
      BY <1>0, <1>6 DEF Holds
    <2>2. \A x : Contains(c, x) \/ Contains(f2, x) <=> Contains(c, x) \/ Contains(f, x) \/ x = msg[t]
      BY <1>5
    <2>3. \A u \in Thread : u # t => pc'[u] = pc[u] /\ msg'[u] = msg[u]
      BY <1>6
    <2> QED BY ONLY <1>1, <2>1, <2>2, <2>3, t \in Thread, HandsGive
  <1>9. MqData(c)'
    <2>1. /\ msg' \in [Thread -> Slot \cup {Null}] /\ mail' \in [Thread -> Mail \cup {NoMail}]
          /\ content' \in [Slot -> Mail \cup {NoMail}]
      BY <1>0, <1>m
    <2>2. \A s \in Slot : s # m => content'[s] = content[s]
      BY <1>0, <1>m
    <2>3. \A s \in Slot : Contains(c, s) => content'[s] \in Mail
      BY <1>1, <1>2, <2>2 DEF MqData
    <2>4. \A u \in Thread : pc'[u] = "mq_copy" => content'[msg'[u]] \in Mail
      <3> SUFFICES ASSUME NEW u \in Thread, pc'[u] = "mq_copy" PROVE content'[msg'[u]] \in Mail
        OBVIOUS
      <3>1. u # t /\ pc[u] = "mq_copy" /\ msg'[u] = msg[u]
        BY <1>6
      <3>2. msg[u] \in Slot /\ content[msg[u]] \in Mail /\ msg[u] # m
        BY <1>0, <1>1, <3>1 DEF MqData, Hands, Holds
      <3> QED BY <2>2, <3>1, <3>2
    <2>5. \A u \in Thread : pc'[u] \in {"mq_send", "mq_link", "mq_link_head"} => mail'[u] \in Mail
      BY <1>0, <1>1, <1>6 DEF MqData
    <2> QED BY <2>1, <2>3, <2>4, <2>5 DEF MqData
  <1>10. MqLists'
    BY <1>0, <1>1, Shorter DEF MqLists
  <1>11. MqCounts(c, f2)'
    <2>1. Enough(Len(c), pc', error', "mq_recv", suspend')
      <3>1. Enough(Len(c), pc, error, "mq_recv", suspend)
        BY <1>1 DEF MqCounts
      <3>2. StayWoken({}, "mq_recv", pc, error, suspend, pc', error', suspend')
        BY <1>0, <1>6 DEF StayWoken
      <3> QED BY ONLY <1>n, <3>1, <3>2, EnoughKeeps, Zenon
    <2>2. Enough(Len(f) + 1, pc', error', "mq_send", Shortened(sender))
      <3>1. Enough(Len(f), pc, error, "mq_send", sender)
        BY <1>1 DEF MqCounts
      <3>2. Resumable("mq_send", pc, error, sender, pc', error')
        BY <1>0, <1>1, <1>6 DEF Resumable, MqWaiting, MqLists
      <3> QED BY ONLY <1>n, <3>1, <3>2, EnoughMore, Zenon
    <2> QED BY <1>0, <1>5, <2>1, <2>2 DEF MqCounts
  <1>12. Path(next', msg_queue_free', f2)
    BY <1>0, <1>4
  <1>13. MqState(c, f2)'
    BY <1>4, <1>7, <1>8, <1>9, <1>10, <1>11, <1>12 DEF MqState
  <1> QED BY <1>13 DEF f2

(* No slot moves.                                                          *)
LEMMA StillKeeps ==
  ASSUME NEW c, NEW f, MqState(c, f), UNCHANGED <<chainvars, msg>>,
         \A t \in Thread : pc'[t] # pc[t] => ~Holds(t) /\ ~Holds(t)',
         mail' \in [Thread -> Mail \cup {NoMail}],
         \A t \in Thread : pc'[t] \in {"mq_send", "mq_link", "mq_link_head"} => mail'[t] \in Mail,
         MqLists', MqCounts(c, f)'
  PROVE  MqState(c, f)'
  <1>1. /\ Queued(c) /\ Path(next, msg_queue_free, f) /\ Apart(c, f) /\ Hands(c, f) /\ MqData(c)
    BY DEF MqState
  <1>2. Queued(c)' /\ Path(next', msg_queue_free', f) /\ Apart(c, f)'
    BY <1>1 DEF chainvars, Queued, Apart
  <1>3. Hands(c, f)'
    <2>1. \A t \in Thread : Holds(t)' <=> Holds(t)
      BY DEF Holds
    <2>2. \A x : Contains(c, x) \/ Contains(f, x) <=> Contains(c, x) \/ Contains(f, x)
      OBVIOUS
    <2>3. msg' = msg
      OBVIOUS
    <2> QED BY ONLY <1>1, <2>1, <2>2, <2>3, HandsKeep
  <1>4. MqData(c)'
    <2>1. content' = content /\ msg' = msg
      BY DEF chainvars
    <2>2. \A t \in Thread : pc'[t] = "mq_copy" => pc[t] = "mq_copy"
      BY DEF Holds
    <2> QED BY <1>1, <2>1, <2>2 DEF MqData
  <1> QED BY <1>2, <1>3, <1>4 DEF MqState

(* A sender sleeps when no slot is free.                                   *)
LEMMA SendBlocksKeeps ==
  ASSUME NEW c, NEW f, MqState(c, f), MqWaiting, NEW t \in Thread, pc[t] \in {"run", "mq_send"},
         ~Contains(sender, t), msg_queue_free = Null, NEW v \in Mail, NEW w, Blocks(t, "mq_send", w),
         sender' = ListSuspend(sender, t, Flag, Prio), mail' = [mail EXCEPT ![t] = v],
         UNCHANGED <<chainvars, suspend, msg>>
  PROVE  MqState(c, f)'
  <1>1. MqData(c) /\ MqLists /\ MqCounts(c, f) /\ Path(next, msg_queue_free, f)
    BY DEF MqState
  <1>2. Len(c) \in Int /\ Len(f) = 0
    <2>1. f = <<>>
      BY <1>1, EmptyHead
    <2> QED BY <2>1, MqSeqs
  <1>3. DOMAIN pc = Thread /\ DOMAIN error = Thread
    BY DEF MqWaiting
  <1>4. /\ pc'[t] = "mq_send"
        /\ \A u \in Thread : u # t => pc'[u] = pc[u] /\ error'[u] = error[u]
    BY <1>3 DEF Blocks
  <1>5. /\ mail' \in [Thread -> Mail \cup {NoMail}] /\ mail'[t] = v
        /\ \A u \in Thread : u # t => mail'[u] = mail[u]
    BY <1>1 DEF MqData
  <1>6. \A u \in Thread : pc'[u] \in {"mq_send", "mq_link", "mq_link_head"} => mail'[u] \in Mail
    BY <1>1, <1>4, <1>5 DEF MqData
  <1>7. MqLists'
    <2>1. sender \in Seq(Thread) /\ IsInjective(sender)
      BY <1>1 DEF MqLists
    <2>2. sender' \in Seq(Thread) /\ IsInjective(sender')
      BY <2>1, ListSuspendContains, Zenon
    <2> QED BY <1>1, <2>2 DEF MqLists
  <1>8. MqCounts(c, f)'
    <2>1. Enough(Len(c), pc, error, "mq_recv", suspend)
      BY <1>1 DEF MqCounts
    <2>2. StayWoken({}, "mq_recv", pc, error, suspend, pc', error', suspend')
      BY <1>4 DEF StayWoken
    <2>3. Enough(Len(c), pc', error', "mq_recv", suspend')
      BY ONLY <1>2, <2>1, <2>2, EnoughKeeps, Zenon
    <2>4. Enough(0, pc', error', "mq_send", sender')
      BY EnoughNone
    <2> QED BY <1>2, <2>3, <2>4 DEF MqCounts
  <1>9. \A u \in Thread : pc'[u] # pc[u] => ~Holds(u) /\ ~Holds(u)'
    BY <1>4 DEF Holds
  <1> QED BY <1>5, <1>6, <1>7, <1>8, <1>9, StillKeeps

(* A receiver sleeps when nothing is queued.                               *)
LEMMA RecvBlocksKeeps ==
  ASSUME NEW c, NEW f, MqState(c, f), MqWaiting, NEW t \in Thread, pc[t] \in {"run", "mq_recv"},
         ~Contains(suspend, t), entry = 0, NEW w, Blocks(t, "mq_recv", w),
         suspend' = ListSuspend(suspend, t, Flag, Prio), UNCHANGED <<chainvars, sender, mail, msg>>
  PROVE  MqState(c, f)'
  <1>1. MqData(c) /\ MqLists /\ MqCounts(c, f) /\ Queued(c)
    BY DEF MqState
  <1>2. Len(f) \in Int /\ Len(c) = 0
    BY <1>1, MqSeqs DEF Queued
  <1>3. DOMAIN pc = Thread /\ DOMAIN error = Thread
    BY DEF MqWaiting
  <1>4. /\ pc'[t] = "mq_recv"
        /\ \A u \in Thread : u # t => pc'[u] = pc[u] /\ error'[u] = error[u]
    BY <1>3 DEF Blocks
  <1>5. mail' \in [Thread -> Mail \cup {NoMail}]
    BY <1>1 DEF MqData
  <1>6. \A u \in Thread : pc'[u] \in {"mq_send", "mq_link", "mq_link_head"} => mail'[u] \in Mail
    BY <1>1, <1>4 DEF MqData
  <1>7. MqLists'
    <2>1. suspend \in Seq(Thread) /\ IsInjective(suspend)
      BY <1>1 DEF MqLists
    <2>2. suspend' \in Seq(Thread) /\ IsInjective(suspend')
      BY <2>1, ListSuspendContains, Zenon
    <2> QED BY <1>1, <2>2 DEF MqLists
  <1>8. MqCounts(c, f)'
    <2>1. Enough(Len(f), pc, error, "mq_send", sender)
      BY <1>1 DEF MqCounts
    <2>2. StayWoken({}, "mq_send", pc, error, sender, pc', error', sender')
      BY <1>4 DEF StayWoken
    <2>3. Enough(Len(f), pc', error', "mq_send", sender')
      BY ONLY <1>2, <2>1, <2>2, EnoughKeeps, Zenon
    <2>4. Enough(0, pc', error', "mq_recv", suspend')
      BY EnoughNone
    <2> QED BY <1>2, <2>3, <2>4 DEF MqCounts
  <1>9. \A u \in Thread : pc'[u] # pc[u] => ~Holds(u) /\ ~Holds(u)'
    BY <1>4 DEF Holds
  <1>10. UNCHANGED <<chainvars, msg>>
    OBVIOUS
  <1> QED BY ONLY MqState(c, f), <1>5, <1>6, <1>7, <1>8, <1>9, <1>10, StillKeeps

(* A call returns with an error, or with nothing to wait for.              *)
LEMMA SendReturnKeeps ==
  ASSUME NEW c, NEW f, MqState(c, f), MqWaiting, NEW t \in Thread, pc[t] = "mq_send",
         error[t] # "EOK" \/ msg_queue_free = Null, Returns(t),
         mail' = [mail EXCEPT ![t] = NoMail], UNCHANGED <<chainvars, suspend, sender, msg>>
  PROVE  MqState(c, f)'
  <1>1. MqData(c) /\ MqLists /\ MqCounts(c, f) /\ Path(next, msg_queue_free, f)
    BY DEF MqState
  <1>2. Len(c) \in Int /\ Len(f) \in Int
    BY MqSeqs
  <1>3. DOMAIN pc = Thread /\ DOMAIN error = Thread
    BY DEF MqWaiting
  <1>4. /\ pc'[t] = "run"
        /\ \A u \in Thread : u # t => pc'[u] = pc[u] /\ error'[u] = error[u]
    BY <1>3 DEF Returns, GoesOn
  <1>5. /\ mail' \in [Thread -> Mail \cup {NoMail}]
        /\ \A u \in Thread : u # t => mail'[u] = mail[u]
    BY <1>1 DEF MqData
  <1>6. \A u \in Thread : pc'[u] \in {"mq_send", "mq_link", "mq_link_head"} => mail'[u] \in Mail
    BY <1>1, <1>4, <1>5 DEF MqData
  <1>7. MqLists'
    BY <1>1 DEF MqLists
  <1>8. MqCounts(c, f)'
    <2>1. /\ Enough(Len(c), pc, error, "mq_recv", suspend)
          /\ Enough(Len(f), pc, error, "mq_send", sender)
      BY <1>1 DEF MqCounts
    <2>2. StayWoken({}, "mq_recv", pc, error, suspend, pc', error', suspend')
      BY <1>4 DEF StayWoken
    <2>3. Enough(Len(c), pc', error', "mq_recv", suspend')
      BY ONLY <1>2, <2>1, <2>2, EnoughKeeps, Zenon
    <2>4. Enough(Len(f), pc', error', "mq_send", sender')
      <3>1. CASE error[t] # "EOK"
        <4>1. StayWoken({}, "mq_send", pc, error, sender, pc', error', sender')
          BY <1>4, <3>1 DEF StayWoken
        <4> QED BY ONLY <1>2, <2>1, <4>1, EnoughKeeps, Zenon
      <3>2. CASE msg_queue_free = Null
        <4>1. Len(f) = 0
          BY <1>1, <3>2, EmptyHead
        <4> QED BY <4>1, EnoughNone
      <3> QED BY <3>1, <3>2
    <2> QED BY <2>3, <2>4 DEF MqCounts
  <1>9. \A u \in Thread : pc'[u] # pc[u] => ~Holds(u) /\ ~Holds(u)'
    BY <1>4 DEF Holds
  <1>10. UNCHANGED <<chainvars, msg>>
    OBVIOUS
  <1> QED BY ONLY MqState(c, f), <1>5, <1>6, <1>7, <1>8, <1>9, <1>10, StillKeeps

(* A receiver that was resumed returns with an error or finds nothing.     *)
LEMMA RecvReturnKeeps ==
  ASSUME NEW c, NEW f, MqState(c, f), MqWaiting, NEW t \in Thread, pc[t] = "mq_recv",
         error[t] # "EOK" \/ entry = 0, Returns(t), UNCHANGED mqvars
  PROVE  MqState(c, f)'
  <1>1. MqData(c) /\ MqLists /\ MqCounts(c, f) /\ Queued(c)
    BY DEF MqState
  <1>2. Len(c) \in Int /\ Len(f) \in Int
    BY MqSeqs
  <1>3. DOMAIN pc = Thread /\ DOMAIN error = Thread
    BY DEF MqWaiting
  <1>4. /\ pc'[t] = "run"
        /\ \A u \in Thread : u # t => pc'[u] = pc[u] /\ error'[u] = error[u]
    BY <1>3 DEF Returns, GoesOn
  <1>0. UNCHANGED <<chainvars, msg>> /\ mail' = mail /\ suspend' = suspend /\ sender' = sender
    BY DEF mqvars
  <1>5. mail' \in [Thread -> Mail \cup {NoMail}]
    BY <1>0, <1>1 DEF MqData
  <1>6. \A u \in Thread : pc'[u] \in {"mq_send", "mq_link", "mq_link_head"} => mail'[u] \in Mail
    BY <1>0, <1>1, <1>4 DEF MqData
  <1>7. MqLists'
    BY <1>0, <1>1 DEF MqLists
  <1>8. MqCounts(c, f)'
    <2>1. /\ Enough(Len(c), pc, error, "mq_recv", suspend)
          /\ Enough(Len(f), pc, error, "mq_send", sender)
      BY <1>1 DEF MqCounts
    <2>2. StayWoken({}, "mq_send", pc, error, sender, pc', error', sender')
      BY <1>0, <1>4 DEF StayWoken
    <2>3. Enough(Len(f), pc', error', "mq_send", sender')
      BY ONLY <1>2, <2>1, <2>2, EnoughKeeps, Zenon
    <2>4. Enough(Len(c), pc', error', "mq_recv", suspend')
      <3>1. CASE error[t] # "EOK"
        <4>1. StayWoken({}, "mq_recv", pc, error, suspend, pc', error', suspend')
          BY <1>0, <1>4, <3>1 DEF StayWoken
        <4> QED BY ONLY <1>2, <2>1, <4>1, EnoughKeeps, Zenon
      <3>2. CASE entry = 0
        <4>1. Len(c) = 0
          BY <1>1, <3>2 DEF Queued
        <4> QED BY <4>1, EnoughNone
      <3> QED BY <3>1, <3>2
    <2> QED BY <2>3, <2>4 DEF MqCounts
  <1>9. \A u \in Thread : pc'[u] # pc[u] => ~Holds(u) /\ ~Holds(u)'
    BY <1>4 DEF Holds
  <1> QED BY ONLY MqState(c, f), <1>0, <1>5, <1>6, <1>7, <1>8, <1>9, StillKeeps

(* rt_mq_control moves the chain to the free list and wakes everybody.     *)
LEMMA ResetKeeps ==
  ASSUME NEW c, NEW f, MqState(c, f), MqReset
  PROVE  MqState(<<>>, Reverse(c) \o f)'
  <1> DEFINE f2 == Reverse(c) \o f
  <1>1. /\ Queued(c) /\ Path(next, msg_queue_free, f) /\ Apart(c, f) /\ Hands(c, f) /\ MqData(c)
    BY DEF MqState
  <1>2. /\ Queued(<<>>)' /\ Path(next', msg_queue_free', f2)
        /\ \A x : Contains(f2, x) <=> Contains(c, x) \/ Contains(f, x)
    BY <1>1, QueuedReset
  <1>3. \A x : ~Contains(<<>>, x)
    BY DEF Contains
  <1> HIDE DEF f2
  <1>4. Chain = c
    BY <1>1, PathChain DEF Chain, Queued
  <1>5. /\ suspend' = <<>> /\ sender' = <<>> /\ mail' = mail /\ msg' = msg /\ pc' = pc
        /\ content' = [s \in Slot |-> IF Contains(c, s) THEN NoMail ELSE content[s]]
    BY <1>4 DEF MqReset, ResumeAll
  <1>6. Apart(<<>>, f2)'
    BY <1>3 DEF Apart
  <1>7. Hands(<<>>, f2)'
    <2>1. \A t \in Thread : Holds(t)' <=> Holds(t)
      BY <1>5 DEF Holds
    <2>2. \A x : Contains(<<>>, x) \/ Contains(f2, x) <=> Contains(c, x) \/ Contains(f, x)
      BY <1>2, <1>3
    <2>3. msg' = msg
      BY <1>5
    <2> QED BY ONLY <1>1, <2>1, <2>2, <2>3, HandsKeep
  <1>8. MqData(<<>>)'
    <2>1. content' \in [Slot -> Mail \cup {NoMail}]
      BY <1>1, <1>5 DEF MqData
    <2>2. ASSUME NEW t \in Thread, pc[t] = "mq_copy" PROVE content'[msg[t]] \in Mail
      <3>1. msg[t] \in Slot /\ ~Contains(c, msg[t]) /\ content[msg[t]] \in Mail
        BY <1>1, <2>2 DEF MqData, Hands, Holds
      <3> QED BY <1>5, <3>1
    <2> QED BY <1>1, <1>3, <1>5, <2>1, <2>2 DEF MqData
  <1>9. MqLists' /\ MqCounts(<<>>, f2)'
    BY <1>5 DEF MqLists, IsInjective, MqCounts, Enough
  <1>10. MqState(<<>>, f2)'
    BY <1>2, <1>6, <1>7, <1>8, <1>9 DEF MqState
  <1> QED BY <1>10 DEF f2

(* What a step of another object leaves alone                              *)
LEMMA FrameKeeps ==
  ASSUME NEW c, NEW f, MqState(c, f), UNCHANGED mqvars,
         \A t \in Thread : \/ pc[t] \notin Calls /\ pc'[t] \notin Calls
                           \/ pc'[t] = pc[t] /\ error'[t] = error[t]
  PROVE  MqState(c, f)'
  <1>0. UNCHANGED <<chainvars, msg>> /\ mail' = mail /\ suspend' = suspend /\ sender' = sender
    BY DEF mqvars
  <1>1. MqData(c) /\ MqLists /\ MqCounts(c, f)
    BY DEF MqState
  <1>2. Len(c) \in Int /\ Len(f) \in Int
    BY MqSeqs
  <1>3. mail' \in [Thread -> Mail \cup {NoMail}]
    BY <1>0, <1>1 DEF MqData
  <1>4. \A u \in Thread : pc'[u] \in {"mq_send", "mq_link", "mq_link_head"} => mail'[u] \in Mail
    BY <1>0, <1>1 DEF MqData, Calls
  <1>5. MqLists'
    BY <1>0, <1>1 DEF MqLists
  <1>6. MqCounts(c, f)'
    <2>1. /\ Enough(Len(c), pc, error, "mq_recv", suspend)
          /\ Enough(Len(f), pc, error, "mq_send", sender)
      BY <1>1 DEF MqCounts
    <2>2. /\ StayWoken({}, "mq_recv", pc, error, suspend, pc', error', suspend')
          /\ StayWoken({}, "mq_send", pc, error, sender, pc', error', sender')
      BY <1>0 DEF StayWoken, Calls
    <2>3. Enough(Len(c), pc', error', "mq_recv", suspend')
      BY ONLY <1>2, <2>1, <2>2, EnoughKeeps, Zenon
    <2>4. Enough(Len(f), pc', error', "mq_send", sender')
      BY ONLY <1>2, <2>1, <2>2, EnoughKeeps, Zenon
    <2> QED BY <2>3, <2>4 DEF MqCounts
  <1>7. \A u \in Thread : pc'[u] # pc[u] => ~Holds(u) /\ ~Holds(u)'
    BY DEF Holds, Calls
  <1> QED BY ONLY MqState(c, f), <1>0, <1>3, <1>4, <1>5, <1>6, <1>7, StillKeeps

(* A thread whose time is over is resumed: it had not been.                *)
LEMMA TimeoutKeeps ==
  ASSUME NEW c, NEW f, MqState(c, f), MqWaiting, NEW t \in Thread,
         pc[t] = "mq_recv" => Contains(suspend, t), pc[t] = "mq_send" => Contains(sender, t),
         error' = [error EXCEPT ![t] = "ETIMEOUT"], suspend' = RemoveFirst(suspend, t),
         sender' = RemoveFirst(sender, t), UNCHANGED <<pc, chainvars, mail, msg>>
  PROVE  MqState(c, f)'
  <1>1. MqData(c) /\ MqLists /\ MqCounts(c, f)
    BY DEF MqState
  <1>2. Len(c) \in Int /\ Len(f) \in Int
    BY MqSeqs
  <1>3. /\ suspend' \in Seq(Thread) /\ IsInjective(suspend')
        /\ \A x : Contains(suspend', x) <=> Contains(suspend, x) /\ x # t
        /\ sender' \in Seq(Thread) /\ IsInjective(sender')
        /\ \A x : Contains(sender', x) <=> Contains(sender, x) /\ x # t
    BY <1>1, RemoveContains DEF MqLists
  <1>4. (suspend' # <<>> => suspend # <<>>) /\ (sender' # <<>> => sender # <<>>)
    <2>1. ASSUME NEW q \in Seq(Thread), NEW r \in Seq(Thread),
                 \A x : Contains(r, x) <=> Contains(q, x) /\ x # t
          PROVE  r # <<>> => q # <<>>
      BY <2>1, EmptyContains
    <2>2. suspend \in Seq(Thread) /\ sender \in Seq(Thread)
      BY <1>1 DEF MqLists
    <2> QED BY ONLY <1>3, <2>1, <2>2
  <1>5. \A u \in Thread : u # t => error'[u] = error[u]
    OBVIOUS
  <1>6. MqCounts(c, f)'
    <2>1. /\ Enough(Len(c), pc, error, "mq_recv", suspend)
          /\ Enough(Len(f), pc, error, "mq_send", sender)
      BY <1>1 DEF MqCounts
    <2>2. /\ StayWoken({}, "mq_recv", pc, error, suspend, pc', error', suspend')
          /\ StayWoken({}, "mq_send", pc, error, sender, pc', error', sender')
      BY <1>3, <1>4, <1>5 DEF StayWoken
    <2>3. Enough(Len(c), pc', error', "mq_recv", suspend')
      BY ONLY <1>2, <2>1, <2>2, EnoughKeeps, Zenon
    <2>4. Enough(Len(f), pc', error', "mq_send", sender')
      BY ONLY <1>2, <2>1, <2>2, EnoughKeeps, Zenon
    <2> QED BY <2>3, <2>4 DEF MqCounts
  <1>7. MqLists'
    BY <1>3 DEF MqLists
  <1>8. /\ mail' \in [Thread -> Mail \cup {NoMail}]
        /\ \A u \in Thread : pc'[u] \in {"mq_send", "mq_link", "mq_link_head"} => mail'[u] \in Mail
    BY <1>1 DEF MqData
  <1>9. \A u \in Thread : pc'[u] # pc[u] => ~Holds(u) /\ ~Holds(u)'
    OBVIOUS
  <1>10. UNCHANGED <<chainvars, msg>>
    OBVIOUS
  <1> QED BY ONLY MqState(c, f), <1>6, <1>7, <1>8, <1>9, <1>10, StillKeeps

(* Slots that are pushed one by one form a path, the last one first.       *)
LEMMA PathPushAll ==
  ASSUME NEW links, NEW q \in Seq(Slot), IsInjective(q), q # <<>>,
         \A i \in 1 .. Len(q) : links[q[i]] = IF i = 1 THEN Null ELSE q[i - 1]
  PROVE  \E f : Path(links, Last(q), f) /\ \A x : Contains(f, x) <=> Contains(q, x)
  <1>1. PICK r : r = <<>>
    OBVIOUS
  <1>2. Path(links, Null, r) /\ \A x : ~Contains(r, x)
    BY <1>1 DEF Path, IsInjective, Contains
  <1>3. \A s \in Slot : ~(Contains(q, s) /\ Contains(r, s))
    BY <1>2
  <1>4. \A s \in Slot : Contains(r, s) => links[s] = links[s]
    OBVIOUS
  <1>5. /\ Path(links, IF q = <<>> THEN Null ELSE Last(q), Reverse(q) \o r)
        /\ \A x : Contains(Reverse(q) \o r, x) <=> Contains(q, x) \/ Contains(r, x)
    BY <1>2, <1>3, <1>4, PathPush
  <1> QED BY <1>2, <1>5

(* rt_mq_init pushes every slot on the free list.                          *)
LEMMA MqInitState ==
  ASSUME MqInit, \A t \in Thread : pc[t] = "run"
  PROVE  \E f : MqState(<<>>, f)
  <1>1. PICK all \in SetToSeqs(Slot) :
          /\ next = [s \in Slot |->
                      LET i == SelectInSeq(all, LAMBDA r : r = s)
                      IN  IF i = 1 THEN Null ELSE all[i - 1]]
          /\ msg_queue_free = Last(all)
    BY DEF MqInit
  <1>2. /\ content = [s \in Slot |-> NoMail] /\ msg_queue_head = Null /\ msg_queue_tail = Null
        /\ entry = 0 /\ suspend = <<>> /\ sender = <<>>
        /\ mail = [t \in Thread |-> NoMail] /\ msg = [t \in Thread |-> Null]
    BY DEF MqInit
  <1> DEFINE N == Cardinality(Slot)
  <1>3. N \in Nat /\ IsFiniteSet(Slot) /\ N # 0
    BY SlotCount, MessageQueueAssumption, FS_EmptySet
  <1>4. all \in [1 .. N -> Slot] /\ \A i, j \in 1 .. N : i # j => all[i] # all[j]
    BY DEF SetToSeqs
  <1>5. all \in Seq(Slot) /\ Len(all) = N /\ DOMAIN all = 1 .. N
    BY <1>3, <1>4
  <1>6. IsInjective(all) /\ all # <<>>
    BY <1>3, <1>4, <1>5 DEF IsInjective
  <1>7. \A x \in Slot : Contains(all, x)
    <2>1. all \in Injection(1 .. N, Slot)
      BY <1>4, <1>6 DEF Injection
    <2>2. IsFiniteSet(1 .. N) /\ Cardinality(1 .. N) = N
      BY <1>3, FS_Interval
    <2>3. all \in Surjection(1 .. N, Slot)
      BY <1>3, <2>1, <2>2, FS_Injection
    <2> HIDE DEF N
    <2> QED BY <1>5, <2>3 DEF Surjection, Contains
  <1> HIDE DEF N
  <1>8. ASSUME NEW i \in 1 .. Len(all) PROVE next[all[i]] = IF i = 1 THEN Null ELSE all[i - 1]
    <2>1. all[i] \in Slot
      BY <1>4, <1>5
    <2>2. next[all[i]] = LET k == SelectInSeq(all, LAMBDA r : r = all[i])
                         IN  IF k = 1 THEN Null ELSE all[k - 1]
      BY <1>1, <2>1
    <2>3. SelectInSeq(all, LAMBDA r : r = all[i]) = i
      BY <1>5, <1>6, PlaceIs DEF SelectInSeq
    <2> QED BY <2>2, <2>3
  <1>9. PICK f : Path(next, msg_queue_free, f) /\ \A x : Contains(f, x) <=> Contains(all, x)
    BY <1>1, <1>5, <1>6, <1>8, PathPushAll
  <1>10. next \in Links
    <2>1. ASSUME NEW s \in Slot PROVE next[s] \in Slot \cup {Null}
      <3>1. PICK i \in 1 .. Len(all) : all[i] = s
        BY <1>7 DEF Contains
      <3>2. i # 1 => i - 1 \in 1 .. N
        BY <1>3, <1>5
      <3> QED BY <1>4, <1>8, <3>1, <3>2
    <2>2. next = [s \in Slot |-> next[s]]
      BY <1>1
    <2> QED BY <2>1, <2>2 DEF Links
  <1>11. Queued(<<>>)
    BY <1>2, <1>10 DEF Queued, Path, IsInjective
  <1>12. Apart(<<>>, f)
    BY DEF Apart, Contains
  <1>13. Hands(<<>>, f)
    <2>1. \A t \in Thread : ~Holds(t)
      BY DEF Holds
    <2> QED BY <1>7, <1>9, <2>1 DEF Hands
  <1>14. MqData(<<>>)
    BY <1>2 DEF MqData, Contains
  <1>15. MqLists /\ MqCounts(<<>>, f)
    BY <1>2 DEF MqLists, IsInjective, MqCounts, Enough
  <1> QED BY <1>9, <1>11, <1>12, <1>13, <1>14, <1>15 DEF MqState

(* The chain and the free list of the model are c and f.                   *)
LEMMA StateChains ==
  ASSUME NEW c, NEW f, MqState(c, f)
  PROVE  Chain = c /\ FreeList = f
  <1>1. next \in Links /\ Path(next, msg_queue_head, c) /\ Path(next, msg_queue_free, f)
    BY DEF MqState, Queued
  <1> QED BY <1>1, PathChain DEF Chain, FreeList

(* A sequence of different slots has as many slots as its length says.     *)
LEMMA SeqCount ==
  ASSUME NEW q \in Seq(Slot), IsInjective(q)
  PROVE  Range(q) \in SUBSET Slot /\ Cardinality(Range(q)) = Len(q)
  <1>1. Len(q) \in Nat /\ q \in [1 .. Len(q) -> Slot] /\ DOMAIN q = 1 .. Len(q)
    OBVIOUS
  <1>2. q \in Surjection(1 .. Len(q), Range(q)) /\ q \in Injection(1 .. Len(q), Range(q))
    BY <1>1 DEF Surjection, Injection, Range
  <1>3. IsFiniteSet(1 .. Len(q)) /\ Cardinality(1 .. Len(q)) = Len(q)
    BY <1>1, FS_Interval
  <1>4. Cardinality(Range(q)) = Cardinality(1 .. Len(q))
    BY ONLY <1>2, <1>3, FS_Surjection, Zenon
  <1> QED BY <1>1, <1>3, <1>4 DEF Range

Holders == {t \in Thread : Holds(t)}
Held    == {msg[t] : t \in Holders}

(* As many slots are out of the lists as calls have one.                   *)
LEMMA HeldCount ==
  ASSUME NEW c, NEW f, MqState(c, f)
  PROVE  Held \in SUBSET Slot /\ Cardinality(Held) = Cardinality(Holders) /\ IsFiniteSet(Holders)
  <1> DEFINE g == [t \in Holders |-> msg[t]]
  <1>1. \A t, u \in Holders : msg[t] \in Slot /\ (msg[t] = msg[u] => t = u)
    BY DEF MqState, Hands, Holders
  <1>2. g \in Surjection(Holders, Held) /\ g \in Injection(Holders, Held)
    BY <1>1 DEF Surjection, Injection, IsInjective, Held
  <1>3. IsFiniteSet(Holders)
    BY ThreadsAssumption, FS_Subset DEF Holders
  <1>4. Cardinality(Held) = Cardinality(Holders)
    <2> HIDE DEF g
    <2> QED BY ONLY <1>2, <1>3, FS_Surjection, Zenon
  <1> QED BY <1>1, <1>3, <1>4 DEF Held

(* Two disjoint sets of slots                                              *)
LEMMA SumCount ==
  ASSUME NEW A \in SUBSET Slot, NEW B \in SUBSET Slot, A \cap B = {}
  PROVE  Cardinality(A \cup B) = Cardinality(A) + Cardinality(B)
         /\ Cardinality(A) \in Nat /\ Cardinality(B) \in Nat
  <1>1. IsFiniteSet(A) /\ IsFiniteSet(B)
    BY SlotCount, FS_Subset
  <1>2. Cardinality(A) \in Nat /\ Cardinality(B) \in Nat
    BY <1>1, FS_CardinalityType
  <1>3. Cardinality(A \cup B) = Cardinality(A) + Cardinality(B) - Cardinality(A \cap B)
    BY <1>1, FS_Union
  <1>4. Cardinality(A \cap B) = 0
    BY FS_EmptySet
  <1> QED BY <1>2, <1>3, <1>4

(* Chain, free list and calls together have all slots.                     *)
LEMMA SlotSum ==
  ASSUME NEW c, NEW f, MqState(c, f)
  PROVE  Cardinality(Holders) + Len(c) + Len(f) = Cardinality(Slot)
  <1>1. /\ c \in Seq(Slot) /\ IsInjective(c) /\ Len(c) \in Nat
        /\ f \in Seq(Slot) /\ IsInjective(f) /\ Len(f) \in Nat
    BY MqSeqs
  <1>2. /\ Range(c) \in SUBSET Slot /\ Cardinality(Range(c)) = Len(c)
        /\ Range(f) \in SUBSET Slot /\ Cardinality(Range(f)) = Len(f)
    BY <1>1, SeqCount
  <1>3. Held \in SUBSET Slot /\ Cardinality(Held) = Cardinality(Holders)
    BY HeldCount
  <1>4. /\ \A x : x \in Range(c) <=> Contains(c, x)
        /\ \A x : x \in Range(f) <=> Contains(f, x)
    BY <1>1, RangeContains
  <1>5. Apart(c, f) /\ Hands(c, f)
    BY DEF MqState
  <1>6. Range(c) \cap Range(f) = {}
    BY <1>2, <1>4, <1>5 DEF Apart
  <1>7. Held \cap (Range(c) \cup Range(f)) = {}
    BY <1>4, <1>5 DEF Hands, Held, Holders
  <1>8. Held \cup (Range(c) \cup Range(f)) = Slot
    BY <1>2, <1>3, <1>4, <1>5 DEF Hands, Held, Holders
  <1>9. Cardinality(Range(c) \cup Range(f)) = Len(c) + Len(f)
    BY <1>2, <1>6, SumCount
  <1>10. Range(c) \cup Range(f) \in SUBSET Slot
    BY <1>2
  <1>11. Cardinality(Slot) = Cardinality(Held) + Cardinality(Range(c) \cup Range(f))
         /\ Cardinality(Held) \in Nat
    BY <1>3, <1>7, <1>8, <1>10, SumCount
  <1> QED BY <1>1, <1>3, <1>9, <1>11

(* Two lists without a common slot, one after the other                    *)
LEMMA ConcatInjective ==
  ASSUME NEW c \in Seq(Slot), NEW f \in Seq(Slot), IsInjective(c), IsInjective(f), Apart(c, f)
  PROVE  IsInjective(c \o f) /\ Range(c \o f) = Range(c) \cup Range(f)
  <1> DEFINE z == c \o f
             n == Len(c)
             k == Len(f)
  <1>1. n \in Nat /\ k \in Nat /\ DOMAIN c = 1 .. n /\ DOMAIN f = 1 .. k
        /\ (\A i \in 1 .. n : c[i] \in Slot) /\ (\A i \in 1 .. k : f[i] \in Slot)
    OBVIOUS
  <1>2. DOMAIN z = 1 .. n + k /\ \A i \in 1 .. n + k : z[i] = IF i <= n THEN c[i] ELSE f[i - n]
    BY ConcatProperties
  <1> HIDE DEF z, n, k
  <1>m. n \in Nat /\ k \in Nat
    BY <1>1
  <1>3. ASSUME NEW i \in 1 .. n + k
        PROVE  \/ i \in 1 .. n /\ z[i] = c[i]
               \/ i - n \in 1 .. k /\ z[i] = f[i - n] /\ i \notin 1 .. n
    <2>1. (i \in 1 .. n /\ i <= n) \/ (i - n \in 1 .. k /\ ~(i <= n))
      BY ONLY <1>m, i \in 1 .. n + k
    <2> QED BY <1>2, <2>1
  <1>4. ASSUME NEW i \in 1 .. n, NEW j \in 1 .. k PROVE c[i] # f[j]
    BY <1>1 DEF Apart, Contains, n, k
  <1>5. ASSUME NEW i \in 1 .. n + k, NEW j \in 1 .. n + k, z[i] = z[j] PROVE i = j
    <2>1. CASE i \in 1 .. n /\ j \in 1 .. n
      <3>1. z[i] = c[i] /\ z[j] = c[j] /\ i \in DOMAIN c /\ j \in DOMAIN c
        BY <1>1, <1>3, <2>1
      <3> QED BY ONLY <1>5, <3>1, IsInjective(c) DEF IsInjective
    <2>2. CASE i - n \in 1 .. k /\ z[i] = f[i - n] /\ j - n \in 1 .. k /\ z[j] = f[j - n]
      <3>1. i - n = j - n
        BY ONLY <1>1, <1>5, <2>2, IsInjective(f) DEF IsInjective
      <3> QED BY ONLY <1>m, <3>1, i \in 1 .. n + k, j \in 1 .. n + k
    <2> QED BY <1>3, <1>4, <1>5, <2>1, <2>2
  <1>6. IsInjective(z)
    BY <1>2, <1>5 DEF IsInjective
  <1>7. Range(z) = Range(c) \cup Range(f)
    <2>1. ASSUME NEW i \in 1 .. n PROVE i \in DOMAIN z /\ z[i] = c[i]
      <3>1. i \in 1 .. n + k /\ i <= n
        BY ONLY <1>m, i \in 1 .. n
      <3> QED BY <1>2, <3>1
    <2>2. ASSUME NEW i \in 1 .. k PROVE n + i \in DOMAIN z /\ z[n + i] = f[i]
      <3>1. n + i \in 1 .. n + k /\ ~(n + i <= n) /\ (n + i) - n = i
        BY ONLY <1>m, i \in 1 .. k
      <3>2. z[n + i] = f[(n + i) - n]
        BY <1>2, <3>1
      <3> QED BY <1>2, <3>1, <3>2
    <2>3. ASSUME NEW i \in DOMAIN z PROVE z[i] \in Range(c) \cup Range(f)
      BY <1>1, <1>2, <1>3 DEF Range
    <2> QED BY <1>1, <2>1, <2>2, <2>3 DEF Range
  <1> QED BY <1>6, <1>7 DEF z

(* What the state of the queue says about the links                        *)
LEMMA StateFacts ==
  ASSUME NEW c, NEW f, MqState(c, f)
  PROVE  MqTypeOK /\ SlotsPartitioned /\ MqNoLostWakeup
  <1>1. Chain = c /\ FreeList = f
    BY StateChains
  <1>2. /\ Queued(c) /\ Path(next, msg_queue_free, f) /\ Apart(c, f) /\ Hands(c, f) /\ MqData(c)
        /\ MqLists /\ MqCounts(c, f)
    BY DEF MqState
  <1>3. /\ c \in Seq(Slot) /\ IsInjective(c) /\ f \in Seq(Slot) /\ IsInjective(f)
    BY MqSeqs
  <1>4. /\ next \in Links /\ Path(next, msg_queue_head, c) /\ entry = Len(c)
        /\ msg_queue_tail = IF c = <<>> THEN Null ELSE Last(c)
    BY <1>2 DEF Queued
  <1>5. MqTypeOK
    <2>1. msg_queue_head \in Slot \cup {Null} /\ msg_queue_free \in Slot \cup {Null}
      BY <1>2, <1>4, EmptyHead
    <2>2. msg_queue_tail \in Slot \cup {Null}
      BY <1>3, <1>4, LastIn
    <2>3. entry \in 0 .. Cardinality(Slot)
      BY <1>3, <1>4, PathLen
    <2> QED BY <1>2, <1>4, <2>1, <2>2, <2>3 DEF MqTypeOK, MqData, MqLists, Links
  <1>6. SlotsPartitioned
    <2>1. IsInjective(c \o f) /\ Range(c \o f) = Range(c) \cup Range(f)
      BY <1>2, <1>3, ConcatInjective
    <2>2. /\ \A x : x \in Range(c) <=> Contains(c, x)
          /\ \A x : x \in Range(f) <=> Contains(f, x)
      BY <1>3, RangeContains
    <2>3. Range(c) \cup Range(f) = Slot \ Held
      <3>1. Range(c) \in SUBSET Slot /\ Range(f) \in SUBSET Slot
        BY <1>3, SeqCount
      <3> QED BY <1>2, <2>2, <3>1 DEF Hands, Held, Holders
    <2>4. \A t, u \in Holders : msg[t] = msg[u] => t = u
      BY <1>2 DEF Hands, Holders
    <2>5. Cardinality(Holders) + Len(c) + Len(f) = Cardinality(Slot)
      BY SlotSum
    <2> QED BY <1>1, <1>4, <2>1, <2>3, <2>4, <2>5 DEF SlotsPartitioned, Held, Holders
  <1>7. MqNoLostWakeup
    BY <1>1, <1>2, <1>4 DEF MqNoLostWakeup, MqCounts, Enough, MqWoken, WokenIn
  <1> QED BY <1>5, <1>6, <1>7

-----------------------------------------------------------------------------
(* The steps of the message queue *)

MqLocal == Local(Calls \cup {"run"})

OtherVars == <<eventvars, completionvars, wqueuevars>>

(* The lists of the message queue hold the threads that sleep in its       *)
(* calls.                                                                  *)
LEMMA ListsWait ==
  ASSUME Parked, MqLists
  PROVE  /\ MqWaiting
         /\ \A x : x \in Sleepers["mq_recv"] <=> Contains(suspend, x)
         /\ \A x : x \in Sleepers["mq_send"] <=> Contains(sender, x)
  <1>1. /\ \A x : x \in Range(suspend) <=> Contains(suspend, x)
        /\ \A x : x \in Range(sender) <=> Contains(sender, x)
    BY RangeContains DEF MqLists
  <1>2. /\ \A x : x \in Sleepers["mq_recv"] <=> Contains(suspend, x)
        /\ \A x : x \in Sleepers["mq_send"] <=> Contains(sender, x)
    BY <1>1, SleepersAre
  <1>3. /\ \A t \in Sleepers["mq_recv"] : pc[t] = "mq_recv" /\ error[t] = "EOK"
        /\ \A t \in Sleepers["mq_send"] : pc[t] = "mq_send" /\ error[t] = "EOK"
    BY DEF Parked, SleepCalls
  <1>4. DOMAIN pc = Thread /\ DOMAIN error = Thread
    BY DEF Parked, ThreadTypes, ThreadsTypeOK
  <1> QED BY <1>2, <1>3, <1>4 DEF MqWaiting

(* A step of the message queue leaves the other objects alone.             *)
LEMMA OthersSleep ==
  ASSUME UNCHANGED OtherVars
  PROVE  \A c \in SleepCalls \ {"mq_recv", "mq_send"} : Sleepers'[c] = Sleepers[c]
  BY SleepersAre, SleepersNext DEF SleepCalls, OtherVars, eventvars, completionvars, wqueuevars

(* Neither list of the message queue changes.                              *)
LEMMA QuietOk ==
  ASSUME UNCHANGED OtherVars, suspend' = suspend, sender' = sender
  PROVE  WakesOne("mq_recv", {}) /\ WakesOne("mq_send", {})
  <1>1. \A c \in SleepCalls : Sleepers'[c] = Sleepers[c]
    BY SleepersAre, SleepersNext, OthersSleep DEF SleepCalls
  <1> QED BY <1>1 DEF WakesOne, SleepCalls

(* The first receiver, or the first sender, is resumed.                    *)
LEMMA FirstOk ==
  ASSUME Parked, MqLists, UNCHANGED OtherVars
  PROVE  /\ suspend' = Shortened(suspend) /\ sender' = sender =>
              WakesOne("mq_recv", First(suspend))
         /\ sender' = Shortened(sender) /\ suspend' = suspend =>
              WakesOne("mq_send", First(sender))
  <1>1. ASSUME suspend' = Shortened(suspend), sender' = sender
        PROVE  WakesOne("mq_recv", First(suspend))
    <2>1. /\ suspend' \in Seq(Thread)
          /\ \A x : Contains(suspend', x) <=> Contains(suspend, x) /\ x \notin First(suspend)
          /\ \A x \in First(suspend) : x \in Thread /\ Contains(suspend, x)
      BY <1>1, Shorter DEF MqLists
    <2>2. \A x : x \in Range(suspend') <=> Contains(suspend', x)
      BY <2>1, RangeContains
    <2>3. Sleepers'["mq_recv"] = Sleepers["mq_recv"] \ First(suspend)
      BY <2>1, <2>2, ListsWait, SleepersNext
    <2>4. \A t \in First(suspend) : pc[t] = "mq_recv"
      BY <2>1, ListsWait DEF MqWaiting
    <2>5. Sleepers'["mq_send"] = Sleepers["mq_send"]
      BY <1>1, SleepersAre, SleepersNext
    <2>6. \A d \in SleepCalls \ {"mq_recv"} : Sleepers'[d] = Sleepers[d]
      BY <2>5, OthersSleep DEF SleepCalls
    <2> QED BY <2>3, <2>4, <2>6 DEF WakesOne
  <1>2. ASSUME sender' = Shortened(sender), suspend' = suspend
        PROVE  WakesOne("mq_send", First(sender))
    <2>1. /\ sender' \in Seq(Thread)
          /\ \A x : Contains(sender', x) <=> Contains(sender, x) /\ x \notin First(sender)
          /\ \A x \in First(sender) : x \in Thread /\ Contains(sender, x)
      BY <1>2, Shorter DEF MqLists
    <2>2. \A x : x \in Range(sender') <=> Contains(sender', x)
      BY <2>1, RangeContains
    <2>3. Sleepers'["mq_send"] = Sleepers["mq_send"] \ First(sender)
      BY <2>1, <2>2, ListsWait, SleepersNext
    <2>4. \A t \in First(sender) : pc[t] = "mq_send"
      BY <2>1, ListsWait DEF MqWaiting
    <2>5. Sleepers'["mq_recv"] = Sleepers["mq_recv"]
      BY <1>2, SleepersAre, SleepersNext
    <2>6. \A d \in SleepCalls \ {"mq_send"} : Sleepers'[d] = Sleepers[d]
      BY <2>5, OthersSleep DEF SleepCalls
    <2> QED BY <2>3, <2>4, <2>6 DEF WakesOne
  <1> QED BY <1>1, <1>2

(* A call goes on from its list.                                           *)
Off(t, call) ==
  pc[t] \in {"run", call} /\ \A c \in SleepCalls : t \notin Sleepers[c]

MqOk == Parked' /\ MqInv' /\ MqLocal

(* A sender takes a free slot.                                             *)
LEMMA TakeFreeOk ==
  ASSUME Parked, NEW c, NEW f, MqState(c, f), NEW t \in Thread, Off(t, "mq_send"),
         NEW v \in Mail, NEW at \in {"mq_link", "mq_link_head"}, TakeFree(t, v, at),
         UNCHANGED OtherVars
  PROVE  MqOk
  <1>1. MqLists
    BY DEF MqState
  <1>2. MqState(c, Tail(f))'
    BY <1>1, ListsWait, TakeFreeKeeps DEF Off
  <1>3. /\ GoesOn(t, at) /\ timer' = timer \ {} /\ error' = error
        /\ suspend' = suspend /\ sender' = sender
    BY DEF TakeFree
  <1>4. Moves(t, at)
    BY <1>3 DEF Moves, Off, ThreadCalls, Calls
  <1>5. Parked'
    <2>1. WakesOne("mq_send", {}) /\ "mq_send" \in SleepCalls
      BY <1>3, QuietOk DEF SleepCalls
    <2> QED BY <1>3, <1>4, <2>1, ParkMoves, Zenon
  <1>6. MqLocal
    <2>1. pc[t] \in Calls \cup {"run"} /\ at \in Calls \cup {"run"}
      BY DEF Off, Calls
    <2> QED BY <1>4, <2>1, MovesLocal, Zenon DEF MqLocal
  <1> QED BY <1>2, <1>5, <1>6 DEF MqOk, MqInv

(* A receiver takes the first message.                                     *)
LEMMA TakeFirstOk ==
  ASSUME Parked, NEW c, NEW f, MqState(c, f), NEW t \in Thread, Off(t, "mq_recv"), TakeFirst(t),
         UNCHANGED OtherVars
  PROVE  MqOk
  <1>1. MqLists
    BY DEF MqState
  <1>2. MqState(Tail(c), f)'
    BY <1>1, ListsWait, TakeFirstKeeps DEF Off
  <1>3. /\ GoesOn(t, "mq_copy") /\ timer' = timer \ {} /\ error' = error
        /\ suspend' = suspend /\ sender' = sender
    BY DEF TakeFirst
  <1>4. Moves(t, "mq_copy")
    BY <1>3 DEF Moves, Off, ThreadCalls, Calls
  <1>5. Parked'
    <2>1. WakesOne("mq_send", {}) /\ "mq_send" \in SleepCalls
      BY <1>3, QuietOk DEF SleepCalls
    <2> QED BY <1>3, <1>4, <2>1, ParkMoves, Zenon
  <1>6. MqLocal
    <2>1. pc[t] \in Calls \cup {"run"} /\ "mq_copy" \in Calls \cup {"run"}
      BY DEF Off, Calls
    <2> QED BY <1>4, <2>1, MovesLocal, Zenon DEF MqLocal
  <1> QED BY <1>2, <1>5, <1>6 DEF MqOk, MqInv

(* The loop of rt_mq_send_wait                                             *)
LEMMA SendLoopOk ==
  ASSUME Parked, NEW c, NEW f, MqState(c, f), NEW t \in Thread, Off(t, "mq_send"),
         NEW v \in Mail, NEW w \in Waits, MqSendLoop(t, v, w), UNCHANGED OtherVars
  PROVE  MqOk
  <1>1. CASE TakeFree(t, v, "mq_link")
    BY <1>1, TakeFreeOk
  <1>2. CASE /\ msg_queue_free = Null /\ Blocks(t, "mq_send", w)
             /\ sender' = ListSuspend(sender, t, Flag, Prio)
             /\ mail' = [mail EXCEPT ![t] = v] /\ UNCHANGED <<chainvars, suspend, msg>>
    <2>1. MqLists /\ sender \in Seq(Thread) /\ IsInjective(sender)
      BY DEF MqState, MqLists
    <2>2. ~Contains(sender, t) /\ MqWaiting
      BY <2>1, ListsWait DEF Off, SleepCalls
    <2>3. MqState(c, f)'
      BY <1>2, <2>2, SendBlocksKeeps DEF Off
    <2>4. /\ sender' \in Seq(Thread)
          /\ \A x : Contains(sender', x) <=> Contains(sender, x) \/ x = t
      BY <1>2, <2>1, <2>2, ListSuspendContains, Zenon
    <2>5. Sleepers'["mq_send"] = Sleepers["mq_send"] \cup {t}
      <3>1. \A x : x \in Range(sender') <=> Contains(sender', x)
        BY <2>4, RangeContains
      <3> QED BY <2>1, <2>4, <3>1, ListsWait, SleepersNext
    <2>6. Sleepers'["mq_recv"] = Sleepers["mq_recv"]
      BY <1>2, SleepersAre, SleepersNext
    <2>7. Enters(t, "mq_send") /\ "mq_send" \in SleepCalls
      BY <2>5, <2>6, OthersSleep DEF Enters, SleepCalls, Off
    <2>8. Parked'
      BY <1>2, <2>7, ParkBlocks, Zenon
    <2>9. MqLocal
      <3>1. pc[t] \in Calls \cup {"run"} /\ "mq_send" \in Calls \cup {"run"}
        BY DEF Off, Calls
      <3> QED BY <1>2, <3>1, BlocksLocal, Zenon DEF MqLocal
    <2> QED BY <2>3, <2>8, <2>9 DEF MqOk, MqInv
  <1> QED BY <1>1, <1>2 DEF MqSendLoop

(* The loop of rt_mq_recv                                                  *)
LEMMA RecvLoopOk ==
  ASSUME Parked, NEW c, NEW f, MqState(c, f), NEW t \in Thread, Off(t, "mq_recv"),
         NEW w \in Waits, MqRecvLoop(t, w), UNCHANGED OtherVars
  PROVE  MqOk
  <1>1. CASE TakeFirst(t)
    BY <1>1, TakeFirstOk
  <1>2. CASE /\ entry = 0 /\ Blocks(t, "mq_recv", w)
             /\ suspend' = ListSuspend(suspend, t, Flag, Prio)
             /\ UNCHANGED <<chainvars, sender, mail, msg>>
    <2>1. MqLists /\ suspend \in Seq(Thread) /\ IsInjective(suspend)
      BY DEF MqState, MqLists
    <2>2. ~Contains(suspend, t) /\ MqWaiting
      BY <2>1, ListsWait DEF Off, SleepCalls
    <2>3. MqState(c, f)'
      BY <1>2, <2>2, RecvBlocksKeeps DEF Off
    <2>4. /\ suspend' \in Seq(Thread)
          /\ \A x : Contains(suspend', x) <=> Contains(suspend, x) \/ x = t
      BY <1>2, <2>1, <2>2, ListSuspendContains, Zenon
    <2>5. Sleepers'["mq_recv"] = Sleepers["mq_recv"] \cup {t}
      <3>1. \A x : x \in Range(suspend') <=> Contains(suspend', x)
        BY <2>4, RangeContains
      <3> QED BY <2>1, <2>4, <3>1, ListsWait, SleepersNext
    <2>6. Sleepers'["mq_send"] = Sleepers["mq_send"]
      BY <1>2, SleepersAre, SleepersNext
    <2>7. Enters(t, "mq_recv") /\ "mq_recv" \in SleepCalls
      BY <2>5, <2>6, OthersSleep DEF Enters, SleepCalls, Off
    <2>8. Parked'
      BY <1>2, <2>7, ParkBlocks, Zenon
    <2>9. MqLocal
      <3>1. pc[t] \in Calls \cup {"run"} /\ "mq_recv" \in Calls \cup {"run"}
        BY DEF Off, Calls
      <3> QED BY <1>2, <3>1, BlocksLocal, Zenon DEF MqLocal
    <2> QED BY <2>3, <2>8, <2>9 DEF MqOk, MqInv
  <1> QED BY <1>1, <1>2 DEF MqRecvLoop

(* The second section of rt_mq_send_wait and rt_mq_urgent                  *)
LEMMA MqLinkOk ==
  ASSUME Parked, NEW c, NEW f, MqState(c, f), NEW t \in Thread, MqLink(t), UNCHANGED OtherVars
  PROVE  MqOk
  <1>1. MqLists /\ MqWaiting
    BY ListsWait DEF MqState
  <1>2. /\ pc[t] \in {"mq_link", "mq_link_head"} /\ Returns(t)
        /\ mail' = [mail EXCEPT ![t] = NoMail] /\ msg' = [msg EXCEPT ![t] = Null]
        /\ UNCHANGED <<msg_queue_free, sender>>
        /\ suspend' = Shortened(suspend) /\ timer' = timer \ First(suspend)
    BY DEF MqLink, Link, LinkHead, Resume
  <1>3. PICK m, v : m = msg[t] /\ v = mail[t]
    OBVIOUS
  <1>4. \E c2 : Linked(c, c2, m, v)
    <2>1. CASE Link(m, v)
      BY <2>1 DEF Linked
    <2>2. CASE LinkHead(m, v)
      BY <2>2 DEF Linked
    <2> QED BY <1>3, <2>1, <2>2 DEF MqLink
  <1>5. PICK c2 : Linked(c, c2, m, v)
    BY <1>4
  <1>6. Linked(c, c2, msg[t], mail[t])
    BY <1>3, <1>5
  <1>7. MqState(c2, f)'
    BY <1>1, <1>2, <1>6, LinkKeeps
  <1>8. Moves(t, "run")
    BY <1>2 DEF Moves, Returns, ThreadCalls, SleepCalls
  <1>9. WakesOne("mq_recv", First(suspend)) /\ "mq_recv" \in SleepCalls
    BY <1>1, <1>2, FirstOk DEF SleepCalls
  <1>10. Parked'
    BY <1>2, <1>8, <1>9, ParkMoves, Zenon
  <1>11. MqLocal
    <2>1. pc[t] \in Calls \cup {"run"} /\ "run" \in Calls \cup {"run"}
      BY <1>2 DEF Calls
    <2> QED BY <1>8, <2>1, MovesLocal, Zenon DEF MqLocal
  <1> QED BY <1>7, <1>10, <1>11 DEF MqOk, MqInv

(* The second section of rt_mq_recv                                        *)
LEMMA MqCopyOk ==
  ASSUME Parked, NEW c, NEW f, MqState(c, f), NEW t \in Thread, MqCopy(t), UNCHANGED OtherVars
  PROVE  MqOk
  <1>1. MqLists /\ MqWaiting
    BY ListsWait DEF MqState
  <1>2. /\ pc[t] = "mq_copy" /\ Returns(t) /\ suspend' = suspend
        /\ sender' = Shortened(sender) /\ timer' = timer \ First(sender)
    BY DEF MqCopy, Resume
  <1>3. PICK m : m = msg[t]
    OBVIOUS
  <1>4. MqState(c, <<m>> \o f)'
    BY <1>1, <1>3, CopyKeeps
  <1>5. Moves(t, "run")
    BY <1>2 DEF Moves, Returns, ThreadCalls, SleepCalls
  <1>6. WakesOne("mq_send", First(sender)) /\ "mq_send" \in SleepCalls
    BY <1>1, <1>2, FirstOk DEF SleepCalls
  <1>7. Parked'
    BY <1>2, <1>5, <1>6, ParkMoves, Zenon
  <1>8. MqLocal
    <2>1. pc[t] \in Calls \cup {"run"} /\ "run" \in Calls \cup {"run"}
      BY <1>2 DEF Calls
    <2> QED BY <1>5, <2>1, MovesLocal, Zenon DEF MqLocal
  <1> QED BY <1>4, <1>7, <1>8 DEF MqOk, MqInv

(* A send from an interrupt handler                                        *)
LEMMA MqIrqOk ==
  ASSUME Parked, NEW c, NEW f, MqState(c, f), MqIrqSend, UNCHANGED OtherVars
  PROVE  MqOk
  <1>1. MqLists /\ MqWaiting
    BY ListsWait DEF MqState
  <1>2. PICK v \in Mail : Link(msg_queue_free, v) \/ LinkHead(msg_queue_free, v)
    BY DEF MqIrqSend
  <1>3. /\ msg_queue_free # Null /\ msg_queue_free' = next[msg_queue_free]
        /\ UNCHANGED <<sender, mail, msg, error, pc, wait>>
        /\ suspend' = Shortened(suspend) /\ timer' = timer \ First(suspend)
    BY DEF MqIrqSend, Link, LinkHead, Resume
  <1>4. PICK m : m = msg_queue_free
    OBVIOUS
  <1>5. PICK c2 : Linked(c, c2, m, v)
    <2>1. CASE Link(m, v)
      BY <2>1 DEF Linked
    <2>2. CASE LinkHead(m, v)
      BY <2>2 DEF Linked
    <2> QED BY <1>2, <1>4, <2>1, <2>2
  <1>6. Linked(c, c2, msg_queue_free, v)
    BY <1>4, <1>5
  <1>7. MqState(c2, Tail(f))'
    BY <1>1, <1>3, <1>6, IrqKeeps
  <1>8. WakesOne("mq_recv", First(suspend)) /\ "mq_recv" \in SleepCalls
    BY <1>1, <1>3, FirstOk DEF SleepCalls
  <1>9. Goes(First(suspend), {})
    BY <1>3 DEF Goes
  <1>10. ThreadTypes'
    BY <1>3 DEF Parked, ThreadTypes, ThreadsTypeOK
  <1>11. Parked'
    BY <1>8, <1>9, <1>10, ParkWakesOne, Zenon
  <1>12. MqLocal
    BY <1>3 DEF MqLocal, Local
  <1> QED BY <1>7, <1>11, <1>12 DEF MqOk, MqInv

(* rt_mq_control(RT_IPC_CMD_RESET)                                         *)
LEMMA MqResetOk ==
  ASSUME Parked, NEW c, NEW f, MqState(c, f), MqReset, UNCHANGED OtherVars
  PROVE  MqOk
  <1> DEFINE R == Range(suspend) \cup Range(sender)
  <1>1. /\ ResumeAll(R) /\ suspend' = <<>> /\ sender' = <<>>
    BY DEF MqReset
  <1>2. MqState(<<>>, Reverse(c) \o f)'
    BY ResetKeeps
  <1>3. /\ error' = [t \in Thread |-> IF t \in R THEN "ERROR" ELSE error[t]]
        /\ timer' = timer \ R /\ pc' = pc /\ wait' = wait
    BY <1>1 DEF ResumeAll, Resume
  <1>4. /\ Sleepers["mq_recv"] \subseteq R /\ Sleepers["mq_send"] \subseteq R
        /\ Sleepers'["mq_recv"] = {} /\ Sleepers'["mq_send"] = {}
        /\ \A t \in R : t \in Sleepers["mq_recv"] \/ t \in Sleepers["mq_send"]
    BY <1>1, SleepersAre, SleepersNext DEF Range
  <1>5. ThreadTypes'
    BY <1>1, ResumeAllType DEF Parked
  <1> HIDE DEF R
  <1>6. \A t \in R : pc[t] \in {"mq_recv", "mq_send"}
    BY <1>4 DEF Parked, SleepCalls
  <1>7. WakesAll(R)
    <2>1. ASSUME NEW d \in SleepCalls PROVE Sleepers'[d] = Sleepers[d] \ R
      <3>1. CASE d \in {"mq_recv", "mq_send"}
        BY <1>4, <3>1
      <3>2. CASE d \notin {"mq_recv", "mq_send"}
        <4>1. \A t \in Sleepers[d] : t \notin R
          BY <1>6, <3>2 DEF Parked
        <4>2. Sleepers'[d] = Sleepers[d]
          BY <3>2, OthersSleep
        <4> QED BY <4>1, <4>2
      <3> QED BY <3>1, <3>2
    <2> QED BY <2>1 DEF WakesAll
  <1>8. Goes(R, {})
    BY <1>3 DEF Goes
  <1>9. Parked'
    BY <1>5, <1>7, <1>8, ParkWakes, Zenon
  <1>10. MqLocal
    BY <1>3, <1>6 DEF MqLocal, Local, Calls
  <1> QED BY <1>2, <1>9, <1>10 DEF MqOk, MqInv

(* A call that was resumed is off its list.                                *)
LEMMA ResumedOff ==
  ASSUME Parked, MqLists, NEW t \in Thread
  PROVE  /\ pc[t] = "run" => Off(t, "mq_send") /\ Off(t, "mq_recv")
         /\ pc[t] = "mq_send" /\ ~Contains(sender, t) => Off(t, "mq_send")
         /\ pc[t] = "mq_recv" /\ ~Contains(suspend, t) => Off(t, "mq_recv")
  <1>1. /\ t \in Sleepers["mq_recv"] => Contains(suspend, t)
        /\ t \in Sleepers["mq_send"] => Contains(sender, t)
    BY ListsWait
  <1>2. (pc[t] \in SleepCalls => t \notin Sleepers[pc[t]]) => \A d \in SleepCalls : t \notin Sleepers[d]
    BY Awake
  <1> QED BY <1>1, <1>2 DEF Off, SleepCalls

(* A call returns after a wait.                                            *)
LEMMA MqReturnOk ==
  ASSUME Parked, NEW t \in Thread, NEW call \in {"mq_send", "mq_recv"}, Off(t, call), Returns(t),
         timer' = timer, suspend' = suspend, sender' = sender, UNCHANGED OtherVars
  PROVE  Parked' /\ MqLocal
  <1>1. Moves(t, "run")
    BY DEF Moves, Returns, ThreadCalls, Off
  <1>2. WakesOne("mq_send", {}) /\ "mq_send" \in SleepCalls /\ timer' = timer \ {}
    BY QuietOk DEF SleepCalls
  <1>3. Parked'
    BY <1>1, <1>2, ParkMoves, Zenon
  <1>4. pc[t] \in Calls \cup {"run"} /\ "run" \in Calls \cup {"run"}
    BY DEF Calls, Off
  <1>5. MqLocal
    BY <1>1, <1>4, MovesLocal, Zenon DEF MqLocal
  <1> QED BY <1>3, <1>5

(* Every step of the message queue keeps the invariant.                    *)
LEMMA MessageOk ==
  ASSUME Parked, MqInv, MessageStep
  PROVE  MqOk
  <1>1. PICK c, f : MqState(c, f)
    BY DEF MqInv
  <1>2. UNCHANGED OtherVars
    BY DEF MessageStep, OtherVars
  <1>3. MqLists /\ MqData(c) /\ MqWaiting
    BY <1>1, ListsWait DEF MqState
  <1>4. ASSUME NEW t \in MqUser, MqStep(t) PROVE MqOk
    <2>0. t \in Thread /\ \A w : w \in WaitsOf(t) => w \in Waits
      BY MessageQueueAssumption DEF WaitsOf, Waits
    <2>1. CASE MqSend(t)
      <3>1. PICK v \in Mail, w \in WaitsOf(t) : MqSendLoop(t, v, w)
        BY <2>1 DEF MqSend
      <3>2. Off(t, "mq_send")
        BY <1>3, <2>0, <2>1, ResumedOff DEF MqSend
      <3> QED BY <1>1, <1>2, <2>0, <3>1, <3>2, SendLoopOk
    <2>2. CASE MqUrgent(t)
      <3>1. PICK v \in Mail : TakeFree(t, v, "mq_link_head")
        BY <2>2 DEF MqUrgent
      <3>2. Off(t, "mq_send")
        BY <1>3, <2>0, <2>2, ResumedOff DEF MqUrgent
      <3> QED BY <1>1, <1>2, <2>0, <3>1, <3>2, TakeFreeOk
    <2>3. CASE MqRecv(t)
      <3>1. PICK w \in WaitsOf(t) : MqRecvLoop(t, w)
        BY <2>3 DEF MqRecv
      <3>2. Off(t, "mq_recv")
        BY <1>3, <2>0, <2>3, ResumedOff DEF MqRecv
      <3> QED BY <1>1, <1>2, <2>0, <3>1, <3>2, RecvLoopOk
    <2>4. CASE MqLink(t)
      BY <1>1, <1>2, <2>0, <2>4, MqLinkOk
    <2>5. CASE MqCopy(t)
      BY <1>1, <1>2, <2>0, <2>5, MqCopyOk
    <2>6. CASE MqSendResumed(t)
      <3>1. Off(t, "mq_send") /\ pc[t] = "mq_send"
        BY <1>3, <2>0, <2>6, ResumedOff DEF MqSendResumed
      <3>2. ASSUME NEW w \in Left(wait[t]), MqSendLoop(t, mail[t], w) PROVE MqOk
        <4>1. w \in Waits /\ mail[t] \in Mail
          <5>1. wait[t] \in Waits
            BY <2>0 DEF Parked, ThreadTypes, ThreadsTypeOK
          <5> QED BY <1>3, <2>0, <3>1, <3>2, <5>1 DEF Left, Waits, MqData
        <4>2. PICK v \in Mail : v = mail[t]
          BY <4>1
        <4>3. MqSendLoop(t, v, w)
          BY <3>2, <4>2
        <4> QED BY <1>1, <1>2, <2>0, <3>1, <4>1, <4>3, SendLoopOk
      <3>3. ASSUME error[t] # "EOK" \/ msg_queue_free = Null, Returns(t),
                   mail' = [mail EXCEPT ![t] = NoMail],
                   UNCHANGED <<chainvars, suspend, sender, msg, timer>>
            PROVE  MqOk
        <4>1. MqState(c, f)'
          BY <1>1, <1>3, <2>0, <3>1, <3>3, SendReturnKeeps
        <4>2. Parked' /\ MqLocal
          BY <1>2, <2>0, <3>1, <3>3, MqReturnOk
        <4> QED BY <4>1, <4>2 DEF MqOk, MqInv
      <3> QED BY <2>6, <3>2, <3>3 DEF MqSendResumed
    <2>7. CASE MqRecvResumed(t)
      <3>1. Off(t, "mq_recv") /\ pc[t] = "mq_recv"
        BY <1>3, <2>0, <2>7, ResumedOff DEF MqRecvResumed
      <3>2. ASSUME NEW w \in Left(wait[t]), MqRecvLoop(t, w) PROVE MqOk
        <4>1. w \in Waits
          <5>1. wait[t] \in Waits
            BY <2>0 DEF Parked, ThreadTypes, ThreadsTypeOK
          <5> QED BY <3>2, <5>1 DEF Left, Waits
        <4> QED BY <1>1, <1>2, <2>0, <3>1, <3>2, <4>1, RecvLoopOk
      <3>3. ASSUME error[t] # "EOK" \/ entry = 0, Returns(t), UNCHANGED <<mqvars, timer>>
            PROVE  MqOk
        <4>1. UNCHANGED mqvars /\ timer' = timer /\ suspend' = suspend /\ sender' = sender
          BY <3>3 DEF mqvars
        <4>2. MqState(c, f)'
          BY <1>1, <1>3, <2>0, <3>1, <3>3, <4>1, RecvReturnKeeps
        <4>3. Parked' /\ MqLocal
          BY <1>2, <2>0, <3>1, <3>3, <4>1, MqReturnOk
        <4> QED BY <4>2, <4>3 DEF MqOk, MqInv
      <3> QED BY <2>7, <3>2, <3>3 DEF MqRecvResumed
    <2> QED BY <1>4, <2>1, <2>2, <2>3, <2>4, <2>5, <2>6, <2>7 DEF MqStep
  <1>5. CASE MqIrqSend
    BY <1>1, <1>2, <1>5, MqIrqOk
  <1>6. CASE MqReset
    BY <1>1, <1>2, <1>6, MqResetOk
  <1> QED BY <1>4, <1>5, <1>6 DEF MessageStep

(* Steps of threads in other calls leave the message queue as it is.       *)
LEMMA MqFrame ==
  ASSUME MqInv, NEW C, Local(C), C \cap Calls = {}, UNCHANGED mqvars
  PROVE  MqInv'
  <1>1. PICK c, f : MqState(c, f)
    BY DEF MqInv
  <1>2. \A t \in Thread : \/ pc[t] \notin Calls /\ pc'[t] \notin Calls
                          \/ pc'[t] = pc[t] /\ error'[t] = error[t]
    BY DEF Local
  <1>3. MqState(c, f)'
    BY <1>1, <1>2, FrameKeeps
  <1> QED BY <1>3 DEF MqInv

-----------------------------------------------------------------------------
(* The objects together *)

ObjectsInv == Parked /\ EventInv /\ MqInv /\ CompletionInv /\ WqueueInv

(* Nothing of the event set changes.                                       *)
LEMMA EventFrame ==
  ASSUME EventInv, UNCHANGED eventvars
  PROVE  EventInv'
  BY DEF EventInv, EventTypeOK, NoMissedEvent, eventvars

(* Nothing of the completion changes.                                      *)
LEMMA CompletionFrame ==
  ASSUME CompletionInv, UNCHANGED completionvars
  PROVE  CompletionInv'
  BY DEF CompletionInv, completionvars

(* Every step of the event set keeps the invariant.                        *)
LEMMA EventOk ==
  ASSUME Parked, EventInv, EventStep
  PROVE  Parked' /\ EventInv' /\ EventLocal
  <1>1. UNCHANGED <<mqvars, completionvars, wqueuevars>>
    BY DEF EventStep
  <1>2. ASSUME NEW s \in (SUBSET Bit) \ {{}}, EventSend(s) PROVE Parked' /\ EventInv' /\ EventLocal
    BY <1>1, <1>2, EventSendOk
  <1>3. ASSUME NEW t \in EventUser, EventRecv(t) PROVE Parked' /\ EventInv' /\ EventLocal
    BY <1>1, <1>3, EventRecvOk
  <1>4. ASSUME NEW t \in EventUser, EventResumed(t) PROVE Parked' /\ EventInv' /\ EventLocal
    BY <1>1, <1>4, EventResumedOk
  <1>5. ASSUME EventReset PROVE Parked' /\ EventInv' /\ EventLocal
    BY <1>1, <1>5, EventResetOk
  <1>6. \/ \E s \in (SUBSET Bit) \ {{}} : EventSend(s)
        \/ \E t \in EventUser : EventRecv(t) \/ EventResumed(t)
        \/ EventReset
    BY DEF EventStep
  <1> QED BY ONLY <1>2, <1>3, <1>4, <1>5, <1>6

(* Every step of the wait queue keeps the invariant.                       *)
LEMMA WqueueOk ==
  ASSUME Parked, WqueueInv, WaitQueueStep
  PROVE  Parked' /\ WqueueInv' /\ WqueueLocal
  <1>1. UNCHANGED <<eventvars, mqvars, completionvars>>
    BY DEF WaitQueueStep
  <1>2. ASSUME NEW t \in WqUser, WqueueWait(t) PROVE Parked' /\ WqueueInv' /\ WqueueLocal
    BY <1>1, <1>2, WqueueWaitOk
  <1>3. ASSUME NEW t \in WqUser, WqueueResumed(t) PROVE Parked' /\ WqueueInv' /\ WqueueLocal
    BY <1>1, <1>3, WqueueResumedOk
  <1>4. ASSUME WqueueWakeup PROVE Parked' /\ WqueueInv' /\ WqueueLocal
    BY <1>1, <1>4, WqueueWakeupOk
  <1>5. (\E t \in WqUser : WqueueWait(t) \/ WqueueResumed(t)) \/ WqueueWakeup
    BY DEF WaitQueueStep
  <1> QED BY ONLY <1>2, <1>3, <1>4, <1>5

(* rt_thread_timeout takes a thread out of the one list it is in.          *)
LEMMA RangeRemove ==
  ASSUME NEW q \in Seq(Thread), IsInjective(q), NEW t
  PROVE  Range(RemoveFirst(q, t)) = Range(q) \ {t}
  <1>1. /\ RemoveFirst(q, t) \in Seq(Thread)
        /\ \A x : Contains(RemoveFirst(q, t), x) <=> Contains(q, x) /\ x # t
    BY RemoveContains
  <1>2. /\ \A x : x \in Range(q) <=> Contains(q, x)
        /\ \A x : x \in Range(RemoveFirst(q, t)) <=> Contains(RemoveFirst(q, t), x)
    BY <1>1, RangeContains
  <1> QED BY <1>1, <1>2

(* The list of the completion is one of threads.                           *)
LEMMA CompletionSeq ==
  ASSUME CompletionInv
  PROVE  completion \in Seq(Thread) /\ IsInjective(completion)
  <1>1. CASE completion = <<>>
    BY <1>1 DEF IsInjective
  <1>2. CASE completion = <<Waiter>>
    <2>1. <<Waiter>> \in Seq(Thread) /\ DOMAIN <<Waiter>> = {1}
      BY CompletionAssumption
    <2> QED BY <1>2, <2>1 DEF IsInjective
  <1> QED BY <1>1, <1>2 DEF CompletionInv

(* rt_thread_timeout keeps the invariant of the one object the thread      *)
(* waits for.                                                              *)
LEMMA TimeoutOk ==
  ASSUME ObjectsInv, NEW t \in Thread, Timeout(t)
  PROVE  ObjectsInv'
  <1>1. /\ t \in timer /\ error' = [error EXCEPT ![t] = "ETIMEOUT"] /\ timer' = timer \ {t}
        /\ event_wait' = RemoveFirst(event_wait, t) /\ suspend' = RemoveFirst(suspend, t)
        /\ sender' = RemoveFirst(sender, t) /\ completion' = RemoveFirst(completion, t)
        /\ polling' = polling \ {t}
        /\ pc' = pc /\ wait' = wait /\ set' = set /\ event_info' = event_info
        /\ UNCHANGED chainvars /\ mail' = mail /\ msg' = msg
        /\ completed' = completed /\ wakeup' = wakeup /\ waiting_list' = waiting_list
    BY DEF Timeout
  <1>2. PICK c, f : MqState(c, f)
    BY DEF ObjectsInv, MqInv
  <1>3. MqLists /\ MqWaiting
    BY <1>2, ListsWait DEF MqState, ObjectsInv
  <1>4. /\ event_wait \in Seq(Thread) /\ IsInjective(event_wait)
        /\ suspend \in Seq(Thread) /\ IsInjective(suspend)
        /\ sender \in Seq(Thread) /\ IsInjective(sender)
        /\ completion \in Seq(Thread) /\ IsInjective(completion)
    BY <1>3, CompletionSeq DEF MqLists, ObjectsInv, EventInv, EventTypeOK
  <1>5. ASSUME NEW d \in SleepCalls PROVE Sleepers'[d] = Sleepers[d] \ {t}
    <2>1. /\ Range(event_wait') = Range(event_wait) \ {t}
          /\ Range(suspend') = Range(suspend) \ {t}
          /\ Range(sender') = Range(sender) \ {t}
          /\ Range(completion') = Range(completion) \ {t}
      BY <1>1, <1>4, RangeRemove
    <2> QED BY <1>1, <2>1, SleepersAre, SleepersNext DEF SleepCalls
  <1>6. Parked'
    <2>1. WakesAll({t})
      BY <1>5 DEF WakesAll
    <2>2. Goes({t}, {})
      BY <1>1 DEF Goes
    <2>3. ThreadTypes'
      <3>1. /\ timer \subseteq Thread /\ error \in [Thread -> {"EOK", "ETIMEOUT", "ERROR"}]
            /\ wait \in [Thread -> Waits] /\ pc \in [Thread -> ThreadCalls]
        BY DEF ObjectsInv, Parked, ThreadTypes, ThreadsTypeOK
      <3>2. error' \in [Thread -> {"EOK", "ETIMEOUT", "ERROR"}]
        BY <1>1, <3>1
      <3> QED BY <1>1, <3>1, <3>2 DEF ThreadTypes, ThreadsTypeOK
    <2>4. Parked
      BY DEF ObjectsInv
    <2> QED BY ONLY <2>1, <2>2, <2>3, <2>4, ParkWakes, Zenon
  <1>7. EventInv'
    <2>1. /\ event_wait' \in Seq(Thread) /\ IsInjective(event_wait')
          /\ \A x : Contains(event_wait', x) <=> Contains(event_wait, x) /\ x # t
      BY <1>1, <1>4, RemoveContains
    <2>2. EventTypeOK'
      BY <1>1, <2>1 DEF ObjectsInv, EventInv, EventTypeOK
    <2>3. \A u \in Thread : Contains(event_wait', u) => ~Satisfied(event_info'[u], set')
      BY <1>1, <2>1, MissedListed DEF ObjectsInv, EventInv
    <2> QED BY <2>2, <2>3, MissedListedNext DEF EventInv
  <1>8. MqInv'
    <2>1. PICK d \in SleepCalls : t \in Sleepers[d]
      BY <1>1 DEF ObjectsInv, Parked
    <2>2. pc[t] = d
      BY <2>1 DEF ObjectsInv, Parked
    <2>3. /\ pc[t] = "mq_recv" => Contains(suspend, t)
          /\ pc[t] = "mq_send" => Contains(sender, t)
      BY <1>3, <2>1, <2>2, ListsWait DEF ObjectsInv
    <2>4. UNCHANGED <<pc, chainvars, mail, msg>>
      BY <1>1
    <2>5. MqState(c, f)'
      BY <1>1, <1>2, <1>3, <2>3, <2>4, TimeoutKeeps
    <2> QED BY <2>5 DEF MqInv
  <1>9. CompletionInv'
    <2>1. completion' \in {<<>>, completion}
      <3>1. CASE ~Contains(completion, t)
        BY <1>1, <1>4, <3>1, RemoveContains
      <3>2. CASE Contains(completion, t)
        <4>1. completion = <<Waiter>> /\ t = Waiter
          BY <3>2 DEF ObjectsInv, CompletionInv, Contains
        <4>2. \A x : Contains(completion, x) => x = t
          BY <4>1 DEF Contains
        <4>3. /\ completion' \in Seq(Thread)
              /\ \A x : Contains(completion', x) <=> Contains(completion, x) /\ x # t
          BY <1>1, <1>4, RemoveContains
        <4>4. completion' = <<>>
          BY <4>2, <4>3, EmptyContains
        <4> QED BY <4>4
      <3> QED BY <3>1, <3>2
    <2> QED BY <1>1, <2>1 DEF ObjectsInv, CompletionInv
  <1>10. WqueueInv'
    BY <1>1 DEF ObjectsInv, WqueueInv, FlagFresh
  <1> QED BY <1>6, <1>7, <1>8, <1>9, <1>10 DEF ObjectsInv

(* Every step keeps the invariant.                                         *)
LEMMA ObjectsNext ==
  ASSUME ObjectsInv, [Next]_vars
  PROVE  ObjectsInv'
  <1> USE DEF ObjectsInv
  <1>1. CASE EventStep
    <2>1. Parked' /\ EventInv' /\ EventLocal
      BY <1>1, EventOk
    <2>2. UNCHANGED mqvars /\ UNCHANGED completionvars /\ UNCHANGED wqueuevars
      BY <1>1 DEF EventStep
    <2>3. Local({"run", "event_recv"}) /\ {"run", "event_recv"} \cap Calls = {}
      BY <2>1 DEF EventLocal, Calls
    <2>4. MqInv' /\ WqueueInv'
      BY <2>2, <2>3, MqFrame, WqueueFrame
    <2> QED BY <2>1, <2>2, <2>4, CompletionFrame
  <1>2. CASE MessageStep
    <2>1. Parked' /\ MqInv' /\ MqLocal
      BY <1>2, MessageOk DEF MqOk
    <2>2. UNCHANGED eventvars /\ UNCHANGED completionvars /\ UNCHANGED wqueuevars
      BY <1>2 DEF MessageStep
    <2>3. Local(Calls \cup {"run"}) /\ "wqueue_wait" \notin Calls \cup {"run"}
      BY <2>1 DEF MqLocal, Calls
    <2>4. WqueueInv'
      BY <2>2, <2>3, WqueueFrame
    <2> QED BY <2>1, <2>2, <2>4, EventFrame, CompletionFrame
  <1>3. CASE CompletionStep
    <2>1. Parked' /\ CompletionInv' /\ CompletionLocal
      BY <1>3, CompletionOk
    <2>2. UNCHANGED mqvars /\ UNCHANGED eventvars /\ UNCHANGED wqueuevars
      BY <1>3 DEF CompletionStep
    <2>3. Local({"run", "completion_wait"}) /\ {"run", "completion_wait"} \cap Calls = {}
      BY <2>1 DEF CompletionLocal, Calls
    <2>4. MqInv' /\ WqueueInv'
      BY <2>2, <2>3, MqFrame, WqueueFrame
    <2> QED BY <2>1, <2>2, <2>4, EventFrame
  <1>4. CASE WaitQueueStep
    <2>1. Parked' /\ WqueueInv' /\ WqueueLocal
      BY <1>4, WqueueOk
    <2>2. UNCHANGED mqvars /\ UNCHANGED eventvars /\ UNCHANGED completionvars
      BY <1>4 DEF WaitQueueStep
    <2>3. Local({"run", "wqueue_wait"}) /\ {"run", "wqueue_wait"} \cap Calls = {}
      BY <2>1 DEF WqueueLocal, Calls
    <2>4. MqInv'
      BY <2>2, <2>3, MqFrame
    <2> QED BY <2>1, <2>2, <2>4, EventFrame, CompletionFrame
  <1>5. CASE \E t \in Thread : Timeout(t)
    BY <1>5, TimeoutOk
  <1>6. CASE UNCHANGED vars
    <2>1. /\ UNCHANGED threads /\ UNCHANGED eventvars /\ UNCHANGED mqvars
          /\ UNCHANGED completionvars /\ UNCHANGED wqueuevars
      BY <1>6 DEF vars
    <2>2. Local({}) /\ {} \cap Calls = {} /\ "wqueue_wait" \notin {}
      BY <2>1 DEF Local, threads
    <2>3. MqInv' /\ WqueueInv'
      BY <2>1, <2>2, MqFrame, WqueueFrame
    <2>4. Parked'
      BY <2>1 DEF Parked, ThreadTypes, ThreadsTypeOK, Sleepers, threads, eventvars, mqvars,
                  completionvars, wqueuevars
    <2> QED BY <2>1, <2>3, <2>4, EventFrame, CompletionFrame
  <1> QED BY <1>1, <1>2, <1>3, <1>4, <1>5, <1>6 DEF Next

(* The objects are created without waiters, with all slots free.           *)
LEMMA ObjectsInit == Init => ObjectsInv
  <1> SUFFICES ASSUME Init PROVE ObjectsInv
    OBVIOUS
  <1>1. /\ timer = {} /\ error = [t \in Thread |-> "EOK"] /\ pc = [t \in Thread |-> "run"]
        /\ wait = [t \in Thread |-> "none"]
    BY DEF Init, ThreadsInit
  <1>2. /\ event_wait = <<>> /\ completion = <<>> /\ polling = {} /\ waiting_list = <<>>
        /\ wakeup = FALSE /\ completed = FALSE
    BY DEF Init, EventInit, CompletionInit, WqueueInit
  <1>3. MqInv /\ suspend = <<>> /\ sender = <<>>
    <2>1. MqInit /\ \A t \in Thread : pc[t] = "run"
      BY <1>1 DEF Init
    <2> QED BY <2>1, MqInitState DEF MqInv, MqInit
  <1>4. EventInv
    BY DEF Init, EventInit, EventInv, EventTypeOK, NoMissedEvent, IsInjective, NoInfo
  <1>5. CompletionInv /\ WqueueInv
    <2>1. CompletionInv
      BY <1>2 DEF CompletionInv
    <2>2. <<>> \in Seq(WqUser) /\ \A i \in 1 .. Len(<<>>) : FALSE
      OBVIOUS
    <2>3. DOMAIN <<>> = 1 .. Len(<<>>)
      OBVIOUS
    <2>4. IsInjective(<<>>)
      BY <2>2, <2>3 DEF IsInjective
    <2>5. \A t \in WqUser : ~Contains(<<>>, t)
      BY <2>2, <2>3 DEF Contains
    <2>6. FlagFresh
      BY <1>2 DEF FlagFresh
    <2> QED BY <1>2, <2>1, <2>2, <2>4, <2>5, <2>6 DEF WqueueInv
  <1>6. Parked
    <2>1. \A c \in SleepCalls : Sleepers[c] = {}
      BY <1>2, <1>3, SleepersAre DEF SleepCalls, Range
    <2>2. ThreadTypes
      BY <1>1 DEF ThreadTypes, ThreadsTypeOK, ThreadCalls, Waits
    <2> QED BY <1>1, <2>1, <2>2 DEF Parked
  <1> QED BY <1>3, <1>4, <1>5, <1>6 DEF ObjectsInv

(* The invariant implies what the runs check.                              *)
LEMMA ObjectsFacts == ObjectsInv => WaitersExact /\ NoLostWakeups /\ SlotsPartitioned
  <1> SUFFICES ASSUME ObjectsInv PROVE WaitersExact /\ NoLostWakeups /\ SlotsPartitioned
    OBVIOUS
  <1>1. MqTypeOK /\ SlotsPartitioned /\ MqNoLostWakeup
    BY StateFacts DEF ObjectsInv, MqInv
  <1>2. CompletionTypeOK /\ NoIdleCompletion
    BY CompletionIs DEF ObjectsInv
  <1>3. WqueueTypeOK /\ NodesLive /\ FlagFresh
    BY WqueueIs DEF ObjectsInv
  <1>4. EventTypeOK /\ NoMissedEvent
    BY DEF ObjectsInv, EventInv
  <1>5. TypeOK
    BY <1>1, <1>2, <1>3, <1>4 DEF ObjectsInv, Parked, ThreadTypes, ThreadCalls, TypeOK
  <1>6. OneListAtATime
    <2>1. DOMAIN Sleepers = SleepCalls
      BY SleepersAre
    <2>2. \A c \in SleepCalls : \A t \in Sleepers[c] : pc[t] = c
      BY DEF ObjectsInv, Parked
    <2>3. \A t \in timer : wait[t] = "ticks" /\ \E c \in SleepCalls : t \in Sleepers[c]
      BY DEF ObjectsInv, Parked
    <2> QED BY <2>1, <2>2, <2>3 DEF OneListAtATime, ListedIn
  <1> QED BY <1>1, <1>2, <1>3, <1>4, <1>5, <1>6 DEF WaitersExact, NoLostWakeups

(* The inductive invariant of the objects of ipc.c and completion.c.       *)
THEOREM ObjectsAlways == Spec => []ObjectsInv
  BY ObjectsInit, ObjectsNext, PTL DEF Spec

(* Whatever finite set of threads calls the event set, the message queue,  *)
(* the completion and the wait queue, a thread sleeps in the call it is in *)
(* and in no other, and a running thread_timer belongs to that wait.       *)
THEOREM ObjectsWaiters == Spec => []WaitersExact
  BY ObjectsAlways, ObjectsFacts, PTL

(* No thread sleeps beside what it waits for: a satisfied event, a message *)
(* or free slot that no resumed thread is on its way to, a completion that *)
(* is done, a wake-up nobody answers.                                      *)
THEOREM ObjectsWakeups == Spec => []NoLostWakeups
  BY ObjectsAlways, ObjectsFacts, PTL

(* A message slot is in the chain, in the free list or with one call that  *)
(* has taken it, for any pool: rt_mq_send_wait, rt_mq_urgent, rt_mq_recv   *)
(* and rt_mq_control never lose or share one.                              *)
THEOREM SlotsAlwaysPartitioned == Spec => []SlotsPartitioned
  BY ObjectsAlways, ObjectsFacts, PTL

-----------------------------------------------------------------------------
(* Who is served *)

(* A step that serves nobody and leaves the waiters' requests alone        *)
LEMMA ServesNobody ==
  ASSUME EventInv, EventInv', \A t \in Thread : ~ServedNow(t),
         \A t \in Thread : Contains(event_wait, t) => event_info'[t] = event_info[t]
  PROVE  TakenOnceNow /\ ListOrderNow
  <1>1. TakenOnceNow
    BY DEF TakenOnceNow, ClearsNow
  <1>2. OfferedNow = set'
    BY DEF OfferedNow
  <1>3. ASSUME NEW i \in DOMAIN event_wait, Contains(event_wait', event_wait[i])
        PROVE  ~Satisfied(event_info[event_wait[i]], set')
    <2> DEFINE t == event_wait[i]
    <2>1. t \in Thread /\ Contains(event_wait, t)
      BY <1>3 DEF EventInv, EventTypeOK, Contains
    <2>2. PICK j \in DOMAIN event_wait' : event_wait'[j] = t
      <3>1. DOMAIN event_wait' = 1 .. Len(event_wait')
        BY DEF EventInv, EventTypeOK
      <3> QED BY <1>3, <3>1 DEF Contains
    <2>3. ~Satisfied(event_info'[t], set')
      BY <2>2 DEF EventInv, NoMissedEvent
    <2> QED BY <2>1, <2>3
  <1> QED BY <1>1, <1>2, <1>3 DEF ListOrderNow

(* A send serves the threads the walk has removed.                         *)
LEMMA ServesWalked ==
  ASSUME Parked, EventInv, NEW s \in SUBSET Bit, EventSend(s)
  PROVE  TakenOnceNow /\ ListOrderNow
  <1> DEFINE z == set \cup s
             w == Walk(z)
             n == Len(event_wait)
             Cleared(t) == t \in DOMAIN w.got /\ event_info[t].clear
  <1>1. PICK got : Serves(s, got)
    BY SendServes DEF EventInv
  <1>2. /\ got = w.got /\ Walked(w, z, n) /\ set' = w.set /\ error' = error
        /\ \A x : Contains(event_wait', x) <=> Contains(event_wait, x) /\ x \notin DOMAIN got
        /\ DOMAIN got \subseteq {t \in Thread : Contains(event_wait, t)}
        /\ \A t \in DOMAIN got : event_info'[t].set = got[t]
    BY <1>1 DEF Serves, EventSend
  <1>3. DOMAIN event_wait = 1 .. n /\ \A i \in 1 .. n : event_wait[i] \in Thread
    BY DEF EventInv, EventTypeOK
  <1> HIDE DEF w
  <1>4. ASSUME NEW t \in Thread PROVE ServedNow(t) <=> t \in DOMAIN w.got
    <2>1. Contains(event_wait, t) => error[t] = "EOK"
      <3>1. Contains(event_wait, t) => t \in Sleepers["event_recv"]
        BY RangeContains, SleepersAre DEF EventInv, EventTypeOK
      <3> QED BY <3>1 DEF Parked, SleepCalls
    <2> QED BY <1>2, <2>1 DEF ServedNow
  <1>5. \A t \in Thread : ClearsNow(t) <=> Cleared(t)
    BY <1>4 DEF ClearsNow
  <1>6. TakenOnceNow
    <2> SUFFICES ASSUME NEW t \in Thread, ClearsNow(t)
                 PROVE  /\ event_info'[t].set \cap set' = {}
                        /\ \A u \in Thread \ {t} :
                             ClearsNow(u) => event_info'[t].set \cap event_info'[u].set = {}
      BY DEF TakenOnceNow
    <2>1. /\ w.got[t] \cap w.set = {}
          /\ \A u \in Thread \ {t} : Cleared(u) => w.got[t] \cap w.got[u] = {}
      BY <1>2, <1>5 DEF Walked
    <2> QED BY <1>2, <1>5, <2>1
  <1>7. OfferedNow \subseteq z
    <2>1. w.set \subseteq z /\ \A t \in DOMAIN w.got : w.got[t] \subseteq z
      BY <1>2 DEF Walked
    <2> QED BY <1>2, <1>4, <2>1 DEF OfferedNow
  <1>8. ASSUME NEW i \in 1 .. n, Contains(event_wait', event_wait[i]),
               Satisfied(event_info[event_wait[i]], OfferedNow)
        PROVE  \E j \in 1 .. i - 1 :
                 /\ ClearsNow(event_wait[j])
                 /\ event_info'[event_wait[j]].set \cap event_info[event_wait[i]].set # {}
    <2>1. event_wait[i] \notin DOMAIN w.got /\ Satisfied(event_info[event_wait[i]], z)
      BY <1>2, <1>7, <1>8, SatisfiedMonotone
    <2>2. PICK j \in 1 .. i - 1 :
            /\ Cleared(event_wait[j])
            /\ w.got[event_wait[j]] \cap event_info[event_wait[i]].set # {}
      BY <1>2, <2>1 DEF Walked
    <2>3. event_wait[j] \in Thread /\ event_info'[event_wait[j]].set = w.got[event_wait[j]]
      BY <1>2, <2>2
    <2> QED BY <1>5, <2>2, <2>3
  <1>9. ListOrderNow
    BY <1>3, <1>8 DEF ListOrderNow
  <1> QED BY <1>6, <1>9

(* Only rt_event_send serves waiters, and it does so in order.             *)
LEMMA ServedSteps ==
  ASSUME ObjectsInv, [Next]_vars
  PROVE  (TakenOnceNow /\ ListOrderNow) \/ UNCHANGED eventvars
  <1> DEFINE Goal == (TakenOnceNow /\ ListOrderNow) \/ UNCHANGED eventvars
  <1>1. ObjectsInv' /\ Parked /\ EventInv /\ EventInv'
    BY ObjectsNext DEF ObjectsInv
  <1>2. \A t : Contains(event_wait, t) => t \in Thread /\ pc[t] = "event_recv"
    <2>1. \A x : x \in Range(event_wait) <=> Contains(event_wait, x)
      BY <1>1, RangeContains DEF EventInv, EventTypeOK
    <2> QED BY <1>1, <2>1, SleepersAre DEF Parked, SleepCalls
  <1>3. DOMAIN event_info = Thread /\ DOMAIN error = Thread
    BY <1>1 DEF EventInv, EventTypeOK, Parked, ThreadTypes, ThreadsTypeOK
  <1>4. ASSUME NEW s \in (SUBSET Bit) \ {{}}, EventSend(s) PROVE Goal
    BY <1>1, <1>4, ServesWalked
  <1>5. ASSUME NEW t \in EventUser, EventRecv(t) PROVE Goal
    <2>1. pc[t] = "run" /\ t \in Thread
      BY <1>5, EventAssumption DEF EventRecv
    <2>2. \A u \in Thread : u # t => event_info'[u] = event_info[u]
      BY <1>3, <1>5 DEF EventRecv
    <2>3. \A u \in Thread : Contains(event_wait, u) => Contains(event_wait', u)
      <3>1. CASE event_wait' = event_wait
        BY <3>1
      <3>2. CASE event_wait' = ListSuspend(event_wait, t, Flag, Prio)
        <4>1. ~Contains(event_wait, t) /\ event_wait \in Seq(Thread) /\ IsInjective(event_wait)
          BY <1>1, <1>2, <2>1 DEF EventInv, EventTypeOK
        <4>2. \A x : Contains(event_wait', x) <=> Contains(event_wait, x) \/ x = t
          BY <2>1, <3>2, <4>1, ListSuspendContains, Zenon
        <4> QED BY <4>2
      <3> QED BY <1>5, <3>1, <3>2 DEF EventRecv
    <2> QED BY <1>1, <1>2, <2>1, <2>2, <2>3, ServesNobody DEF ServedNow
  <1>6. ASSUME NEW t \in EventUser, EventResumed(t) PROVE Goal
    <2>1. ~Contains(event_wait, t) /\ event_wait' = event_wait
          /\ event_info' = [event_info EXCEPT ![t] = NoInfo]
      BY <1>6 DEF EventResumed
    <2>2. \A u \in Thread : Contains(event_wait, u) => event_info'[u] = event_info[u]
      BY <1>3, <2>1
    <2> QED BY <1>1, <2>1, <2>2, ServesNobody DEF ServedNow
  <1>7. ASSUME EventReset PROVE Goal
    <2>1. event_info' = event_info
          /\ error' = [t \in Thread |-> IF t \in Range(event_wait) THEN "ERROR" ELSE error[t]]
      BY <1>7 DEF EventReset, ResumeAll
    <2>2. \A x : x \in Range(event_wait) <=> Contains(event_wait, x)
      BY <1>1, RangeContains DEF EventInv, EventTypeOK
    <2>3. \A t \in Thread : ~ServedNow(t)
      BY <2>1, <2>2 DEF ServedNow
    <2> QED BY <1>1, <2>1, <2>3, ServesNobody
  <1>8. ASSUME NEW t \in Thread, Timeout(t) PROVE Goal
    <2>1. /\ event_info' = event_info /\ event_wait' = RemoveFirst(event_wait, t)
          /\ error' = [error EXCEPT ![t] = "ETIMEOUT"]
      BY <1>8 DEF Timeout
    <2>2. event_wait \in Seq(Thread) /\ IsInjective(event_wait)
      BY <1>1 DEF EventInv, EventTypeOK
    <2>3. \A x : Contains(event_wait', x) <=> Contains(event_wait, x) /\ x # t
      BY <2>1, <2>2, RemoveContains
    <2>4. \A u \in Thread : ~ServedNow(u)
      BY <1>3, <2>1, <2>3 DEF ServedNow
    <2> QED BY <1>1, <2>1, <2>4, ServesNobody
  <1>9. CASE EventStep
    BY <1>4, <1>5, <1>6, <1>7, <1>9 DEF EventStep
  <1>10. CASE UNCHANGED eventvars
    BY <1>10
  <1> HIDE DEF Goal
  <1>11. EventStep \/ UNCHANGED eventvars \/ \E t \in Thread : Timeout(t)
    BY DEF Next, vars, MessageStep, CompletionStep, WaitQueueStep
  <1> QED BY <1>8, <1>9, <1>10, <1>11 DEF Goal

(* rt_event_send serves its waiters in the order of the list, and an event *)
(* that one of them clears goes to no other that does and is no longer     *)
(* set, for any events and any finite set of waiters.                      *)
THEOREM EventsInOrder == Spec => EventsServedInOrder
  <1>1. ObjectsInv /\ [Next]_vars => [TakenOnceNow]_eventvars /\ [ListOrderNow]_eventvars
    BY ServedSteps
  <1> QED BY <1>1, ObjectsAlways, PTL
      DEF Spec, EventsServedInOrder, EventTakenOnce, EventInListOrder

-----------------------------------------------------------------------------
(* The message queue implements MessageFifo *)

(* What MessageQueue's instance of MessageFifo puts for queue and pending  *)
MqQueue   == [i \in 1 .. Len(Chain) |-> content[Chain[i]]]
MqPending == [t \in Thread |-> IF pc[t] = "mq_copy" THEN content[msg[t]] ELSE NoMail]

Mails(q, mails) == [i \in 1 .. Len(q) |-> mails[q[i]]]

Copying == {t \in Thread : pc[t] = "mq_copy"}

FifoStep == Abstract!MessageNext \/ UNCHANGED Abstract!messagevars

(* A receiver that copies goes on with the slot it has.                    *)
SameCopies ==
  \A u \in Thread : /\ pc'[u] = "mq_copy" <=> pc[u] = "mq_copy"
                    /\ pc[u] = "mq_copy" => msg'[u] = msg[u]

(* The queue of MessageFifo is what the slots of the chain hold.           *)
LEMMA QueueIs ==
  ASSUME NEW c, NEW f, MqState(c, f)
  PROVE  MqQueue = Mails(c, content)
  BY StateChains DEF MqQueue, Mails

(* The same in the next state.                                             *)
LEMMA QueueNext ==
  ASSUME NEW c, NEW f, MqState(c, f)'
  PROVE  MqQueue' = Mails(c, content')
  <1>1. next' \in Links /\ Path(next', msg_queue_head', c)
    BY DEF MqState, Queued
  <1>2. ChainFrom(next', msg_queue_head') = c
    BY <1>1, PathChain
  <1>3. Chain' = c
    BY <1>2 DEF Chain
  <1> QED BY <1>3 DEF MqQueue, Mails

(* Nothing is linked, taken off the chain or given to a receiver.          *)
LEMMA FifoQuiet ==
  ASSUME UNCHANGED <<next, content, msg_queue_head>>, SameCopies
  PROVE  FifoStep
  <1>1. Chain' = Chain
    BY DEF Chain
  <1>2. MqQueue' = MqQueue
    BY <1>1 DEF MqQueue
  <1>3. MqPending' = MqPending
    BY DEF MqPending, SameCopies
  <1> QED BY <1>2, <1>3 DEF FifoStep, Abstract!messagevars, MqQueue, MqPending

(* The messages that receivers copy are still in their slots.              *)
LEMMA CopyingIs ==
  ASSUME NEW c, NEW f, MqState(c, f)
  PROVE  /\ {t \in Thread : MqPending[t] # NoMail} = Copying
         /\ \A t \in Thread : MqPending[t] # NoMail <=> pc[t] = "mq_copy"
         /\ Copying \subseteq Holders /\ IsFiniteSet(Copying) /\ IsFiniteSet(Holders)
         /\ Cardinality(Copying) \in Nat /\ Cardinality(Holders) \in Nat
  <1>1. \A t \in Thread : pc[t] = "mq_copy" => content[msg[t]] # NoMail
    BY MessageQueueAssumption DEF MqState, MqData
  <1>2. \A t \in Thread : MqPending[t] # NoMail <=> pc[t] = "mq_copy"
    BY <1>1 DEF MqPending
  <1>3. Copying \subseteq Holders /\ Holders \subseteq Thread
    BY DEF Copying, Holders, Holds
  <1>4. IsFiniteSet(Copying) /\ IsFiniteSet(Holders)
    BY <1>3, ThreadsAssumption, FS_Subset
  <1> QED BY <1>2, <1>3, <1>4, FS_CardinalityType DEF Copying

(* There is room while a slot is free or with a sender.                    *)
LEMMA RoomLeft ==
  ASSUME NEW c, NEW f, MqState(c, f),
         f # <<>> \/ \E t \in Thread : Holds(t) /\ pc[t] # "mq_copy"
  PROVE  Abstract!Room
  <1> DEFINE A == Copying
             B == Holders
             N == Cardinality(Slot)
  <1>1. /\ A \subseteq B /\ IsFiniteSet(A) /\ IsFiniteSet(B)
        /\ Cardinality(A) \in Nat /\ Cardinality(B) \in Nat
    BY CopyingIs
  <1>2. Cardinality(B) + Len(c) + Len(f) = N /\ N \in Nat
    BY SlotSum, SlotCount
  <1>3. Len(c) \in Nat /\ Len(f) \in Nat /\ (f # <<>> => Len(f) >= 1)
    BY MqSeqs, EmptyLen
  <1>4. Cardinality(A) <= Cardinality(B)
    BY <1>1, FS_Subset
  <1>5. ASSUME NEW t \in Thread, Holds(t), pc[t] # "mq_copy"
        PROVE  Cardinality(A) + 1 <= Cardinality(B)
    <2>1. t \notin A /\ t \in B
      BY <1>5 DEF Copying, Holders
    <2> HIDE DEF A, B
    <2> QED BY <1>1, <2>1, CardGrow
  <1>6. Len(c) + Cardinality(A) < N
    <2> HIDE DEF A, B, N
    <2>1. CASE f # <<>>
      BY <1>1, <1>2, <1>3, <1>4, <2>1
    <2>2. CASE \E t \in Thread : Holds(t) /\ pc[t] # "mq_copy"
      BY <1>1, <1>2, <1>3, <1>5, <2>2
    <2> QED BY <2>1, <2>2
  <1>7. Len(MqQueue) = Len(c) /\ {t \in Thread : MqPending[t] # NoMail} = A
    <2>1. Len(Mails(c, content)) = Len(c)
      BY <1>3 DEF Mails
    <2> QED BY <2>1, QueueIs, CopyingIs
  <1>8. Len(MqQueue) + Cardinality({t \in Thread : MqPending[t] # NoMail}) < Cardinality(Slot)
    BY <1>6, <1>7
  <1>9. \A S : Abstract!Cardinality(S) = Cardinality(S)
    BY DEF Abstract!Cardinality, Cardinality
  <1> QED BY ONLY <1>8, <1>9, Zenon DEF Abstract!Room, MqQueue, MqPending

(* A mail for each slot of the chain                                       *)
LEMMA MailsAre ==
  ASSUME NEW c \in Seq(Slot), NEW mails \in [Slot -> Mail \cup {NoMail}]
  PROVE  /\ Mails(c, mails) \in Seq(Mail \cup {NoMail}) /\ Len(Mails(c, mails)) = Len(c)
         /\ DOMAIN Mails(c, mails) = 1 .. Len(c)
         /\ \A i \in 1 .. Len(c) : Mails(c, mails)[i] = mails[c[i]]
  BY DEF Mails

Filled(after, mails, m, v) == after = [mails EXCEPT ![m] = v]

(* The slot m is filled with v and linked: v is the last, or the first.    *)
LEMMA MailsLinked ==
  ASSUME NEW c \in Seq(Slot), NEW m \in Slot, ~Contains(c, m), NEW v \in Mail,
         NEW mails \in [Slot -> Mail \cup {NoMail}], NEW after, Filled(after, mails, m, v)
  PROVE  /\ Mails(Append(c, m), after) = Append(Mails(c, mails), v)
         /\ Mails(<<m>> \o c, after) = <<v>> \o Mails(c, mails)
  <1> DEFINE n == Len(c)
             M == Mails(c, mails)
             V == Mail \cup {NoMail}
  <1>1. n \in Nat /\ DOMAIN c = 1 .. n /\ \A i \in 1 .. n : c[i] \in Slot /\ c[i] # m
    BY DEF Contains
  <1>2. after \in [Slot -> V] /\ after[m] = v /\ \A s \in Slot : s # m => after[s] = mails[s]
    BY DEF Filled
  <1>3. M \in Seq(V) /\ Len(M) = n /\ \A i \in 1 .. n : M[i] = mails[c[i]]
    BY MailsAre
  <1> HIDE DEF M
  <1>4. Mails(Append(c, m), after) = Append(M, v)
    <2> DEFINE q == Append(c, m)
               L == Mails(q, after)
               R == Append(M, v)
    <2>1. /\ q \in Seq(Slot) /\ Len(q) = n + 1 /\ q[n + 1] = m /\ \A i \in 1 .. n : q[i] = c[i]
      BY <1>1
    <2>2. R \in Seq(V) /\ Len(R) = n + 1 /\ R[n + 1] = v /\ \A i \in 1 .. n : R[i] = M[i]
      BY <1>1, <1>3
    <2>3. L \in Seq(V) /\ Len(L) = n + 1 /\ \A i \in 1 .. n + 1 : L[i] = after[q[i]]
      <3>1. L \in Seq(V) /\ Len(L) = Len(q) /\ \A i \in 1 .. Len(q) : L[i] = after[q[i]]
        BY <1>2, <2>1, MailsAre, Zenon
      <3> QED BY ONLY <2>1, <3>1
    <2> HIDE DEF q, L, R
    <2>4. ASSUME NEW i \in 1 .. n + 1 PROVE L[i] = R[i]
      <3>1. CASE i = n + 1
        BY <1>2, <2>1, <2>2, <2>3, <3>1
      <3>2. CASE i \in 1 .. n
        BY <1>1, <1>2, <1>3, <2>1, <2>2, <2>3, <3>2
      <3> QED BY <1>1, <3>1, <3>2
    <2> QED BY <2>2, <2>3, <2>4, SeqEqual DEF L, R, q
  <1>5. Mails(<<m>> \o c, after) = <<v>> \o M
    <2> DEFINE q == <<m>> \o c
               L == Mails(q, after)
               R == <<v>> \o M
    <2>1. /\ q \in Seq(Slot) /\ Len(q) = n + 1 /\ q[1] = m /\ \A i \in 2 .. n + 1 : q[i] = c[i - 1]
      BY <1>1
    <2>2. R \in Seq(V) /\ Len(R) = n + 1 /\ R[1] = v /\ \A i \in 2 .. n + 1 : R[i] = M[i - 1]
      BY <1>1, <1>3
    <2>3. L \in Seq(V) /\ Len(L) = n + 1 /\ \A i \in 1 .. n + 1 : L[i] = after[q[i]]
      <3>1. L \in Seq(V) /\ Len(L) = Len(q) /\ \A i \in 1 .. Len(q) : L[i] = after[q[i]]
        BY <1>2, <2>1, MailsAre, Zenon
      <3> QED BY ONLY <2>1, <3>1
    <2> HIDE DEF q, L, R
    <2>4. ASSUME NEW i \in 1 .. n + 1 PROVE L[i] = R[i]
      <3>1. CASE i = 1
        BY <1>1, <1>2, <2>1, <2>2, <2>3, <3>1
      <3>2. CASE i \in 2 .. n + 1
        <4>1. i - 1 \in 1 .. n
          BY <1>1, <3>2
        <4>2. L[i] = after[c[i - 1]] /\ R[i] = M[i - 1]
          BY <2>1, <2>2, <2>3, <3>2
        <4>3. after[c[i - 1]] = mails[c[i - 1]] /\ M[i - 1] = mails[c[i - 1]]
          BY <1>1, <1>2, <1>3, <4>1
        <4> QED BY <4>2, <4>3
      <3> QED BY <1>1, <3>1, <3>2
    <2> QED BY <2>2, <2>3, <2>4, SeqEqual DEF L, R, q
  <1> QED BY <1>4, <1>5 DEF M

(* rt_mq_send_wait and rt_mq_urgent link the slot they have filled.        *)
LEMMA FifoLinks ==
  ASSUME NEW c, NEW f, MqState(c, f), NEW c2, NEW f2, MqState(c2, f2)',
         NEW m \in Slot, ~Contains(c, m), NEW v \in Mail, Linked(c, c2, m, v), SameCopies,
         \A u \in Thread : pc[u] = "mq_copy" => msg[u] \in Slot /\ msg[u] # m, Abstract!Room
  PROVE  FifoStep
  <1>1. c \in Seq(Slot) /\ content \in [Slot -> Mail \cup {NoMail}]
    BY MqSeqs DEF MqState, MqData
  <1>2. content' = [content EXCEPT ![m] = v]
    BY DEF Linked, Link, LinkHead
  <1>f. Filled(content', content, m, v)
    BY <1>2 DEF Filled
  <1>3. /\ Mails(Append(c, m), content') = Append(Mails(c, content), v)
        /\ Mails(<<m>> \o c, content') = <<v>> \o Mails(c, content)
    BY ONLY <1>1, <1>f, MailsLinked, m \in Slot, v \in Mail, ~Contains(c, m), ZenonT(60)
  <1>4. MqQueue = Mails(c, content) /\ MqQueue' = Mails(c2, content')
    BY QueueIs, QueueNext
  <1>5. MqPending' = MqPending
    BY <1>1, <1>2 DEF MqPending, SameCopies
  <1>6. MqQueue' = Append(MqQueue, v) \/ MqQueue' = <<v>> \o MqQueue
    BY <1>3, <1>4 DEF Linked
  <1>7. Abstract!Queue(v) \/ Abstract!Urgent(v)
    BY <1>5, <1>6 DEF Abstract!Queue, Abstract!Urgent, MqQueue, MqPending
  <1> QED BY <1>7 DEF FifoStep, Abstract!MessageNext

(* rt_mq_recv takes the first message off the chain.                       *)
LEMMA FifoTakes ==
  ASSUME NEW c, NEW f, MqState(c, f), MqWaiting, NEW t \in Thread, pc[t] \in {"run", "mq_recv"},
         TakeFirst(t)
  PROVE  FifoStep
  <1>1. c # <<>> /\ msg_queue_head = Head(c) /\ MqState(Tail(c), f)'
    BY TakeFirstKeeps
  <1>2. MqQueue = Mails(c, content) /\ MqQueue' = Mails(Tail(c), content')
    BY <1>1, QueueIs, QueueNext
  <1>3. /\ msg' = [msg EXCEPT ![t] = msg_queue_head] /\ pc' = [pc EXCEPT ![t] = "mq_copy"]
        /\ content' = content
    BY DEF TakeFirst, GoesOn
  <1>4. c \in Seq(Slot) /\ content \in [Slot -> Mail \cup {NoMail}]
        /\ msg \in [Thread -> Slot \cup {Null}] /\ DOMAIN pc = Thread
    BY MqSeqs DEF MqState, MqData, MqWaiting
  <1>5. MqQueue # <<>> /\ Head(MqQueue) = content[Head(c)] /\ MqQueue' = Tail(MqQueue)
    <2> DEFINE M == Mails(c, content)
               d == Tail(c)
               V == Mail \cup {NoMail}
    <2>1. M \in Seq(V) /\ Len(M) = Len(c) /\ \A i \in 1 .. Len(c) : M[i] = content[c[i]]
      BY <1>4, MailsAre
    <2>2. Len(c) \in Nat /\ Len(c) >= 1 /\ Head(c) = c[1]
      BY <1>1, <1>4
    <2>3. d \in Seq(Slot) /\ Len(d) = Len(c) - 1 /\ \A i \in 1 .. Len(c) - 1 : d[i] = c[i + 1]
      BY <1>1, <1>4
    <2>4. /\ Mails(d, content) \in Seq(V) /\ Len(Mails(d, content)) = Len(d)
          /\ \A i \in 1 .. Len(d) : Mails(d, content)[i] = content[d[i]]
      BY <1>4, <2>3, MailsAre
    <2> HIDE DEF M, d
    <2>5. M # <<>> /\ Head(M) = content[c[1]]
      BY <2>1, <2>2
    <2>6. /\ Tail(M) \in Seq(V) /\ Len(Tail(M)) = Len(c) - 1
          /\ \A i \in 1 .. Len(c) - 1 : Tail(M)[i] = M[i + 1]
      BY <2>1, <2>2, <2>5
    <2>7. ASSUME NEW i \in 1 .. Len(c) - 1 PROVE Mails(d, content)[i] = Tail(M)[i]
      <3>1. i \in 1 .. Len(c) /\ i + 1 \in 1 .. Len(c)
        BY <2>2
      <3> QED BY <2>1, <2>3, <2>4, <2>6, <3>1
    <2>8. Mails(d, content) = Tail(M)
      BY <2>3, <2>4, <2>6, <2>7, SeqEqual
    <2> QED BY <1>2, <1>3, <2>2, <2>5, <2>8 DEF M, d
  <1>6. MqPending[t] = NoMail
    BY DEF MqPending
  <1>7. MqPending' = [MqPending EXCEPT ![t] = Head(MqQueue)]
    BY <1>1, <1>3, <1>4, <1>5 DEF MqPending
  <1>8. Abstract!Take(t)
    BY <1>5, <1>6, <1>7 DEF Abstract!Take, MqQueue, MqPending
  <1> QED BY <1>8 DEF FifoStep, Abstract!MessageNext

(* The receiver has its message.                                           *)
LEMMA FifoDelivers ==
  ASSUME NEW c, NEW f, MqState(c, f), MqWaiting, NEW t \in Thread, MqCopy(t)
  PROVE  FifoStep
  <1>1. PICK m : m = msg[t]
    OBVIOUS
  <1>2. MqState(c, <<m>> \o f)'
    BY <1>1, CopyKeeps
  <1>3. MqQueue = Mails(c, content) /\ MqQueue' = Mails(c, content')
    BY <1>2, QueueIs, QueueNext
  <1>4. /\ pc[t] = "mq_copy" /\ pc' = [pc EXCEPT ![t] = "run"] /\ msg' = [msg EXCEPT ![t] = Null]
        /\ content' = [content EXCEPT ![m] = NoMail]
    BY <1>1 DEF MqCopy, Returns, GoesOn
  <1>5. /\ c \in Seq(Slot) /\ content \in [Slot -> Mail \cup {NoMail}]
        /\ msg \in [Thread -> Slot \cup {Null}] /\ DOMAIN pc = Thread
    BY MqSeqs DEF MqState, MqData, MqWaiting
  <1>6. /\ m \in Slot /\ ~Contains(c, m)
        /\ \A u \in Thread : pc[u] = "mq_copy" /\ u # t => msg[u] # m
    BY <1>1, <1>4 DEF MqState, Hands, Holds
  <1>7. MqQueue' = MqQueue
    <2>1. \A i \in 1 .. Len(c) : c[i] \in Slot /\ c[i] # m
      BY <1>5, <1>6 DEF Contains
    <2>2. \A i \in 1 .. Len(c) : content'[c[i]] = content[c[i]]
      BY <1>4, <1>5, <2>1
    <2> QED BY <1>3, <2>2 DEF Mails
  <1>8. MqPending[t] # NoMail
    BY <1>4, CopyingIs
  <1>9. MqPending' = [MqPending EXCEPT ![t] = NoMail]
    <2>1. \A u \in Thread : u # t => MqPending'[u] = MqPending[u]
      BY <1>4, <1>5, <1>6 DEF MqPending
    <2>2. MqPending'[t] = NoMail
      BY <1>4, <1>5 DEF MqPending
    <2> QED BY <2>1, <2>2 DEF MqPending
  <1>10. Abstract!Deliver(t)
    BY <1>7, <1>8, <1>9 DEF Abstract!Deliver, MqQueue, MqPending
  <1> QED BY <1>10 DEF FifoStep, Abstract!MessageNext

(* rt_mq_control drops what is queued, and nothing that a receiver copies. *)
LEMMA FifoDiscards ==
  ASSUME NEW c, NEW f, MqState(c, f), MqReset
  PROVE  FifoStep
  <1>1. MqState(<<>>, Reverse(c) \o f)'
    BY ResetKeeps
  <1>2. MqQueue' = <<>>
    <2>1. MqQueue' = Mails(<<>>, content')
      BY <1>1, QueueNext
    <2>2. Mails(<<>>, content') = <<>>
      BY DEF Mails
    <2> QED BY <2>1, <2>2
  <1>3. /\ pc' = pc /\ msg' = msg
        /\ content' = [s \in Slot |-> IF Contains(c, s) THEN NoMail ELSE content[s]]
    BY StateChains DEF MqReset, ResumeAll
  <1>4. \A u \in Thread : pc[u] = "mq_copy" => msg[u] \in Slot /\ ~Contains(c, msg[u])
    BY DEF MqState, Hands, Holds
  <1>5. MqPending' = MqPending
    BY <1>3, <1>4 DEF MqPending
  <1>6. Abstract!Discard
    BY <1>2, <1>5 DEF Abstract!Discard, MqQueue, MqPending
  <1> QED BY <1>6 DEF FifoStep, Abstract!MessageNext

(* Every section of the message queue is a step of MessageFifo or changes  *)
(* nothing there.                                                          *)
LEMMA FifoSteps ==
  ASSUME Parked, NEW c, NEW f, MqState(c, f), MessageStep
  PROVE  FifoStep
  <1>1. MqLists /\ MqWaiting /\ MqData(c) /\ Hands(c, f)
    BY ListsWait DEF MqState
  <1>2. DOMAIN pc = Thread /\ msg \in [Thread -> Slot \cup {Null}]
    BY <1>1 DEF MqWaiting, MqData
  (* A call that does not yet copy takes a free slot, sleeps or returns.   *)
  <1>3. ASSUME NEW t \in Thread, pc[t] # "mq_copy", NEW at, at # "mq_copy",
               pc' = [pc EXCEPT ![t] = at], UNCHANGED <<next, content, msg_queue_head>>,
               \A u \in Thread : u # t => msg'[u] = msg[u]
        PROVE  FifoStep
    <2>1. SameCopies
      BY <1>2, <1>3 DEF SameCopies
    <2> QED BY <1>3, <2>1, FifoQuiet
  <1>4. ASSUME NEW t \in Thread, pc[t] # "mq_copy", NEW v, NEW at, at # "mq_copy",
               TakeFree(t, v, at)
        PROVE  FifoStep
    <2>1. /\ pc' = [pc EXCEPT ![t] = at] /\ UNCHANGED <<next, content, msg_queue_head>>
          /\ msg' = [msg EXCEPT ![t] = msg_queue_free]
      BY <1>4 DEF TakeFree, GoesOn
    <2>2. \A u \in Thread : u # t => msg'[u] = msg[u]
      BY <1>2, <2>1
    <2> QED BY <1>3, <1>4, <2>1, <2>2
  <1>5. ASSUME NEW t \in Thread, pc[t] \in {"run", "mq_send"}, NEW v, NEW w, MqSendLoop(t, v, w)
        PROVE  FifoStep
    <2>1. CASE TakeFree(t, v, "mq_link")
      BY <1>4, <1>5, <2>1
    <2>2. CASE Blocks(t, "mq_send", w) /\ UNCHANGED <<chainvars, msg>>
      <3>1. pc' = [pc EXCEPT ![t] = "mq_send"] /\ UNCHANGED <<next, content, msg_queue_head, msg>>
        BY <2>2 DEF Blocks, chainvars
      <3> QED BY <1>3, <1>5, <3>1
    <2> QED BY <1>5, <2>1, <2>2 DEF MqSendLoop
  <1>6. ASSUME NEW t \in Thread, pc[t] \in {"run", "mq_recv"}, NEW w, MqRecvLoop(t, w)
        PROVE  FifoStep
    <2>1. CASE TakeFirst(t)
      BY <1>1, <1>6, <2>1, FifoTakes
    <2>2. CASE Blocks(t, "mq_recv", w) /\ UNCHANGED <<chainvars, msg>>
      <3>1. pc' = [pc EXCEPT ![t] = "mq_recv"] /\ UNCHANGED <<next, content, msg_queue_head, msg>>
        BY <2>2 DEF Blocks, chainvars
      <3> QED BY <1>3, <1>6, <3>1
    <2> QED BY <1>6, <2>1, <2>2 DEF MqRecvLoop
  <1>7. ASSUME NEW t \in Thread, pc[t] \in {"mq_send", "mq_recv"}, Returns(t),
               UNCHANGED <<chainvars, msg>>
        PROVE  FifoStep
    <2>1. pc' = [pc EXCEPT ![t] = "run"] /\ UNCHANGED <<next, content, msg_queue_head, msg>>
      BY <1>7 DEF Returns, GoesOn, chainvars
    <2> QED BY <1>3, <1>7, <2>1
  <1>8. ASSUME NEW t \in Thread, MqLink(t) PROVE FifoStep
    <2>1. /\ pc[t] \in {"mq_link", "mq_link_head"} /\ Returns(t)
          /\ mail' = [mail EXCEPT ![t] = NoMail] /\ msg' = [msg EXCEPT ![t] = Null]
          /\ UNCHANGED <<msg_queue_free, sender>>
      BY <1>8 DEF MqLink
    <2>2. PICK m, v : m = msg[t] /\ v = mail[t]
      OBVIOUS
    <2>3. PICK c2 : Linked(c, c2, m, v)
      <3>1. CASE Link(m, v)
        BY <3>1 DEF Linked
      <3>2. CASE LinkHead(m, v)
        BY <3>2 DEF Linked
      <3> QED BY <1>8, <2>2, <3>1, <3>2 DEF MqLink
    <2>4. Linked(c, c2, msg[t], mail[t])
      BY <2>2, <2>3
    <2>5. MqState(c2, f)'
      BY <1>1, <2>1, <2>4, LinkKeeps
    <2>6. Holds(t) /\ pc[t] # "mq_copy"
      BY <2>1 DEF Holds
    <2>7. m \in Slot /\ ~Contains(c, m) /\ v \in Mail
      BY <1>1, <2>1, <2>2, <2>6 DEF Hands, MqData
    <2>8. \A u \in Thread : pc[u] = "mq_copy" => msg[u] \in Slot /\ msg[u] # m
      BY <1>1, <2>2, <2>6 DEF Hands, Holds
    <2>9. SameCopies
      <3>1. pc' = [pc EXCEPT ![t] = "run"]
        BY <2>1 DEF Returns, GoesOn
      <3> QED BY <1>2, <2>1, <2>6, <3>1 DEF SameCopies
    <2>10. Abstract!Room
      BY <2>6, RoomLeft
    <2> QED BY <2>3, <2>5, <2>7, <2>8, <2>9, <2>10, FifoLinks
  <1>9. ASSUME MqIrqSend PROVE FifoStep
    <2>1. PICK v \in Mail : Link(msg_queue_free, v) \/ LinkHead(msg_queue_free, v)
      BY <1>9 DEF MqIrqSend
    <2>2. /\ msg_queue_free # Null /\ msg_queue_free' = next[msg_queue_free]
          /\ UNCHANGED <<sender, mail, msg, error, pc, wait>>
      BY <1>9 DEF MqIrqSend
    <2>3. PICK m : m = msg_queue_free
      OBVIOUS
    <2>4. PICK c2 : Linked(c, c2, m, v)
      <3>1. CASE Link(m, v)
        BY <3>1 DEF Linked
      <3>2. CASE LinkHead(m, v)
        BY <3>2 DEF Linked
      <3> QED BY <2>1, <2>3, <3>1, <3>2
    <2>5. Linked(c, c2, msg_queue_free, v)
      BY <2>3, <2>4
    <2>6. /\ MqState(c2, Tail(f))' /\ f # <<>> /\ Contains(f, m)
          /\ m \in Slot /\ ~Contains(c, m)
      BY <1>1, <2>2, <2>3, <2>5, IrqKeeps
    <2>7. \A u \in Thread : pc[u] = "mq_copy" => msg[u] \in Slot /\ msg[u] # m
      BY <1>1, <2>6 DEF Hands, Holds
    <2>8. SameCopies
      BY <2>2 DEF SameCopies
    <2>9. Abstract!Room
      BY <2>6, RoomLeft
    <2> QED BY <2>4, <2>6, <2>7, <2>8, <2>9, FifoLinks
  <1>10. ASSUME NEW t \in MqUser, MqStep(t) PROVE FifoStep
    <2>0. t \in Thread
      BY MessageQueueAssumption
    <2>1. CASE MqSend(t)
      BY <1>5, <2>0, <2>1 DEF MqSend
    <2>2. CASE MqUrgent(t)
      BY <1>4, <2>0, <2>2 DEF MqUrgent
    <2>3. CASE MqRecv(t)
      BY <1>6, <2>0, <2>3 DEF MqRecv
    <2>4. CASE MqLink(t)
      BY <1>8, <2>0, <2>4
    <2>5. CASE MqCopy(t)
      BY <1>1, <2>0, <2>5, FifoDelivers
    <2>6. CASE MqSendResumed(t)
      <3>1. pc[t] = "mq_send"
        BY <2>6 DEF MqSendResumed
      <3>2. CASE \E w \in Left(wait[t]) : MqSendLoop(t, mail[t], w)
        <4>1. PICK w, v : v = mail[t] /\ MqSendLoop(t, mail[t], w)
          BY <3>2
        <4>2. MqSendLoop(t, v, w)
          BY <4>1
        <4> QED BY <1>5, <2>0, <3>1, <4>2
      <3>3. CASE Returns(t) /\ UNCHANGED <<chainvars, msg>>
        BY <1>7, <2>0, <3>1, <3>3
      <3> QED BY <2>6, <3>2, <3>3 DEF MqSendResumed
    <2>7. CASE MqRecvResumed(t)
      <3>1. pc[t] = "mq_recv"
        BY <2>7 DEF MqRecvResumed
      <3>2. CASE \E w \in Left(wait[t]) : MqRecvLoop(t, w)
        BY <1>6, <2>0, <3>1, <3>2
      <3>3. CASE Returns(t) /\ UNCHANGED <<chainvars, msg>>
        BY <1>7, <2>0, <3>1, <3>3
      <3> QED BY <2>7, <3>2, <3>3 DEF MqRecvResumed, mqvars
    <2> QED BY <1>10, <2>1, <2>2, <2>3, <2>4, <2>5, <2>6, <2>7 DEF MqStep
  <1>11. CASE MqReset
    BY <1>11, FifoDiscards
  <1> QED BY <1>9, <1>10, <1>11 DEF MessageStep

(* Every step of the objects is.                                           *)
LEMMA FifoNext ==
  ASSUME ObjectsInv, [Next]_vars
  PROVE  FifoStep
  <1>1. Parked /\ EventInv /\ CompletionInv /\ WqueueInv /\ \E c, f : MqState(c, f)
    BY DEF ObjectsInv, MqInv
  <1>2. ASSUME NEW C, Local(C), "mq_copy" \notin C, UNCHANGED mqvars PROVE FifoStep
    <2>1. SameCopies
      BY <1>2 DEF SameCopies, Local, mqvars
    <2> QED BY <1>2, <2>1, FifoQuiet DEF mqvars, chainvars
  <1>3. CASE EventStep
    <2>1. Local({"run", "event_recv"})
      BY <1>1, <1>3, EventOk DEF EventLocal
    <2> QED BY <1>2, <1>3, <2>1 DEF EventStep
  <1>4. CASE MessageStep
    BY <1>1, <1>4, FifoSteps
  <1>5. CASE CompletionStep
    <2>1. Local({"run", "completion_wait"})
      BY <1>1, <1>5, CompletionOk DEF CompletionLocal
    <2> QED BY <1>2, <1>5, <2>1 DEF CompletionStep
  <1>6. CASE WaitQueueStep
    <2>1. Local({"run", "wqueue_wait"})
      BY <1>1, <1>6, WqueueOk DEF WqueueLocal
    <2> QED BY <1>2, <1>6, <2>1 DEF WaitQueueStep
  <1>7. ASSUME NEW t \in Thread, Timeout(t) PROVE FifoStep
    <2>1. UNCHANGED <<pc, msg, next, content, msg_queue_head>>
      BY <1>7 DEF Timeout, chainvars
    <2> QED BY <2>1, FifoQuiet DEF SameCopies
  <1>8. CASE UNCHANGED vars
    <2>1. UNCHANGED <<pc, msg, next, content, msg_queue_head>>
      BY <1>8 DEF vars, threads, mqvars, chainvars
    <2> QED BY <2>1, FifoQuiet DEF SameCopies
  <1> QED BY <1>3, <1>4, <1>5, <1>6, <1>7, <1>8 DEF Next

(* Through the links, and the copies outside the sections, the message     *)
(* queue of ipc.c is a FIFO with urgent messages that gives each receiver  *)
(* the message it took, for any pool of slots and any finite set of        *)
(* threads: every section is a step of MessageFifo or changes nothing.     *)
THEOREM MessageQueueImplements == Spec => ImplementsMessageFifo
  <1>1. Init => Abstract!MessageInit
    <2> SUFFICES ASSUME Init PROVE Abstract!MessageInit
      OBVIOUS
    <2>1. MqInit /\ pc = [t \in Thread |-> "run"]
      BY DEF Init, ThreadsInit
    <2>2. PICK f : MqState(<<>>, f)
      BY <2>1, MqInitState
    <2>3. MqQueue = <<>>
      BY <2>2, QueueIs DEF Mails
    <2>4. MqPending = [t \in Thread |-> NoMail]
      BY <2>1 DEF MqPending
    <2> QED BY <2>3, <2>4 DEF Abstract!MessageInit, MqQueue, MqPending
  <1>2. ObjectsInv /\ [Next]_vars => [Abstract!MessageNext]_(Abstract!messagevars)
    BY FifoNext DEF FifoStep
  <1> QED BY <1>1, <1>2, ObjectsAlways, PTL DEF Spec, ImplementsMessageFifo, Abstract!MessageSpec

=============================================================================
