---------------------------- MODULE TimerProofs ----------------------------
(***************************************************************************)
(* Proofs about hard timers, for every set of timers, every width of the   *)
(* tick, every init_tick and every delay of the threads that fits into     *)
(* half of the ticks.                                                      *)
(***************************************************************************)
EXTENDS Timer, KernelLemmas

-----------------------------------------------------------------------------
(* The wrapped ticks *)

LEMMA HalfFacts == TickMod \in Nat /\ Half \in Nat /\ 2 * Half < TickMod
  <1>1. TickMod \in Nat \ {0}
    BY TimerAssumption
  <1> QED BY <1>1 DEF Half

(* The difference of two unsigned ticks                                    *)
LEMMA ModNear ==
  ASSUME NEW M \in Nat \ {0}, NEW x \in -M .. M - 1
  PROVE  x % M = IF x < 0 THEN x + M ELSE x
  <1>1. CASE x < 0
    <2>1. x + M \in 0 .. M - 1 /\ x = M * (-1) + (x + M) /\ -1 \in Int
      BY <1>1
    <2>2. x % M = x + M
      BY ONLY <2>1, ModUnique, M \in Nat \ {0}, x \in Int
    <2> QED BY <1>1, <2>2
  <1>2. CASE ~(x < 0)
    <2>1. x \in 0 .. M - 1
      BY <1>2
    <2> QED BY <1>2, <2>1, ModSmall
  <1> QED BY <1>1, <1>2

(* The wrapped tick at is n ticks from now; n is neither below low nor so  *)
(* far away that the comparisons would take it for the past.               *)
DueIn(at, n, low) ==
  /\ at \in 0 .. TickMod - 1 /\ n \in Int
  /\ low <= n /\ n + MaxLate < Half
  /\ at \in {tick + n, tick + n + TickMod, tick + n - TickMod}

(* The comparison of rt_timer_start finds the timer that is due later.     *)
LEMMA LaterLeft ==
  ASSUME tick \in 0 .. TickMod - 1,
         NEW a, NEW b, NEW k, NEW n, NEW lowa \in Int, NEW lowb \in Int,
         DueIn(a, k, lowa), DueIn(b, n, lowb),
         lowa >= -MaxLate - 1, lowb >= -MaxLate, lowa = -MaxLate \/ n >= 1
  PROVE  Later(a, b) <=> k > n
  <1>1. /\ TickMod \in Nat \ {0} /\ MaxLate \in Nat /\ Half \in Nat /\ 2 * Half < TickMod
    BY HalfFacts, TimerAssumption
  <1>2. /\ a - b \in -TickMod .. TickMod - 1 /\ k \in Int /\ n \in Int
        /\ k - n < Half /\ n - k <= Half
    BY <1>1 DEF DueIn
  <1>3. (a - b) % TickMod = IF a - b < 0 THEN a - b + TickMod ELSE a - b
    BY <1>1, <1>2, ModNear
  <1>4. (a - b) % TickMod = IF k >= n THEN k - n ELSE k - n + TickMod
    <2> HIDE DEF Half
    <2> QED BY <1>1, <1>2, <1>3 DEF DueIn
  <1> QED BY <1>1, <1>2, <1>4 DEF Later

(* rt_timer_check takes a timer for due when its time has come.            *)
LEMMA ReachedLeft ==
  ASSUME tick \in 0 .. TickMod - 1, NEW a, NEW n, DueIn(a, n, -MaxLate - 1),
         MaxLate + 1 <= Half
  PROVE  Reached(a) <=> n <= 0
  <1>1. /\ TickMod \in Nat \ {0} /\ MaxLate \in Nat /\ Half \in Nat /\ 2 * Half < TickMod
    BY HalfFacts, TimerAssumption
  <1>2. tick - a \in -TickMod .. TickMod - 1 /\ n \in Int /\ n < Half /\ -n <= Half
    BY <1>1 DEF DueIn
  <1>3. (tick - a) % TickMod = IF tick - a < 0 THEN tick - a + TickMod ELSE tick - a
    BY <1>1, <1>2, ModNear
  <1>4. (tick - a) % TickMod = IF n <= 0 THEN -n ELSE TickMod - n
    BY <1>1, <1>2, <1>3 DEF DueIn
  <1> QED BY <1>1, <1>2, <1>4 DEF Reached

-----------------------------------------------------------------------------
(* The operations on the list *)

States == [list    : Seq(Timers),
           timeout : [Timers -> 0 .. TickMod - 1],
           active  : [Timers -> BOOLEAN],
           left    : [Timers -> Int]]

(* The list holds no timer twice and is sorted by the time until they are  *)
(* due, which the wrapped ticks say truly.                                 *)
Fit(s, low) ==
  /\ s \in States
  /\ IsInjective(s.list)
  /\ Sorted(s.list, s.left)
  /\ \A x \in Timers : Contains(s.list, x) => DueIn(s.timeout[x], s.left[x], low)

Clocks == tick \in 0 .. TickMod - 1 /\ init \in [Timers -> Times]

(* What an operation may do to a timer.                                    *)
Same(s, r, x) ==
  /\ Contains(r.list, x) <=> Contains(s.list, x)
  /\ r.timeout[x] = s.timeout[x] /\ r.active[x] = s.active[x] /\ r.left[x] = s.left[x]

On(r, x)  == Contains(r.list, x) /\ r.active[x] /\ r.left[x] = init[x]
Off(r, x) == ~Contains(r.list, x) /\ ~r.active[x]

LEMMA RemovedFits ==
  ASSUME NEW s, NEW low, NEW t \in Timers, Fit(s, low)
  PROVE  LET r == Removed(s, t)
         IN  /\ Fit(r, low) /\ ~Contains(r.list, t)
             /\ r.active = s.active /\ r.timeout = s.timeout
             /\ \A x \in Timers \ {t} : Same(s, r, x)
  <1> DEFINE r == Removed(s, t)
             q == RemoveFirst(s.list, t)
  <1>0. s \in States
    BY DEF Fit
  <1>1. /\ r \in [list : {q}, timeout : {s.timeout}, active : {s.active},
                  left : {[s.left EXCEPT ![t] = 0]}]
    BY <1>0 DEF Removed, States
  <1>2. /\ r.list = q /\ r.timeout = s.timeout /\ r.active = s.active
        /\ r.left = [s.left EXCEPT ![t] = 0]
    BY <1>1
  <1>3. /\ q \in Seq(Timers) /\ IsInjective(q)
        /\ \A x : Contains(q, x) <=> Contains(s.list, x) /\ x # t
    BY <1>0, RemoveContains DEF Fit, States
  <1>4. Sorted(q, s.left)
    BY <1>0, RemoveSorted DEF Fit, States
  <1>5. /\ r.left \in [Timers -> Int]
        /\ \A x \in Timers \ {t} : r.left[x] = s.left[x]
    BY <1>0, <1>2 DEF States
  <1>6. Sorted(q, r.left)
    <2>1. \A x \in Timers : Contains(q, x) => r.left[x] = s.left[x]
      BY <1>3, <1>5
    <2>2. q \in Seq(Timers)
      BY <1>3
    <2> HIDE DEF q, r
    <2>3. \A i \in 1 .. Len(q) : r.left[q[i]] = s.left[q[i]]
      BY <2>1, <2>2 DEF Contains
    <2> QED BY <1>4, <2>3 DEF Sorted
  <1>7. r \in States
    BY <1>0, <1>1, <1>2, <1>3, <1>5 DEF States
  <1> HIDE DEF r, q
  <1>8. \A x \in Timers : Contains(q, x) => DueIn(r.timeout[x], r.left[x], low)
    BY <1>2, <1>3, <1>5 DEF Fit
  <1>9. Fit(r, low)
    BY <1>2, <1>3, <1>6, <1>7, <1>8 DEF Fit
  <1>10. \A x \in Timers \ {t} : Same(s, r, x)
    BY <1>2, <1>3, <1>5 DEF Same
  <1> QED BY <1>2, <1>3, <1>9, <1>10 DEF r

LEMMA DueFits ==
  ASSUME NEW s, NEW low, NEW t \in Timers, Fit(s, low), Clocks, ~Contains(s.list, t)
  PROVE  LET r == Due(s, t)
         IN  /\ Fit(r, low) /\ r.list = s.list /\ r.active = s.active
             /\ r.left[t] = init[t] /\ DueIn(r.timeout[t], r.left[t], 1)
             /\ \A x \in Timers \ {t} : Same(s, r, x)
  <1> DEFINE r  == Due(s, t)
             at == (tick + init[t]) % TickMod
  <1>0. s \in States
    BY DEF Fit
  <1>1. /\ TickMod \in Nat \ {0} /\ Half \in Nat /\ 2 * Half < TickMod /\ MaxLate \in Nat
        /\ init[t] \in Nat /\ init[t] >= 1 /\ init[t] + MaxLate < Half
        /\ tick \in 0 .. TickMod - 1
    <2>1. init[t] \in Times /\ tick \in 0 .. TickMod - 1
      BY DEF Clocks
    <2>2. /\ init[t] + MaxLate < Half /\ init[t] \in Nat \ {0}
          /\ MaxLate \in Nat /\ TickMod \in Nat \ {0}
      BY <2>1, TimerAssumption
    <2>3. init[t] >= 1 /\ init[t] \in Nat
      BY <2>2
    <2> QED BY <2>1, <2>2, <2>3, HalfFacts
  <1>2. at = IF tick + init[t] < TickMod THEN tick + init[t] ELSE tick + init[t] - TickMod
    <2>1. init[t] \in 0 .. TickMod
      BY <1>1
    <2> QED BY <1>1, <2>1, ModRing
  <1>3. at \in 0 .. TickMod - 1 /\ DueIn(at, init[t], 1)
    BY <1>1, <1>2 DEF DueIn
  <1> HIDE DEF at
  <1>4. r \in [list : {s.list}, timeout : {[s.timeout EXCEPT ![t] = at]},
               active : {s.active}, left : {[s.left EXCEPT ![t] = init[t]]}]
    BY <1>0 DEF Due, States, at
  <1>5. /\ r.list = s.list /\ r.timeout = [s.timeout EXCEPT ![t] = at]
        /\ r.active = s.active /\ r.left = [s.left EXCEPT ![t] = init[t]]
    BY <1>4
  <1>6. /\ r.left \in [Timers -> Int] /\ r.timeout \in [Timers -> 0 .. TickMod - 1]
        /\ r.left[t] = init[t] /\ r.timeout[t] = at
        /\ \A x \in Timers \ {t} : r.left[x] = s.left[x] /\ r.timeout[x] = s.timeout[x]
    BY <1>0, <1>1, <1>3, <1>5 DEF States
  <1>7. r \in States
    BY <1>0, <1>4, <1>5, <1>6 DEF States
  <1> HIDE DEF r
  <1>8. Sorted(s.list, r.left)
    <2>1. \A x \in Timers : Contains(s.list, x) => r.left[x] = s.left[x]
      BY <1>6
    <2>2. s.list \in Seq(Timers) /\ Sorted(s.list, s.left)
      BY <1>0 DEF Fit, States
    <2>3. \A i \in 1 .. Len(s.list) : r.left[s.list[i]] = s.left[s.list[i]]
      BY <2>1, <2>2 DEF Contains
    <2> QED BY <2>2, <2>3 DEF Sorted
  <1>9. \A x \in Timers : Contains(s.list, x) => DueIn(r.timeout[x], r.left[x], low)
    BY <1>6 DEF Fit
  <1>10. Fit(r, low)
    BY <1>5, <1>7, <1>8, <1>9 DEF Fit
  <1>11. \A x \in Timers \ {t} : Same(s, r, x)
    BY <1>5, <1>6 DEF Same
  <1> QED BY <1>3, <1>5, <1>6, <1>10, <1>11 DEF r

(* The timer goes to its place, although the place is found by comparing   *)
(* ticks that wrap.                                                        *)
LEMMA InsertedFits ==
  ASSUME NEW s, NEW low \in {-MaxLate, -MaxLate - 1}, NEW t \in Timers,
         Fit(s, low), Clocks, ~Contains(s.list, t),
         DueIn(s.timeout[t], s.left[t], -MaxLate), low = -MaxLate \/ s.left[t] >= 1
  PROVE  LET r == Inserted(s, t)
         IN  /\ Fit(r, low) /\ Contains(r.list, t) /\ r.active[t]
             /\ r.left = s.left /\ r.timeout = s.timeout
             /\ \A x \in Timers \ {t} : Same(s, r, x)
  <1> DEFINE r == Inserted(s, t)
             P(u) == Later(s.timeout[u], s.timeout[t])
             I == {k \in 1 .. Len(s.list) : P(s.list[k])}
             i == SelectInSeq(s.list, P)
             q == IF i = 0 THEN Append(s.list, t) ELSE InsertAt(s.list, i, t)
  <1>0. /\ s \in States /\ s.list \in Seq(Timers) /\ s.left \in [Timers -> Int]
        /\ s.timeout \in [Timers -> 0 .. TickMod - 1] /\ s.active \in [Timers -> BOOLEAN]
        /\ Len(s.list) \in Nat /\ MaxLate \in Nat /\ low \in Int
    BY TimerAssumption DEF Fit, States
  <1>1. \A k \in 1 .. Len(s.list) : P(s.list[k]) <=> s.left[s.list[k]] > s.left[t]
    <2> SUFFICES ASSUME NEW k \in 1 .. Len(s.list)
                 PROVE  P(s.list[k]) <=> s.left[s.list[k]] > s.left[t]
      OBVIOUS
    <2>1. s.list[k] \in Timers /\ Contains(s.list, s.list[k])
      BY <1>0 DEF Contains
    <2>2. DueIn(s.timeout[s.list[k]], s.left[s.list[k]], low)
      BY <2>1 DEF Fit
    <2>3. tick \in 0 .. TickMod - 1 /\ low >= -MaxLate - 1 /\ -MaxLate >= -MaxLate
          /\ -MaxLate \in Int
      BY <1>0 DEF Clocks
    <2> QED BY ONLY <1>0, <2>2, <2>3, LaterLeft, DueIn(s.timeout[t], s.left[t], -MaxLate),
                    low = -MaxLate \/ s.left[t] >= 1
  <1>2. i = IF I # {} THEN Min(I) ELSE 0
    BY DEF SelectInSeq
  <1>3. /\ i \in 0 .. Len(s.list)
        /\ i # 0 => i \in I /\ \A k \in I : i <= k
        /\ i = 0 => I = {}
    <2>1. I \in SUBSET Nat
      OBVIOUS
    <2>2. I # {} => Min(I) \in I /\ \A k \in I : Min(I) <= k
      BY <2>1, MinNat
    <2>3. \A k \in I : k \in 1 .. Len(s.list)
      OBVIOUS
    <2> HIDE DEF I, i
    <2>4. CASE I = {}
      BY <1>0, <1>2, <2>4
    <2>5. CASE I # {}
      <3>1. i \in I /\ i \in 1 .. Len(s.list) /\ \A k \in I : i <= k
        BY <1>2, <2>2, <2>3, <2>5
      <3> QED BY <1>0, <2>5, <3>1
    <2> QED BY <2>4, <2>5
  <1>4. /\ \A k \in 1 .. Len(s.list) : i = 0 \/ k < i => s.left[s.list[k]] <= s.left[t]
        /\ i # 0 => s.left[t] < s.left[s.list[i]]
    <2>1. \A k \in 1 .. Len(s.list) : s.left[s.list[k]] \in Int
      BY <1>0
    <2>2. \A k \in 1 .. Len(s.list) : k \in I <=> s.left[s.list[k]] > s.left[t]
      BY <1>1
    <2>3. s.left[t] \in Int
      BY <1>0
    <2> HIDE DEF I, i
    <2>4. \A k \in 1 .. Len(s.list) : i = 0 \/ k < i => k \notin I
      BY <1>0, <1>3
    <2>5. i # 0 => i \in 1 .. Len(s.list) /\ i \in I
      BY <1>0, <1>3
    <2> QED BY <2>1, <2>2, <2>3, <2>4, <2>5
  <1>5. r \in [list : {q}, timeout : {s.timeout},
               active : {[s.active EXCEPT ![t] = TRUE]}, left : {s.left}]
    BY <1>0 DEF Inserted, States
  <1> HIDE DEF P, I, i
  <1>6. Sorted(q, s.left)
    BY <1>0, <1>3, <1>4, InsertSorted DEF Fit
  <1>7. /\ q \in Seq(Timers) /\ IsInjective(q)
        /\ \A x : Contains(q, x) <=> Contains(s.list, x) \/ x = t
    <2>1. CASE i = 0
      BY <1>0, <2>1, AppendContains DEF Fit
    <2>2. CASE i # 0
      <3>1. i \in 1 .. Len(s.list) + 1 /\ q = InsertAt(s.list, i, t) /\ IsInjective(s.list)
        BY <1>0, <1>3, <2>2 DEF Fit
      <3>2. /\ \A x : Contains(InsertAt(s.list, i, t), x) <=> Contains(s.list, x) \/ x = t
            /\ IsInjective(InsertAt(s.list, i, t)) /\ InsertAt(s.list, i, t) \in Seq(Timers)
        BY <1>0, <3>1, InsertContains, ZenonT(60)
      <3> QED BY <3>1, <3>2
    <2> QED BY <2>1, <2>2
  <1> HIDE DEF q
  <1>8. /\ r.list = q /\ r.timeout = s.timeout /\ r.left = s.left
        /\ r.active = [s.active EXCEPT ![t] = TRUE]
    BY <1>5
  <1>9. /\ r.active \in [Timers -> BOOLEAN] /\ r.active[t]
        /\ \A x \in Timers \ {t} : r.active[x] = s.active[x]
    BY <1>0, <1>8
  <1>10. r \in States
    BY <1>0, <1>5, <1>7, <1>8, <1>9 DEF States
  <1> HIDE DEF r
  <1>11. \A x \in Timers : Contains(q, x) => DueIn(r.timeout[x], r.left[x], low)
    <2>1. DueIn(s.timeout[t], s.left[t], low)
      BY <1>0 DEF DueIn
    <2> QED BY <1>7, <1>8, <2>1 DEF Fit
  <1>12. Fit(r, low)
    BY <1>6, <1>7, <1>8, <1>10, <1>11 DEF Fit
  <1>13. \A x \in Timers \ {t} : Same(s, r, x)
    BY <1>7, <1>8, <1>9 DEF Same
  <1> QED BY <1>7, <1>8, <1>9, <1>12, <1>13 DEF r

(* rt_timer_start in an interrupt                                          *)
LEMMA StartedFits ==
  ASSUME NEW s, NEW low \in {-MaxLate, -MaxLate - 1}, NEW t \in Timers, Fit(s, low), Clocks
  PROVE  LET r == Started(s, t)
         IN  Fit(r, low) /\ On(r, t) /\ \A x \in Timers \ {t} : Same(s, r, x)
  <1> DEFINE a == Removed(s, t)
             b == Due(a, t)
             r == Inserted(b, t)
  <1>1. /\ Fit(a, low) /\ ~Contains(a.list, t)
        /\ \A x \in Timers \ {t} : Same(s, a, x)
    BY RemovedFits
  <1> HIDE DEF a
  <1>2. /\ Fit(b, low) /\ b.list = a.list /\ b.left[t] = init[t]
        /\ DueIn(b.timeout[t], b.left[t], 1)
        /\ \A x \in Timers \ {t} : Same(a, b, x)
    BY <1>1, DueFits
  <1> HIDE DEF b
  <1>3. /\ DueIn(b.timeout[t], b.left[t], -MaxLate) /\ b.left[t] >= 1
        /\ ~Contains(b.list, t)
    <2>1. MaxLate \in Nat
      BY TimerAssumption
    <2> QED BY <1>1, <1>2, <2>1 DEF DueIn
  <1>4. /\ Fit(r, low) /\ Contains(r.list, t) /\ r.active[t] /\ r.left = b.left
        /\ \A x \in Timers \ {t} : Same(b, r, x)
    BY <1>2, <1>3, InsertedFits
  <1> HIDE DEF r
  <1>5. On(r, t)
    BY <1>2, <1>4 DEF On
  <1>6. \A x \in Timers \ {t} : Same(s, r, x)
    BY <1>1, <1>2, <1>4 DEF Same
  <1>7. r = Started(s, t)
    BY DEF r, b, a, Started
  <1> QED BY <1>4, <1>5, <1>6, <1>7

(* rt_timer_stop in an interrupt                                           *)
LEMMA StoppedFits ==
  ASSUME NEW s, NEW low, NEW t \in Timers, Fit(s, low)
  PROVE  LET r == Stopped(s, t)
         IN  /\ Fit(r, low) /\ (IF s.active[t] THEN Off(r, t) ELSE r = s)
             /\ \A x \in Timers \ {t} : Same(s, r, x)
  <1> DEFINE a == Removed(s, t)
             r == [a EXCEPT !.active = [@ EXCEPT ![t] = FALSE]]
  <1>1. CASE ~s.active[t]
    BY <1>1 DEF Stopped, Same
  <1>2. CASE s.active[t]
    <2>1. /\ Fit(a, low) /\ ~Contains(a.list, t)
          /\ \A x \in Timers \ {t} : Same(s, a, x)
      BY RemovedFits
    <2>2. r = Stopped(s, t)
      BY <1>2 DEF Stopped
    <2> HIDE DEF a
    <2>3. a \in States
      BY <2>1 DEF Fit
    <2>4. r \in States /\ r.list = a.list /\ r.timeout = a.timeout /\ r.left = a.left
          /\ ~r.active[t] /\ \A x \in Timers \ {t} : r.active[x] = a.active[x]
      BY <2>3 DEF States
    <2> HIDE DEF r
    <2>5. Fit(r, low) /\ Off(r, t)
      BY <2>1, <2>4 DEF Fit, Off
    <2>6. \A x \in Timers \ {t} : Same(s, r, x)
      BY <2>1, <2>4 DEF Same
    <2> QED BY <1>2, <2>2, <2>5, <2>6
  <1> QED BY <1>1, <1>2

(* After the callback of t, which starts or stops one timer or does        *)
(* nothing, t itself is out of the list unless the callback restarted it.  *)
LEMMA CallbackFits ==
  ASSUME NEW s, NEW low \in {-MaxLate, -MaxLate - 1}, NEW t \in Timers, Fit(s, low), Clocks,
         ~Contains(s.list, t), NEW r \in Callbacks(s, t)
  PROVE  /\ Fit(r, low)
         /\ ~Contains(r.list, t) \/ (On(r, t) /\ t \in Touches[t])
         /\ \A x \in Timers \ {t} : Same(s, r, x) \/ (x \in Touches[t] /\ (On(r, x) \/ Off(r, x)))
  <1>0. Touches[t] \subseteq Timers
    BY TimerAssumption
  <1>1. CASE r = s
    BY <1>1 DEF Same
  <1>2. ASSUME NEW u \in Touches[t], r = Started(s, u)
        PROVE  /\ Fit(r, low)
               /\ ~Contains(r.list, t) \/ (On(r, t) /\ t \in Touches[t])
               /\ \A x \in Timers \ {t} : Same(s, r, x) \/ (x \in Touches[t] /\ (On(r, x) \/ Off(r, x)))
    <2>1. Fit(r, low) /\ On(r, u) /\ \A x \in Timers \ {u} : Same(s, r, x)
      BY <1>0, <1>2, StartedFits
    <2>2. u # t => ~Contains(r.list, t)
      BY <2>1 DEF Same
    <2> QED BY <2>1, <2>2
  <1>3. ASSUME NEW u \in Touches[t], r = Stopped(s, u)
        PROVE  /\ Fit(r, low)
               /\ ~Contains(r.list, t) \/ (On(r, t) /\ t \in Touches[t])
               /\ \A x \in Timers \ {t} : Same(s, r, x) \/ (x \in Touches[t] /\ (On(r, x) \/ Off(r, x)))
    <2>1. /\ Fit(r, low) /\ (IF s.active[u] THEN Off(r, u) ELSE r = s)
          /\ \A x \in Timers \ {u} : Same(s, r, x)
      BY <1>0, <1>3, StoppedFits
    <2>2. ~Contains(r.list, t)
      BY <2>1 DEF Same, Off
    <2>3. s.active[u] \/ Same(s, r, u)
      BY <2>1 DEF Same
    <2> QED BY <2>1, <2>2, <2>3
  <1> QED BY <1>1, <1>2, <1>3 DEF Callbacks

(* After the callback a periodic timer is started again.                   *)
LEMMA RearmedFits ==
  ASSUME NEW s, NEW low \in {-MaxLate, -MaxLate - 1}, NEW t \in Timers, Fit(s, low), Clocks
  PROVE  LET r == Rearmed(s, t)
         IN  /\ Fit(r, low)
             /\ \A x \in Timers \ {t} : Same(s, r, x)
             /\ \/ On(r, t)
                \/ /\ ~r.active[t] /\ r.list = s.list /\ r.left = s.left
                   /\ t \in Periodic => ~s.active[t]
  <1> DEFINE r == [s EXCEPT !.active = [@ EXCEPT ![t] = FALSE]]
  <1>1. CASE t \in Periodic /\ s.active[t]
    <2>1. Rearmed(s, t) = Started(s, t)
      BY <1>1 DEF Rearmed
    <2> QED BY <2>1, StartedFits
  <1>2. CASE ~(t \in Periodic /\ s.active[t])
    <2>1. Rearmed(s, t) = r
      BY <1>2 DEF Rearmed
    <2>2. s \in States
      BY DEF Fit
    <2>3. r \in States /\ r.list = s.list /\ r.timeout = s.timeout /\ r.left = s.left
          /\ ~r.active[t] /\ \A x \in Timers \ {t} : r.active[x] = s.active[x]
      BY <2>2 DEF States
    <2> HIDE DEF r
    <2>4. Fit(r, low)
      BY <2>3 DEF Fit
    <2>5. \A x \in Timers \ {t} : Same(s, r, x)
      BY <2>3 DEF Same
    <2> QED BY <1>2, <2>1, <2>3, <2>4, <2>5
  <1> QED BY <1>1, <1>2

-----------------------------------------------------------------------------
(* The invariant *)

(* How far in the past a listed timer may be due: one tick more between    *)
(* the moment the tick advances and the end of rt_timer_check              *)
Floor == IF checking THEN -MaxLate - 1 ELSE -MaxLate

(* Where the thread of a timer is agrees with the list and with the flag.  *)
(* The last part says more than StopFindsTimer: it holds in the middle of  *)
(* rt_timer_check as well.                                                 *)
InCall(t) ==
  /\ pc[t] = "start2" => DueIn(timeout[t], left[t], -MaxLate)
  /\ Contains(list, t) => pc[t] \in {"run", "stop1"}
  /\ t \notin User => pc[t] = "run"
  /\ active[t] => Contains(list, t) \/ pc[t] \in {"stop2", "gone"}
  /\ /\ t \in Periodic \/ t \notin Touches[t]
     /\ pc[t] = "run" /\ Contains(list, t)
     => active[t]

Places == {"run", "start1", "start2", "stop1", "stop2", "gone"}

TimerInv ==
  /\ Fit(State, Floor) /\ Clocks
  /\ checking \in BOOLEAN /\ pc \in [Timers -> Places]
  /\ \A t \in Timers : InCall(t)

LEMMA InvProperties == TimerInv => FlagsExact /\ SortedByTime
  <1> SUFFICES ASSUME TimerInv PROVE FlagsExact /\ SortedByTime
    OBVIOUS
  <1>1. /\ list \in Seq(Timers) /\ IsInjective(list)
        /\ timeout \in [Timers -> 0 .. TickMod - 1]
        /\ active \in [Timers -> BOOLEAN] /\ left \in [Timers -> Int]
        /\ Sorted(list, left)
    BY DEF TimerInv, Fit, State, States
  <1>2. TypeOK
    BY <1>1 DEF TypeOK, TimerInv, Clocks, Places
  <1>3. ActiveListed /\ StopFindsTimer
    BY DEF ActiveListed, StopFindsTimer, TimerInv, InCall
  <1>4. SortedByTime
    <2>1. DOMAIN list = 1 .. Len(list)
      BY <1>1
    <2> QED BY <1>1, <2>1 DEF SortedByTime, Sorted
  <1> QED BY <1>2, <1>3, <1>4 DEF FlagsExact

LEMMA FloorRange == TimerInv => Floor \in {-MaxLate, -MaxLate - 1}
  BY DEF Floor

LEMMA TimerInit == Init => TimerInv
  <1> SUFFICES ASSUME Init PROVE TimerInv
    OBVIOUS
  <1>1. \A x : ~Contains(<<>>, x)
    BY DEF Contains
  <1>2. 0 \in 0 .. TickMod - 1
    BY TimerAssumption
  <1>3. State \in States
    BY <1>2 DEF Init, State, States
  <1>4. Fit(State, Floor)
    BY <1>1, <1>3 DEF Init, State, Fit, Sorted, IsInjective
  <1>5. Clocks
    BY <1>2, TimerAssumption DEF Init, Clocks
  <1>6. \A t \in Timers : InCall(t)
    BY <1>1 DEF Init, InCall
  <1> QED BY <1>4, <1>5, <1>6 DEF Init, TimerInv, Places

-----------------------------------------------------------------------------
(* Every step keeps it *)

LEMMA BecomesFits ==
  ASSUME NEW r, NEW low, Becomes(r), Fit(r, low), tick' = tick, Floor' = low
  PROVE  Fit(State, Floor)'
  <1>1. /\ list' = r.list /\ timeout' = r.timeout /\ active' = r.active /\ left' = r.left
        /\ r \in States
    BY DEF Becomes, Fit
  <1>2. State' \in States
    BY <1>1 DEF State, States
  <1>3. Fit(r, low)
    OBVIOUS
  <1>4. \A x \in Timers : Contains(list', x) => DueIn(timeout[x], left[x], low)'
    BY <1>1, <1>3 DEF Fit, DueIn
  <1> QED BY <1>1, <1>2, <1>3, <1>4 DEF State, Fit

(* A timer that a step leaves alone                                        *)
LEMMA OtherTimer ==
  ASSUME NEW r, NEW x \in Timers, InCall(x), Becomes(r), Same(State, r, x),
         pc'[x] = pc[x], tick' = tick
  PROVE  InCall(x)'
  <1>1. /\ Contains(list', x) <=> Contains(list, x)
        /\ timeout'[x] = timeout[x] /\ active'[x] = active[x] /\ left'[x] = left[x]
    BY DEF Becomes, Same, State
  <1> QED BY <1>1 DEF InCall, DueIn

(* A step of the thread of t                                               *)
LEMMA OneTimer ==
  ASSUME TimerInv, NEW t \in Timers, NEW r, NEW at \in Places,
         Becomes(r), Fit(r, Floor),
         \A x \in Timers \ {t} : Same(State, r, x),
         pc' = [pc EXCEPT ![t] = at],
         UNCHANGED <<tick, checking>>, init' \in [Timers -> Times],
         InCall(t)'
  PROVE  TimerInv'
  <1>1. Floor' = Floor
    BY DEF Floor
  <1>2. Fit(State, Floor)'
    BY <1>1, BecomesFits
  <1>3. pc' \in [Timers -> Places] /\ \A x \in Timers \ {t} : pc'[x] = pc[x]
    BY DEF TimerInv
  <1>4. \A x \in Timers \ {t} : InCall(x)'
    BY <1>3, OtherTimer DEF TimerInv
  <1>5. Clocks'
    BY DEF TimerInv, Clocks
  <1> QED BY <1>2, <1>3, <1>4, <1>5 DEF TimerInv

(* rt_timer_start by a thread                                              *)
LEMMA StartKeeps ==
  ASSUME TimerInv, NEW t \in Timers, Start(t) \/ StartDue(t) \/ StartInsert(t)
  PROVE  TimerInv'
  <1>0. /\ Fit(State, Floor) /\ Clocks /\ InCall(t) /\ pc \in [Timers -> Places]
        /\ active[t] \in BOOLEAN /\ State \in States
    BY DEF TimerInv, Fit, State, States
  <1>1. CASE Start(t)
    <2> DEFINE a == Removed(State, t)
               r == [a EXCEPT !.active = [@ EXCEPT ![t] = FALSE]]
    <2>1. /\ Fit(a, Floor) /\ ~Contains(a.list, t)
          /\ \A x \in Timers \ {t} : Same(State, a, x)
      BY <1>0, RemovedFits
    <2>2. /\ Becomes(r) /\ pc' = [pc EXCEPT ![t] = "start1"] /\ t \in User
          /\ UNCHANGED <<tick, init, checking>>
      BY <1>1 DEF Start
    <2> HIDE DEF a
    <2>3. a \in States
      BY <2>1 DEF Fit
    <2>4. /\ r \in States /\ r.list = a.list /\ r.timeout = a.timeout /\ r.left = a.left
          /\ ~r.active[t] /\ \A x \in Timers \ {t} : r.active[x] = a.active[x]
      BY <2>3 DEF States
    <2> HIDE DEF r
    <2>5. Fit(r, Floor)
      BY <2>1, <2>4 DEF Fit
    <2>6. \A x \in Timers \ {t} : Same(State, r, x)
      BY <2>1, <2>4 DEF Same
    <2>7. pc'[t] = "start1" /\ ~Contains(list', t) /\ ~active'[t]
      BY <1>0, <2>1, <2>2, <2>4 DEF Becomes
    <2>8. InCall(t)'
      BY <2>2, <2>7 DEF InCall
    <2>9. "start1" \in Places /\ init' \in [Timers -> Times]
      BY <1>0, <2>2 DEF Places, Clocks
    <2> QED BY <2>2, <2>5, <2>6, <2>8, <2>9, OneTimer
  <1>2. CASE StartDue(t)
    <2> DEFINE r == Due(State, t)
    <2>1. /\ pc[t] = "start1" /\ Becomes(r) /\ pc' = [pc EXCEPT ![t] = "start2"]
          /\ UNCHANGED <<tick, init, checking>>
      BY <1>2 DEF StartDue
    <2>2. ~Contains(list, t) /\ ~active[t] /\ t \in User
      BY <1>0, <2>1 DEF InCall
    <2>3. State.list = list /\ State.active = active
      BY DEF State
    <2>4. /\ Fit(r, Floor) /\ r.list = list /\ r.active = active
          /\ DueIn(r.timeout[t], r.left[t], 1)
          /\ \A x \in Timers \ {t} : Same(State, r, x)
      BY <1>0, <2>2, <2>3, DueFits
    <2> HIDE DEF r
    <2>5. pc'[t] = "start2" /\ ~Contains(list', t) /\ ~active'[t]
      BY <1>0, <2>1, <2>2, <2>4 DEF Becomes
    <2>6. DueIn(timeout[t], left[t], -MaxLate)'
      <3>1. MaxLate \in Nat
        BY TimerAssumption
      <3>2. timeout'[t] = r.timeout[t] /\ left'[t] = r.left[t] /\ tick' = tick
        BY <2>1 DEF Becomes
      <3> QED BY <2>4, <3>1, <3>2 DEF DueIn
    <2>7. InCall(t)'
      BY <2>2, <2>5, <2>6 DEF InCall
    <2>8. "start2" \in Places /\ init' \in [Timers -> Times]
      BY <1>0, <2>1 DEF Places, Clocks
    <2> QED BY <2>1, <2>4, <2>7, <2>8, OneTimer
  <1>3. CASE StartInsert(t)
    <2> DEFINE r == Inserted(State, t)
    <2>1. /\ ~checking /\ pc[t] = "start2" /\ Becomes(r) /\ pc' = [pc EXCEPT ![t] = "run"]
          /\ UNCHANGED <<tick, init, checking>>
      BY <1>3 DEF StartInsert
    <2>2. ~Contains(list, t) /\ DueIn(timeout[t], left[t], -MaxLate) /\ Floor = -MaxLate
      BY <1>0, <2>1 DEF InCall, Floor
    <2>3. State.list = list /\ State.timeout = timeout /\ State.left = left
      BY DEF State
    <2>4. /\ Fit(r, Floor) /\ Contains(r.list, t) /\ r.active[t]
          /\ \A x \in Timers \ {t} : Same(State, r, x)
      BY <1>0, <2>2, <2>3, InsertedFits
    <2> HIDE DEF r
    <2>5. pc'[t] = "run" /\ Contains(list', t) /\ active'[t]
      BY <1>0, <2>1, <2>4 DEF Becomes
    <2>6. InCall(t)'
      BY <2>5 DEF InCall
    <2>7. "run" \in Places /\ init' \in [Timers -> Times]
      BY <1>0, <2>1 DEF Places, Clocks
    <2> QED BY <2>1, <2>4, <2>6, <2>7, OneTimer
  <1> QED BY <1>1, <1>2, <1>3

(* The operations that leave the list and the times alone                  *)
LEMMA QuietKeeps ==
  ASSUME TimerInv, NEW t \in Timers, NEW n \in Times,
         Stop(t) \/ StopClear(t) \/ Initialize(t, n) \/ SetTime(t, n)
  PROVE  TimerInv'
  <1> DEFINE r == [list |-> list, timeout |-> timeout', active |-> active', left |-> left]
  <1>0. /\ Fit(State, Floor) /\ Clocks /\ InCall(t) /\ pc \in [Timers -> Places]
        /\ list \in Seq(Timers) /\ timeout \in [Timers -> 0 .. TickMod - 1]
        /\ active \in [Timers -> BOOLEAN] /\ left \in [Timers -> Int]
    BY DEF TimerInv, Fit, State, States
  <1>1. /\ UNCHANGED <<tick, list, checking, left>>
        /\ init' \in [Timers -> Times]
    BY <1>0 DEF Stop, StopClear, Initialize, SetTime, Clocks
  <1>2. PICK at \in Places : pc' = [pc EXCEPT ![t] = at]
    <2>1. pc' = [pc EXCEPT ![t] = "stop1"] \/ pc' = [pc EXCEPT ![t] = "run"]
      <3>1. CASE SetTime(t, n)
        <4>1. pc' = pc /\ pc[t] = "run"
          BY <3>1 DEF SetTime
        <4>2. pc = [pc EXCEPT ![t] = "run"]
          BY <1>0, <4>1
        <4> QED BY <4>1, <4>2
      <3> QED BY <3>1 DEF Stop, StopClear, Initialize
    <2> QED BY <2>1 DEF Places
  <1>3. /\ timeout' \in [Timers -> 0 .. TickMod - 1] /\ active' \in [Timers -> BOOLEAN]
        /\ \A x \in Timers \ {t} : timeout'[x] = timeout[x] /\ active'[x] = active[x]
        /\ Contains(list, t) => timeout'[t] = timeout[t]
    <2>1. 0 \in 0 .. TickMod - 1
      BY TimerAssumption
    <2>2. CASE Initialize(t, n)
      <3>1. ~Contains(list, t)
        BY <1>0, <2>2 DEF Initialize, InCall
      <3> QED BY <1>0, <2>1, <2>2, <3>1 DEF Initialize
    <2> QED BY <1>0, <2>2 DEF Stop, StopClear, SetTime
  <1>4. Becomes(r)
    BY <1>1 DEF Becomes
  <1>5. r \in States
    BY <1>0, <1>3 DEF States
  <1>6. /\ r.list = list /\ r.timeout = timeout' /\ r.active = active' /\ r.left = left
        /\ State.list = list /\ State.timeout = timeout /\ State.active = active
        /\ State.left = left
    BY DEF State
  <1> HIDE DEF r
  <1>7. Fit(r, Floor)
    <2>1. \A x \in Timers : Contains(list, x) => timeout'[x] = timeout[x]
      BY <1>3
    <2> QED BY <1>0, <1>5, <1>6, <2>1 DEF Fit
  <1>8. \A x \in Timers \ {t} : Same(State, r, x)
    BY <1>3, <1>6 DEF Same
  <1>9. InCall(t)'
    <2>1. CASE Stop(t)
      <3>1. t \in User /\ pc'[t] = "stop1" /\ active' = active /\ list' = list /\ active[t]
            /\ pc[t] = "run"
        BY <1>0, <2>1 DEF Stop
      <3> QED BY <1>0, <3>1 DEF InCall
    <2>2. CASE StopClear(t)
      <3>1. pc'[t] = "run" /\ ~active'[t] /\ list' = list /\ pc[t] = "stop2"
        BY <1>0, <2>2 DEF StopClear
      <3> QED BY <1>0, <3>1 DEF InCall
    <2>3. CASE Initialize(t, n)
      <3>1. pc'[t] = "run" /\ ~active'[t] /\ list' = list /\ pc[t] = "gone"
        BY <1>0, <2>3 DEF Initialize
      <3> QED BY <1>0, <3>1 DEF InCall
    <2>4. CASE SetTime(t, n)
      <3>1. pc'[t] = "run" /\ active' = active /\ list' = list /\ pc[t] = "run"
        BY <1>0, <2>4 DEF SetTime
      <3> QED BY <1>0, <3>1 DEF InCall
    <2> QED BY <2>1, <2>2, <2>3, <2>4
  <1> QED BY <1>1, <1>2, <1>4, <1>7, <1>8, <1>9, OneTimer

(* The two operations that take a timer off the list and leave its flag    *)
LEMMA RemoveKeeps ==
  ASSUME TimerInv, NEW t \in Timers, StopRemove(t) \/ Detach(t)
  PROVE  TimerInv'
  <1> DEFINE r == Removed(State, t)
  <1>0. /\ Fit(State, Floor) /\ Clocks /\ InCall(t) /\ pc \in [Timers -> Places]
    BY DEF TimerInv
  <1>1. /\ Becomes(r) /\ UNCHANGED <<tick, init, checking>>
        /\ pc' = [pc EXCEPT ![t] = "stop2"] \/ pc' = [pc EXCEPT ![t] = "gone"]
        /\ t \in User
    BY <1>0 DEF StopRemove, Detach, InCall
  <1>2. /\ Fit(r, Floor) /\ ~Contains(r.list, t)
        /\ \A x \in Timers \ {t} : Same(State, r, x)
    BY <1>0, RemovedFits
  <1> HIDE DEF r
  <1>3. PICK at \in {"stop2", "gone"} : pc' = [pc EXCEPT ![t] = at]
    BY <1>1
  <1>4. pc'[t] = at /\ ~Contains(list', t)
    BY <1>0, <1>1, <1>2, <1>3 DEF Becomes
  <1>5. InCall(t)'
    BY <1>1, <1>4 DEF InCall
  <1>6. at \in Places /\ init' \in [Timers -> Times]
    BY <1>0, <1>1 DEF Places, Clocks
  <1> QED BY <1>1, <1>2, <1>3, <1>5, <1>6, OneTimer

(* The tick advances, and every timer has one tick less to wait.           *)
LEMMA TickKeeps ==
  ASSUME TimerInv, Tick
  PROVE  TimerInv'
  <1>0. /\ Fit(State, Floor) /\ Clocks /\ pc \in [Timers -> Places]
        /\ list \in Seq(Timers) /\ timeout \in [Timers -> 0 .. TickMod - 1]
        /\ active \in [Timers -> BOOLEAN] /\ left \in [Timers -> Int]
        /\ Sorted(list, left) /\ IsInjective(list)
    BY DEF TimerInv, Fit, State, States
  <1>1. /\ ~checking /\ checking' = TRUE
        /\ \A t \in Timers : pc[t] = "start2" => left[t] > -MaxLate
        /\ tick' = (tick + 1) % TickMod
        /\ left' = [t \in Timers |-> IF Ticking(t) THEN left[t] - 1 ELSE left[t]]
        /\ UNCHANGED <<list, timeout, init, active, pc>>
    BY DEF Tick
  <1>2. Floor = -MaxLate /\ Floor' = -MaxLate - 1 /\ MaxLate \in Nat
    BY <1>1, TimerAssumption DEF Floor
  <1>3. TickMod \in Nat \ {0} /\ tick \in 0 .. TickMod - 1
    BY <1>0, TimerAssumption DEF Clocks
  <1>4. tick' = IF tick + 1 < TickMod THEN tick + 1 ELSE tick + 1 - TickMod
    <2>1. 1 \in 0 .. TickMod
      BY <1>3
    <2> QED BY <1>1, <1>3, <2>1, ModRing
  <1>5. tick' \in 0 .. TickMod - 1
    BY <1>3, <1>4
  <1>6. /\ left' \in [Timers -> Int]
        /\ \A t \in Timers : Ticking(t) => left'[t] = left[t] - 1
    BY <1>0, <1>1
  <1>7. \A t \in Timers : Contains(list, t) => Ticking(t) /\ DueIn(timeout[t], left[t], -MaxLate)
    BY <1>0, <1>2 DEF Ticking, Fit, State
  <1>8. ASSUME NEW t \in Timers, NEW low \in Int, Ticking(t), left[t] - 1 >= low,
               DueIn(timeout[t], left[t], -MaxLate)
        PROVE  /\ timeout'[t] \in 0 .. TickMod - 1 /\ left'[t] \in Int
               /\ low <= left'[t] /\ left'[t] + MaxLate < Half
               /\ timeout'[t] \in {tick' + left'[t], tick' + left'[t] + TickMod,
                                   tick' + left'[t] - TickMod}
    <2>1. /\ left'[t] = left[t] - 1 /\ timeout'[t] = timeout[t]
          /\ Half \in Nat /\ 2 * Half < TickMod
      BY <1>1, <1>6, <1>8, HalfFacts
    <2>2. /\ left[t] \in Int /\ -MaxLate <= left[t] /\ left[t] + MaxLate < Half
          /\ timeout[t] \in 0 .. TickMod - 1
          /\ timeout[t] \in {tick + left[t], tick + left[t] + TickMod, tick + left[t] - TickMod}
      BY <1>8 DEF DueIn
    <2>3. tick' \in Int /\ (tick' = tick + 1 \/ tick' = tick + 1 - TickMod)
      BY <1>3, <1>4
    <2>4. \/ timeout[t] = tick + left[t] \/ timeout[t] = tick + left[t] + TickMod
          \/ timeout[t] = tick + left[t] - TickMod
      BY <2>2
    <2>5. \/ timeout[t] = tick' + left'[t] \/ timeout[t] = tick' + left'[t] + TickMod
          \/ timeout[t] = tick' + left'[t] - TickMod
      <3>1. init[t] \in Nat \ {0} /\ init[t] + MaxLate < Half
        BY <1>0, TimerAssumption DEF Clocks
      <3>2. -TickMod < left[t]
        BY <1>2, <1>3, <2>1, <2>2, <3>1
      <3>3. CASE tick' = tick + 1
        BY <1>3, <2>1, <2>2, <2>4, <3>3
      <3>4. CASE tick' = tick + 1 - TickMod
        <4>1. tick = TickMod - 1
          BY <1>3, <1>4, <3>4
        <4>2. timeout[t] = tick + left[t] \/ timeout[t] = tick + left[t] - TickMod
          BY <1>3, <2>2, <2>4, <3>2, <4>1
        <4> QED BY <1>3, <2>1, <2>2, <3>4, <4>2
      <3> QED BY <2>3, <3>3, <3>4
    <2> QED BY <1>2, <1>8, <2>1, <2>2, <2>5
  <1>9. State' \in States
    BY <1>0, <1>1, <1>6 DEF State, States
  <1>10. \A t \in Timers : Contains(list', t) => DueIn(timeout[t], left[t], Floor)'
    <2> SUFFICES ASSUME NEW t \in Timers, Contains(list', t)
                 PROVE  DueIn(timeout[t], left[t], Floor)'
      OBVIOUS
    <2>1. Ticking(t) /\ DueIn(timeout[t], left[t], -MaxLate)
      BY <1>1, <1>7
    <2>2. left[t] - 1 >= -MaxLate - 1 /\ -MaxLate - 1 \in Int
      BY <1>2, <2>1 DEF DueIn
    <2> QED BY <1>2, <1>8, <2>1, <2>2 DEF DueIn
  <1>11. Sorted(list, left')
    <2>1. \A i \in 1 .. Len(list) : left'[list[i]] = left[list[i]] - 1 /\ left[list[i]] \in Int
      BY <1>0, <1>6, <1>7 DEF Contains
    <2>2. \A i, j \in 1 .. Len(list) : i < j => left[list[i]] <= left[list[j]]
      BY <1>0 DEF Sorted
    <2>3. \A i, j \in 1 .. Len(list) : i < j => left'[list[i]] <= left'[list[j]]
      BY <2>1, <2>2
    <2> QED BY <2>3 DEF Sorted
  <1>12. Fit(State, Floor)'
    BY <1>0, <1>1, <1>9, <1>10, <1>11 DEF Fit, State
  <1>13. \A t \in Timers : InCall(t)'
    <2> SUFFICES ASSUME NEW t \in Timers PROVE InCall(t)'
      OBVIOUS
    <2>1. InCall(t)
      BY DEF TimerInv
    <2>2. pc[t] = "start2" => DueIn(timeout[t], left[t], -MaxLate)'
      <3> SUFFICES ASSUME pc[t] = "start2" PROVE DueIn(timeout[t], left[t], -MaxLate)'
        OBVIOUS
      <3>1. Ticking(t) /\ DueIn(timeout[t], left[t], -MaxLate) /\ left[t] > -MaxLate
        BY <1>1, <2>1 DEF Ticking, InCall
      <3>2. left[t] - 1 >= -MaxLate /\ -MaxLate \in Int
        BY <1>0, <1>2, <3>1
      <3> QED BY <1>8, <3>1, <3>2 DEF DueIn
    <2> QED BY <1>1, <2>1, <2>2 DEF InCall
  <1>14. Clocks'
    BY <1>0, <1>1, <1>5 DEF Clocks
  <1> QED BY <1>0, <1>1, <1>12, <1>13, <1>14 DEF TimerInv

(* Whether rt_timer_check goes on is decided by the time of the first      *)
(* timer.                                                                  *)
LEMMA HeadReached ==
  ASSUME TimerInv, checking, list # <<>>
  PROVE  /\ Head(list) \in Timers /\ Contains(list, Head(list))
         /\ Reached(timeout[Head(list)]) <=> left[Head(list)] <= 0
  <1>0. /\ list \in Seq(Timers) /\ Clocks /\ Floor = -MaxLate - 1
        /\ \A x \in Timers : Contains(list, x) => DueIn(timeout[x], left[x], Floor)
    BY DEF TimerInv, Fit, State, States, Floor
  <1>1. Head(list) \in Timers /\ Contains(list, Head(list))
    BY <1>0, HeadContains
  <1>2. MaxLate + 1 <= Half
    <2>1. /\ init[Head(list)] \in Nat \ {0} /\ init[Head(list)] + MaxLate < Half
          /\ MaxLate \in Nat
      BY <1>0, <1>1, TimerAssumption DEF Clocks
    <2> QED BY <2>1, HalfFacts
  <1>3. tick \in 0 .. TickMod - 1 /\ DueIn(timeout[Head(list)], left[Head(list)], -MaxLate - 1)
    BY <1>0, <1>1 DEF Clocks
  <1> QED BY <1>1, <1>2, <1>3, ReachedLeft

(* What one round of the loop does to the timers: the one that expired is  *)
(* out of the list, unless it was started anew, those that its callback    *)
(* touched are on or off, and nothing happens to the others.               *)
Stray(r, x) ==
  /\ x \notin Periodic /\ x \in Touches[x]
  /\ Contains(r.list, x) /\ ~r.active[x] /\ r.left[x] = init[x]

LEMMA ExpireFits ==
  ASSUME TimerInv, Expire
  PROVE  \E r : /\ Becomes(r) /\ Fit(r, Floor)
                /\ On(r, Head(list)) \/ Off(r, Head(list)) \/ Stray(r, Head(list))
                /\ \A x \in Timers \ {Head(list)} :
                     \/ Same(State, r, x)
                     \/ x \in Touches[Head(list)] /\ (On(r, x) \/ Off(r, x))
  <1> DEFINE h == Head(list)
             a == Removed(State, h)
  <1>0. /\ Fit(State, Floor) /\ Clocks /\ Floor \in {-MaxLate, -MaxLate - 1}
        /\ h \in Timers
    BY HeadReached, FloorRange DEF TimerInv, Expire
  <1>1. PICK s \in Callbacks(a, h) : Becomes(Rearmed(s, h))
    BY DEF Expire
  <1> DEFINE r == Rearmed(s, h)
  <1> HIDE DEF h
  <1>2. /\ Fit(a, Floor) /\ ~Contains(a.list, h)
        /\ \A x \in Timers \ {h} : Same(State, a, x)
    BY <1>0, RemovedFits
  <1> HIDE DEF a
  <1>3. /\ Fit(s, Floor)
        /\ ~Contains(s.list, h) \/ (On(s, h) /\ h \in Touches[h])
        /\ \A x \in Timers \ {h} : Same(a, s, x) \/ (x \in Touches[h] /\ (On(s, x) \/ Off(s, x)))
    BY <1>0, <1>1, <1>2, CallbackFits
  <1>4. /\ Fit(r, Floor)
        /\ \A x \in Timers \ {h} : Same(s, r, x)
        /\ \/ On(r, h)
           \/ /\ ~r.active[h] /\ r.list = s.list /\ r.left = s.left
              /\ h \in Periodic => ~s.active[h]
    BY <1>0, <1>3, RearmedFits
  <1>5. Becomes(r)
    BY <1>1
  <1> HIDE DEF r
  <1>6. On(r, h) \/ Off(r, h) \/ Stray(r, h)
    BY <1>3, <1>4 DEF On, Off, Stray
  <1>7. \A x \in Timers \ {h} : Same(State, r, x) \/ (x \in Touches[h] /\ (On(r, x) \/ Off(r, x)))
    BY <1>2, <1>3, <1>4 DEF Same, On, Off
  <1> QED BY <1>4, <1>5, <1>6, <1>7 DEF h

LEMMA ExpireKeeps ==
  ASSUME TimerInv, Expire
  PROVE  TimerInv'
  <1> DEFINE h == Head(list)
  <1>0. h \in Timers /\ Contains(list, h) /\ \A t \in Timers : InCall(t)
    BY HeadReached DEF TimerInv, Expire
  <1>1. UNCHANGED <<tick, init, pc, checking>>
    BY DEF Expire
  <1>2. PICK r : /\ Becomes(r) /\ Fit(r, Floor)
                 /\ On(r, h) \/ Off(r, h) \/ Stray(r, h)
                 /\ \A x \in Timers \ {h} :
                      Same(State, r, x) \/ (x \in Touches[h] /\ (On(r, x) \/ Off(r, x)))
    BY ExpireFits
  <1> HIDE DEF h
  <1>3. Fit(State, Floor)'
    <2>1. Floor' = Floor
      BY <1>1 DEF Floor
    <2> QED BY <1>1, <1>2, <2>1, BecomesFits
  <1>4. \A x \in Timers : x \in Touches[h] \/ x = h => pc[x] \in {"run", "stop1"}
    <2>1. \A x \in Touches[h] : x \notin User \/ x = h
      BY <1>0, TimerAssumption
    <2> QED BY <1>0, <2>1 DEF InCall
  <1>5. ASSUME NEW x \in Timers PROVE InCall(x)'
    <2>0. /\ InCall(x) /\ list' = r.list /\ active' = r.active /\ pc' = pc /\ tick' = tick
      BY <1>0, <1>1, <1>2 DEF Becomes
    <2>1. CASE x # h /\ Same(State, r, x)
      BY <1>2, <2>0, <2>1, OtherTimer
    <2>2. CASE (x = h \/ x \in Touches[h]) /\ (On(r, x) \/ Off(r, x))
      <3>1. pc[x] \in {"run", "stop1"}
        BY <1>4, <2>2
      <3> QED BY <2>0, <2>2, <3>1 DEF InCall, On, Off
    <2>3. CASE x = h /\ Stray(r, x)
      <3>1. pc[x] \in {"run", "stop1"}
        BY <1>4, <2>3
      <3> QED BY <2>0, <2>3, <3>1 DEF InCall, Stray
    <2> QED BY <1>2, <2>1, <2>2, <2>3
  <1> QED BY <1>1, <1>3, <1>5 DEF TimerInv, Clocks

(* When rt_timer_check ends the first timer is not due, so none is.        *)
LEMMA CheckEndLeft ==
  ASSUME TimerInv, CheckEnd
  PROVE  \A i \in 1 .. Len(list) : left[list[i]] > 0
  <1>0. /\ list \in Seq(Timers) /\ left \in [Timers -> Int] /\ Sorted(list, left)
        /\ checking /\ (list # <<>> => ~Reached(timeout[Head(list)]))
    BY DEF TimerInv, Fit, State, States, CheckEnd
  <1> SUFFICES ASSUME NEW i \in 1 .. Len(list) PROVE left[list[i]] > 0
    OBVIOUS
  <1>1. list # <<>> /\ Head(list) = list[1] /\ 1 \in 1 .. Len(list)
        /\ left[list[1]] \in Int /\ left[list[i]] \in Int
    BY <1>0
  <1>2. left[list[1]] > 0
    BY <1>0, <1>1, HeadReached
  <1>3. left[list[1]] <= left[list[i]]
    BY <1>0, <1>1 DEF Sorted
  <1> QED BY <1>1, <1>2, <1>3

LEMMA CheckEndKeeps ==
  ASSUME TimerInv, CheckEnd
  PROVE  TimerInv'
  <1>0. /\ Fit(State, Floor) /\ list \in Seq(Timers) /\ MaxLate \in Nat
        /\ checking' = FALSE /\ UNCHANGED <<tick, list, timeout, init, active, pc, left>>
    BY TimerAssumption DEF TimerInv, Fit, State, States, CheckEnd
  <1>1. Floor' = -MaxLate /\ State' = State
    BY <1>0 DEF Floor, State
  <1>2. \A x \in Timers : Contains(list, x) => DueIn(timeout[x], left[x], -MaxLate)
    <2> SUFFICES ASSUME NEW x \in Timers, Contains(list, x)
                 PROVE  DueIn(timeout[x], left[x], -MaxLate)
      OBVIOUS
    <2>1. DueIn(timeout[x], left[x], Floor)
      BY <1>0 DEF Fit, State
    <2>2. left[x] > 0
      BY <1>0, CheckEndLeft DEF Contains
    <2> QED BY <1>0, <2>1, <2>2 DEF DueIn
  <1>3. Fit(State, Floor)'
    BY <1>0, <1>1, <1>2 DEF Fit, State, DueIn
  <1>4. \A t \in Timers : InCall(t)'
    BY <1>0 DEF TimerInv, InCall, DueIn
  <1> QED BY <1>0, <1>3, <1>4 DEF TimerInv, Clocks

LEMMA TimerNext == TimerInv /\ [Next]_vars => TimerInv'
  <1> SUFFICES ASSUME TimerInv, [Next]_vars PROVE TimerInv'
    OBVIOUS
  <1>1. ASSUME NEW t \in Timers, Start(t) \/ StartDue(t) \/ StartInsert(t) PROVE TimerInv'
    BY <1>1, StartKeeps
  <1>2. ASSUME NEW t \in Timers, NEW n \in Times,
               Stop(t) \/ StopClear(t) \/ Initialize(t, n) \/ SetTime(t, n) PROVE TimerInv'
    BY <1>2, QuietKeeps
  <1>3. ASSUME NEW t \in Timers, StopRemove(t) \/ Detach(t) PROVE TimerInv'
    BY <1>3, RemoveKeeps
  <1>4. ASSUME NEW t \in Timers, Stop(t) \/ StopClear(t) PROVE TimerInv'
    <2>1. FirstTime[t] \in Times
      BY TimerAssumption
    <2> QED BY <1>2, <1>4, <2>1
  <1>5. CASE Tick
    BY <1>5, TickKeeps
  <1>6. CASE Expire
    BY <1>6, ExpireKeeps
  <1>7. CASE CheckEnd
    BY <1>7, CheckEndKeeps
  <1>8. CASE UNCHANGED vars
    BY <1>8 DEF vars, TimerInv, Fit, State, Floor, Clocks, InCall, DueIn
  <1> QED BY <1>1, <1>2, <1>3, <1>4, <1>5, <1>6, <1>7, <1>8 DEF Next

LEMMA TimerInvariant == Spec => []TimerInv
  BY TimerInit, TimerNext, PTL DEF Spec

-----------------------------------------------------------------------------
(* The results *)

(* The flag RT_TIMER_FLAG_ACTIVATED and the list agree wherever            *)
(* rt_timer_stop relies on it: a timer marked as running is listed, so its *)
(* callback will come, and stopping a listed timer takes it out.           *)
THEOREM TimerFlags == Spec => []FlagsExact
  BY TimerInvariant, InvProperties, PTL

(* rt_timer_start keeps the list sorted by the time at which the timers    *)
(* are really due, although it compares ticks that wrap around and a       *)
(* thread may be interrupted for up to MaxLate ticks between computing the *)
(* time and inserting the timer.                                           *)
THEOREM TimerSorted == Spec => []SortedByTime
  BY TimerInvariant, InvProperties, PTL

(* rt_timer_check calls no timer before its time, and when it returns no   *)
(* timer that is due is left in the list.                                  *)
THEOREM TimerTimely == Spec => Timely
  <1> DEFINE Step == /\ Expire => left[Head(list)] <= 0
                     /\ CheckEnd => \A i \in DOMAIN list : left[list[i]] > 0
  <1>1. ASSUME TimerInv PROVE Step
    <2>1. list \in Seq(Timers) /\ DOMAIN list = 1 .. Len(list)
      BY <1>1 DEF TimerInv, Fit, State, States
    <2>2. Expire => left[Head(list)] <= 0
      BY <1>1, HeadReached DEF Expire
    <2> QED BY <1>1, <2>1, <2>2, CheckEndLeft
  <1>2. TimerInv => [Step]_vars
    BY <1>1
  <1> QED BY <1>2, TimerInvariant, PTL DEF Timely

(* The timers that are due, counted by Overdue through their places        *)
LateTimers == {x \in Timers : Contains(list, x) /\ left[x] <= 0}

OverdueFacts ==
  /\ IsFiniteSet(LateTimers) /\ Cardinality(LateTimers) \in Nat
  /\ Overdue = Cardinality(LateTimers)

LEMMA OverdueTimers == TimerInv => OverdueFacts
  <1> SUFFICES ASSUME TimerInv PROVE OverdueFacts
    OBVIOUS
  <1> DEFINE D == {i \in DOMAIN list : left[list[i]] <= 0}
             f == [i \in D |-> list[i]]
  <1>0. list \in Seq(Timers) /\ IsInjective(list) /\ DOMAIN list = 1 .. Len(list)
        /\ Len(list) \in Nat
    BY DEF TimerInv, Fit, State, States
  <1>1. IsFiniteSet(D)
    <2>1. IsFiniteSet(1 .. Len(list)) /\ D \subseteq 1 .. Len(list)
      BY <1>0, FS_Interval
    <2> QED BY <2>1, FS_Subset
  <1>2. f \in Bijection(D, LateTimers)
    <2>1. f \in [D -> LateTimers]
      BY <1>0 DEF LateTimers, Contains
    <2>2. \A i, j \in D : f[i] = f[j] => i = j
      BY <1>0 DEF IsInjective
    <2>3. \A x \in LateTimers : \E i \in D : f[i] = x
      BY <1>0 DEF LateTimers, Contains
    <2> HIDE DEF D, f
    <2>4. IsInjective(f)
      BY <2>1, <2>2 DEF IsInjective
    <2> QED BY <2>1, <2>3, <2>4 DEF Bijection, Injection, Surjection
  <1>3. ExistsBijection(D, LateTimers)
    BY <1>2 DEF ExistsBijection
  <1>4. IsFiniteSet(LateTimers) /\ Cardinality(LateTimers) = Cardinality(D)
    BY <1>1, <1>3, FS_Bijection
  <1> QED BY <1>4, FS_CardinalityType DEF OverdueFacts, Overdue

(* A round leaves the timer that expired, or a touched one, due later or   *)
(* not at all, and no other timer becomes due.                             *)
LEMMA ExpireShrinks ==
  ASSUME TimerInv, Expire
  PROVE  LateTimers' \subseteq LateTimers \ {Head(list)} /\ Head(list) \in LateTimers
  <1> DEFINE h == Head(list)
  <1>0. h \in Timers /\ Contains(list, h) /\ left[h] <= 0
    BY HeadReached DEF Expire
  <1>1. PICK r : /\ Becomes(r)
                 /\ On(r, h) \/ Off(r, h) \/ Stray(r, h)
                 /\ \A x \in Timers \ {h} :
                      Same(State, r, x) \/ (x \in Touches[h] /\ (On(r, x) \/ Off(r, x)))
    BY ExpireFits
  <1> HIDE DEF h
  <1>2. list' = r.list /\ left' = r.left
    BY <1>1 DEF Becomes
  <1>3. \A x \in Timers : init[x] \in Nat /\ init[x] > 0
    <2>1. \A x \in Timers : init[x] \in Times
      BY DEF TimerInv, Clocks
    <2>2. \A n \in Times : n \in Nat /\ n > 0
      BY TimerAssumption
    <2> QED BY <2>1, <2>2
  <1>4. \A x \in Timers : On(r, x) \/ Off(r, x) \/ Stray(r, x) => x \notin LateTimers'
    BY <1>2, <1>3 DEF On, Off, Stray, LateTimers
  <1>5. \A x \in Timers : Same(State, r, x) /\ x \in LateTimers' => x \in LateTimers
    BY <1>2 DEF Same, State, LateTimers
  <1>6. LateTimers' \subseteq Timers
    BY DEF LateTimers
  <1>7. h \notin LateTimers' /\ \A x \in Timers \ {h} : x \in LateTimers' => x \in LateTimers
    BY <1>0, <1>1, <1>4, <1>5
  <1>8. h \in LateTimers
    BY <1>0 DEF LateTimers
  <1> QED BY <1>6, <1>7, <1>8 DEF h

(* Every callback that rt_timer_check makes leaves fewer timers that are   *)
(* due, whatever the callback starts: the loop ends.                       *)
THEOREM TimerCheckEnds == Spec => CheckShrinks
  <1> DEFINE Step == Expire => Overdue' < Overdue
  <1>1. ASSUME TimerInv, OverdueFacts, OverdueFacts', Expire PROVE Overdue' < Overdue
    <2> DEFINE h == Head(list)
               A == LateTimers
               B == LateTimers'
    <2>1. B \subseteq A \ {h} /\ h \in A
      BY <1>1, ExpireShrinks
    <2>2. /\ IsFiniteSet(A) /\ IsFiniteSet(B) /\ Cardinality(A) \in Nat /\ Cardinality(B) \in Nat
          /\ Overdue = Cardinality(A) /\ Overdue' = Cardinality(B)
      BY <1>1 DEF OverdueFacts
    <2> HIDE DEF A, B, h
    <2>3. Cardinality(B) + 1 <= Cardinality(A)
      BY <2>1, <2>2, CardGrow
    <2> QED BY <2>2, <2>3
  <1>2. TimerInv /\ OverdueFacts /\ OverdueFacts' => [Step]_vars
    BY <1>1
  <1> QED BY <1>2, TimerInvariant, OverdueTimers, PTL DEF CheckShrinks
=============================================================================
