------------------------------- MODULE Timer -------------------------------
(***************************************************************************)
(* Hard timers (timer.c): the list of running timers, sorted by a tick     *)
(* that wraps around, rt_timer_start and rt_timer_stop with the sections   *)
(* they are made of, and rt_timer_check, which the clock interrupt runs    *)
(* with interrupts disabled and whose callbacks start and stop timers.     *)
(*                                                                         *)
(* Every timer has one thread that starts, stops and detaches it; a        *)
(* callback may also do so to its own timer and to timers without a thread.*)
(***************************************************************************)
EXTENDS Integers, Sequences, FiniteSets, SequencesExt

CONSTANTS
  Timers,
  TickMod,    \* 2^32: rt_tick_t is unsigned
  Times,      \* the values of init_tick
  FirstTime,  \* the init_tick each timer is created with
  MaxLate,    \* bound: ticks during which a thread is kept inside rt_timer_start
  Periodic,   \* timers with RT_TIMER_FLAG_PERIODIC
  User,       \* timers that a thread starts and stops
  Touches     \* the timers that the callback of each timer starts or stops

Half == (TickMod - 1) \div 2     \* RT_TICK_MAX / 2, ULONG_MAX / 2

ASSUME TimerAssumption ==
  /\ TickMod \in Nat \ {0} /\ MaxLate \in Nat
  /\ Times \subseteq Nat \ {0} /\ FirstTime \in [Timers -> Times]
  /\ \A n \in Times : n + MaxLate < Half
  /\ Periodic \subseteq Timers /\ User \subseteq Timers
  /\ Touches \in [Timers -> SUBSET Timers]
  /\ \A t \in Timers : Touches[t] \cap User \subseteq {t}

VARIABLES
  tick,       \* rt_tick
  list,       \* rt_timer_list
  timeout,    \* timer->timeout_tick
  init,       \* timer->init_tick
  active,     \* RT_TIMER_FLAG_ACTIVATED
  pc,         \* where the thread of the timer is
  checking,   \* the clock interrupt is in rt_timer_check
  left        \* ghost: the ticks until a timer is due; 0 for one not ticking

vars == <<tick, list, timeout, init, active, pc, checking, left>>

(* What the operations on timers work on.                                  *)
State == [list |-> list, timeout |-> timeout, active |-> active, left |-> left]

Becomes(s) == /\ list' = s.list /\ timeout' = s.timeout
              /\ active' = s.active /\ left' = s.left

-----------------------------------------------------------------------------
(* Mutant of Later: ticks are compared as if they never wrapped.           *)
LaterPlain(a, b) == a > b

(* The comparison of rt_timer_start: a is after b.                         *)
Later(a, b) == (a - b) % TickMod \in 1 .. Half - 1

(* Mutant of Reached: ticks are compared as if they never wrapped.         *)
ReachedPlain(a) == tick >= a

(* ULONG_CMP_GE(current_tick, a)                                           *)
Reached(a) == (tick - a) % TickMod <= Half

(* _rt_timer_remove                                                        *)
Removed(s, t) == [s EXCEPT !.list = RemoveFirst(@, t), !.left = [@ EXCEPT ![t] = 0]]

(* Mutant of Inserted: the flag is not set.                                *)
InsertedQuietly(s, t) ==
  LET i == SelectInSeq(s.list, LAMBDA u : Later(s.timeout[u], s.timeout[t]))
  IN  [s EXCEPT !.list = IF i = 0 THEN Append(@, t) ELSE InsertAt(@, i, t)]

(* The second half of rt_timer_start: before the first timer that is due   *)
(* later, after those that are due at the same time.                       *)
Inserted(s, t) ==
  LET i == SelectInSeq(s.list, LAMBDA u : Later(s.timeout[u], s.timeout[t]))
  IN  [s EXCEPT !.list   = IF i = 0 THEN Append(@, t) ELSE InsertAt(@, i, t),
                !.active = [@ EXCEPT ![t] = TRUE]]

(* Mutant of Due: init_tick is forgotten.                                  *)
DueNow(s, t) == [s EXCEPT !.timeout = [@ EXCEPT ![t] = tick],
                          !.left    = [@ EXCEPT ![t] = 0]]

(* timer->timeout_tick = rt_tick_get() + timer->init_tick                  *)
Due(s, t) == [s EXCEPT !.timeout = [@ EXCEPT ![t] = (tick + init[t]) % TickMod],
                       !.left    = [@ EXCEPT ![t] = init[t]]]

(* Mutant of Started: a running timer is not taken off the list first.     *)
StartedAnew(s, t) == Inserted(Due(s, t), t)

(* rt_timer_start within an interrupt                                      *)
Started(s, t) == Inserted(Due(Removed(s, t), t), t)

(* rt_timer_stop within an interrupt                                       *)
Stopped(s, t) ==
  IF s.active[t] THEN [Removed(s, t) EXCEPT !.active = [@ EXCEPT ![t] = FALSE]] ELSE s

-----------------------------------------------------------------------------
(* rt_timer_start by a thread, one action for each part of it that an      *)
(* interrupt cannot divide                                                 *)
Start(t) ==
  /\ ~checking /\ t \in User /\ pc[t] = "run"
  /\ Becomes([Removed(State, t) EXCEPT !.active = [@ EXCEPT ![t] = FALSE]])
  /\ pc' = [pc EXCEPT ![t] = "start1"]
  /\ UNCHANGED <<tick, init, checking>>

StartDue(t) ==
  /\ ~checking /\ pc[t] = "start1"
  /\ Becomes(Due(State, t))
  /\ pc' = [pc EXCEPT ![t] = "start2"]
  /\ UNCHANGED <<tick, init, checking>>

StartInsert(t) ==
  /\ ~checking /\ pc[t] = "start2"
  /\ Becomes(Inserted(State, t))
  /\ pc' = [pc EXCEPT ![t] = "run"]
  /\ UNCHANGED <<tick, init, checking>>

(* rt_timer_stop by a thread: the flag is looked at and cleared outside    *)
(* the section that removes the timer.                                     *)
Stop(t) ==
  /\ ~checking /\ t \in User /\ pc[t] = "run" /\ active[t]
  /\ pc' = [pc EXCEPT ![t] = "stop1"]
  /\ UNCHANGED <<tick, list, timeout, init, active, checking, left>>

StopRemove(t) ==
  /\ ~checking /\ pc[t] = "stop1"
  /\ Becomes(Removed(State, t))
  /\ pc' = [pc EXCEPT ![t] = "stop2"]
  /\ UNCHANGED <<tick, init, checking>>

StopClear(t) ==
  /\ ~checking /\ pc[t] = "stop2"
  /\ active' = [active EXCEPT ![t] = FALSE]
  /\ pc'     = [pc EXCEPT ![t] = "run"]
  /\ UNCHANGED <<tick, list, timeout, init, checking, left>>

(* rt_timer_detach, rt_timer_delete                                        *)
Detach(t) ==
  /\ ~checking /\ t \in User /\ pc[t] = "run"
  /\ Becomes(Removed(State, t))
  /\ pc' = [pc EXCEPT ![t] = "gone"]
  /\ UNCHANGED <<tick, init, checking>>

(* rt_timer_init, rt_timer_create                                          *)
Initialize(t, n) ==
  /\ ~checking /\ pc[t] = "gone"
  /\ active'  = [active EXCEPT ![t] = FALSE]
  /\ timeout' = [timeout EXCEPT ![t] = 0]
  /\ init'    = [init EXCEPT ![t] = n]
  /\ pc'      = [pc EXCEPT ![t] = "run"]
  /\ UNCHANGED <<tick, list, checking, left>>

(* rt_timer_control(RT_TIMER_CTRL_SET_TIME), also while the timer runs     *)
SetTime(t, n) ==
  /\ ~checking /\ t \in User /\ pc[t] = "run"
  /\ init' = [init EXCEPT ![t] = n]
  /\ UNCHANGED <<tick, list, timeout, active, pc, checking, left>>

-----------------------------------------------------------------------------
(* A time has been computed for t, which may not be in the list yet.       *)
Ticking(t) == Contains(list, t) \/ pc[t] = "start2"

(* The clock interrupt: rt_tick_increase, then rt_timer_check              *)
Tick ==
  /\ ~checking
  /\ \A t \in Timers : pc[t] = "start2" => left[t] > -MaxLate
  /\ tick' = (tick + 1) % TickMod
  /\ left' = [t \in Timers |-> IF Ticking(t) THEN left[t] - 1 ELSE left[t]]
  /\ checking' = TRUE
  /\ UNCHANGED <<list, timeout, init, active, pc>>

(* What the callback of t does.                                            *)
Callbacks(s, t) == {s} \cup {Started(s, u) : u \in Touches[t]}
                       \cup {Stopped(s, u) : u \in Touches[t]}

(* Mutant of Rearmed: a one-shot timer stays active.                       *)
RearmedActive(s, t) ==
  IF t \in Periodic /\ s.active[t] THEN Started(s, t) ELSE s

(* After the callback a periodic timer starts again, unless the callback   *)
(* stopped it; any other is marked as stopped, even if it was restarted.   *)
Rearmed(s, t) ==
  IF t \in Periodic /\ s.active[t]
  THEN Started(s, t)
  ELSE [s EXCEPT !.active = [@ EXCEPT ![t] = FALSE]]

(* One round of the loop of rt_timer_check                                 *)
Expire ==
  /\ checking /\ list # <<>> /\ Reached(timeout[Head(list)])
  /\ LET t == Head(list)
     IN  \E s \in Callbacks(Removed(State, t), t) : Becomes(Rearmed(s, t))
  /\ UNCHANGED <<tick, init, pc, checking>>

CheckEnd ==
  /\ checking /\ (list # <<>> => ~Reached(timeout[Head(list)]))
  /\ checking' = FALSE
  /\ UNCHANGED <<tick, list, timeout, init, active, pc, left>>

-----------------------------------------------------------------------------
Init ==
  /\ tick    = 0
  /\ list    = <<>>
  /\ timeout = [t \in Timers |-> 0]
  /\ init    = FirstTime
  /\ active  = [t \in Timers |-> FALSE]
  /\ pc      = [t \in Timers |-> "run"]
  /\ checking = FALSE
  /\ left    = [t \in Timers |-> 0]

Next ==
  \/ \E t \in Timers :
       \/ Start(t) \/ StartDue(t) \/ StartInsert(t)
       \/ Stop(t) \/ StopRemove(t) \/ StopClear(t)
       \/ Detach(t)
       \/ \E n \in Times : Initialize(t, n) \/ SetTime(t, n)
  \/ Tick \/ Expire \/ CheckEnd

Spec == Init /\ [][Next]_vars

-----------------------------------------------------------------------------
TypeOK ==
  /\ tick \in 0 .. TickMod - 1
  /\ list \in Seq(Timers) /\ IsInjective(list)
  /\ timeout \in [Timers -> 0 .. TickMod - 1]
  /\ init \in [Timers -> Times]
  /\ active \in [Timers -> BOOLEAN]
  /\ pc \in [Timers -> {"run", "start1", "start2", "stop1", "stop2", "gone"}]
  /\ checking \in BOOLEAN
  /\ left \in [Timers -> Int]

(* The list is sorted by the time at which the timers are really due,      *)
(* whatever the wrapped tick values look like and however long the threads *)
(* that insert them are interrupted.                                       *)
SortedByTime ==
  \A i, j \in DOMAIN list : i < j => left[list[i]] <= left[list[j]]

(* No timer fires before its time, and when the clock interrupt ends no    *)
(* timer that is due is left waiting.                                      *)
Timely ==
  [][/\ Expire => left[Head(list)] <= 0
     /\ CheckEnd => \A i \in DOMAIN list : left[list[i]] > 0]_vars

(* A timer that is marked as running is in the list, so that stopping it   *)
(* finds it and its owner waits for a callback that will come.             *)
ActiveListed ==
  \A t \in Timers : active[t] => Contains(list, t) \/ pc[t] \in {"stop2", "gone"}

(* rt_timer_stop "will stop the timer": called on a timer in the list it   *)
(* finds the flag set, and so removes the timer.  Left out are one-shot    *)
(* timers that their own callback restarts: rt_timer_check clears the flag *)
(* after the callback and the timer runs on unmarked.                      *)
StopFindsTimer ==
  \A t \in Timers :
    /\ t \in Periodic \/ t \notin Touches[t]
    /\ pc[t] = "run" /\ ~checking /\ Contains(list, t)
    => active[t]

(* The state has its type, with no timer twice in the list, and the flag   *)
(* and the list agree wherever rt_timer_stop relies on it.                 *)
FlagsExact == TypeOK /\ ActiveListed /\ StopFindsTimer

(* The number of timers that are due                                       *)
Overdue == Cardinality({i \in DOMAIN list : left[list[i]] <= 0})

(* rt_timer_check ends: every callback it makes leaves fewer timers that   *)
(* are due in this tick, whatever the callback and the rearming start.     *)
CheckShrinks == [][Expire => Overdue' < Overdue]_vars
=============================================================================
