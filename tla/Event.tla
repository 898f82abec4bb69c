------------------------------- MODULE Event -------------------------------
(***************************************************************************)
(* An event set (ipc.c).  A waiter asks for all (AND) or for some (OR) of  *)
(* a set of events and may have what it got cleared.  rt_event_send walks  *)
(* the list once; what a waiter clears is not there for the ones behind it. *)
(***************************************************************************)
EXTENDS IpcThreads

CONSTANTS
  Bit,          \* the events
  EventUser,    \* threads that wait for them
  EventCall     \* the set and option of the calls of rt_event_recv

ASSUME EventAssumption ==
  /\ EventUser \subseteq Thread
  /\ EventCall \subseteq
       [set : (SUBSET Bit) \ {{}}, option : {"AND", "OR"}, clear : BOOLEAN]

VARIABLES
  set,          \* event->set
  event_wait,   \* event->parent.suspend_thread
  event_info    \* thread->event_set and event_info of each thread

eventvars == <<set, event_wait, event_info>>

NoInfo == [set |-> {}, option |-> "OR", clear |-> FALSE]

-----------------------------------------------------------------------------
Satisfied(info, s) ==
  IF info.option = "AND" THEN info.set \subseteq s ELSE info.set \cap s # {}

(* Mutant of Visit: all that was asked for has to be there.                *)
VisitAll(acc, t) ==
  LET info == event_info[t]
  IN  IF ~(info.set \subseteq acc.set) THEN acc
      ELSE [set |-> IF info.clear THEN acc.set \ info.set ELSE acc.set,
            list |-> RemoveFirst(acc.list, t),
            got |-> [u \in DOMAIN acc.got \cup {t} |->
                      IF u = t THEN info.set ELSE acc.got[u]]]

(* The body of rt_event_send's loop: acc.set is event->set, acc.list the   *)
(* list of threads, and acc.got what the threads resumed so far received.  *)
Visit(acc, t) ==
  LET info == event_info[t]
      got  == info.set \cap acc.set
  IN  IF ~Satisfied(info, acc.set) THEN acc
      ELSE [set |-> IF info.clear THEN acc.set \ got ELSE acc.set,
            list |-> RemoveFirst(acc.list, t),
            got |-> [u \in DOMAIN acc.got \cup {t} |->
                      IF u = t THEN got ELSE acc.got[u]]]

NoneYet(s) == [set |-> s, list |-> event_wait, got |-> [u \in {} |-> {}]]

(* Mutant of Walk: from the end of the list.                               *)
WalkBack(s) == FoldLeft(Visit, NoneYet(s), Reverse(event_wait))

(* Mutant of Walk: the events are cleared after the walk.                  *)
WalkThenClear(s) ==
  LET up == {i \in DOMAIN event_wait : Satisfied(event_info[event_wait[i]], s)}
      got == [t \in {event_wait[i] : i \in up} |-> event_info[t].set \cap s]
  IN  [set |-> s \ UNION {got[t] : t \in {u \in DOMAIN got : event_info[u].clear}},
       list |-> SelectSeq(event_wait, LAMBDA t : t \notin DOMAIN got),
       got |-> got]

Walk(s) ==
  LET walk[i \in 0 .. Len(event_wait)] ==
        IF i = 0 THEN NoneYet(s) ELSE Visit(walk[i - 1], event_wait[i])
  IN  walk[Len(event_wait)]

(* rt_event_send, by a thread or an interrupt handler                      *)
EventSend(s) ==
  LET w == Walk(set \cup s)
  IN  /\ set'        = w.set
      /\ event_wait' = w.list
      /\ event_info' = [t \in Thread |->
                         IF t \in DOMAIN w.got
                         THEN [event_info[t] EXCEPT !.set = w.got[t]]
                         ELSE event_info[t]]
      /\ Resume(DOMAIN w.got)
      /\ UNCHANGED <<error, pc, wait>>

(* rt_event_recv.  When the events are there it takes them; without        *)
(* waiting time it returns -RT_ETIMEOUT and changes nothing.               *)
EventRecv(t) ==
  /\ pc[t] = "run"
  /\ \E info \in EventCall :
       \/ /\ Satisfied(info, set)
          /\ set' = IF info.clear THEN set \ info.set ELSE set
          /\ UNCHANGED <<event_wait, event_info, threads>>
       \/ /\ ~Satisfied(info, set)
          /\ \E w \in WaitsOf(t) : Blocks(t, "event_recv", w)
          /\ event_info' = [event_info EXCEPT ![t] = info]
          /\ event_wait' = ListSuspend(event_wait, t, Flag, Prio)
          /\ UNCHANGED set

(* The rest of rt_event_recv: an error is returned, and otherwise          *)
(* thread->event_set is what was received.                                 *)
EventResumed(t) ==
  /\ pc[t] = "event_recv" /\ ~Contains(event_wait, t)
  /\ Returns(t)
  /\ event_info' = [event_info EXCEPT ![t] = NoInfo]
  /\ UNCHANGED <<set, event_wait, timer>>

(* rt_event_control(RT_IPC_CMD_RESET)                                      *)
EventReset ==
  /\ ResumeAll(Range(event_wait))
  /\ event_wait' = <<>>
  /\ set' = {}
  /\ UNCHANGED event_info

(* rt_event_init starts without events, rt_event_create with any.          *)
EventInit ==
  /\ set \in SUBSET Bit
  /\ event_wait = <<>>
  /\ event_info = [t \in Thread |-> NoInfo]

-----------------------------------------------------------------------------
EventTypeOK ==
  /\ set \subseteq Bit
  /\ event_wait \in Seq(Thread) /\ IsInjective(event_wait)
  /\ event_info \in
       [Thread -> [set : SUBSET Bit, option : {"AND", "OR"}, clear : BOOLEAN]]

(* No thread sleeps while the events it asked for are set: neither a send  *)
(* that another waiter cleared from, nor a receiver, leaves it behind.     *)
NoMissedEvent ==
  \A i \in DOMAIN event_wait : ~Satisfied(event_info[event_wait[i]], set)

(* rt_event_send wakes t: what it received is in its event_info.           *)
ServedNow(t) ==
  /\ Contains(event_wait, t) /\ ~Contains(event_wait', t)
  /\ error'[t] = "EOK"

ClearsNow(t) == ServedNow(t) /\ event_info[t].clear

(* An event that a woken waiter cleared went to it alone: no other thread  *)
(* that clears received it in the same send, and it is no longer set.      *)
TakenOnceNow ==
  \A t \in Thread : ClearsNow(t) =>
    /\ event_info'[t].set \cap set' = {}
    /\ \A u \in Thread \ {t} :
         ClearsNow(u) => event_info'[t].set \cap event_info'[u].set = {}

EventTakenOnce == [][TakenOnceNow]_eventvars

(* A waiter that a send could have satisfied and that sleeps on lost an    *)
(* event to a waiter in front of it in the list.                           *)
OfferedNow ==
  set' \cup UNION {event_info'[t].set : t \in {u \in Thread : ServedNow(u)}}

ListOrderNow ==
  \A i \in DOMAIN event_wait :
    LET t == event_wait[i]
    IN  /\ Contains(event_wait', t)
        /\ Satisfied(event_info[t], OfferedNow)
        => \E j \in 1 .. i - 1 :
             /\ ClearsNow(event_wait[j])
             /\ event_info'[event_wait[j]].set \cap event_info[t].set # {}

EventInListOrder == [][ListOrderNow]_eventvars
=============================================================================
