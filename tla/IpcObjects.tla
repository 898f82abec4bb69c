----------------------------- MODULE IpcObjects -----------------------------
(***************************************************************************)
(* Threads that use an event set, a message queue, a completion and a wait *)
(* queue.  The objects share nothing but the threads: one list link, one   *)
(* timer and one error code per thread.                                    *)
(***************************************************************************)
EXTENDS Event, MessageQueue, Completion, WaitQueue

vars == <<threads, eventvars, mqvars, completionvars, wqueuevars>>

(* rt_thread_timeout in the clock interrupt: the thread leaves the list it *)
(* is in; a wait queue's list holds its node, which stays there.           *)
Timeout(t) ==
  /\ t \in timer
  /\ error'      = [error EXCEPT ![t] = "ETIMEOUT"]
  /\ timer'      = timer \ {t}
  /\ event_wait' = RemoveFirst(event_wait, t)
  /\ suspend'    = RemoveFirst(suspend, t)
  /\ sender'     = RemoveFirst(sender, t)
  /\ completion' = RemoveFirst(completion, t)
  /\ polling'    = polling \ {t}
  /\ UNCHANGED <<pc, wait, set, event_info, chainvars, mail, msg, completed, wakeup,
                 waiting_list>>

EventStep ==
  /\ \/ \E s \in (SUBSET Bit) \ {{}} : EventSend(s)
     \/ \E t \in EventUser : EventRecv(t) \/ EventResumed(t)
     \/ EventReset
  /\ UNCHANGED <<mqvars, completionvars, wqueuevars>>

MessageStep ==
  /\ \/ \E t \in MqUser : MqStep(t)
     \/ MqIrqSend
     \/ MqReset
  /\ UNCHANGED <<eventvars, completionvars, wqueuevars>>

CompletionStep ==
  /\ CompletionWait \/ CompletionResumed \/ CompletionDone
  /\ UNCHANGED <<eventvars, mqvars, wqueuevars>>

WaitQueueStep ==
  /\ \/ \E t \in WqUser : WqueueWait(t) \/ WqueueResumed(t)
     \/ WqueueWakeup
  /\ UNCHANGED <<eventvars, mqvars, completionvars>>

Init == ThreadsInit /\ EventInit /\ MqInit /\ CompletionInit /\ WqueueInit

Next ==
  \/ EventStep \/ MessageStep \/ CompletionStep \/ WaitQueueStep
  \/ \E t \in Thread : Timeout(t)

Spec == Init /\ [][Next]_vars

-----------------------------------------------------------------------------
TypeOK ==
  /\ ThreadsTypeOK /\ EventTypeOK /\ MqTypeOK /\ CompletionTypeOK /\ WqueueTypeOK
  /\ pc \in [Thread -> Calls \cup {"run", "event_recv", "completion_wait", "wqueue_wait"}]

(* The calls that a thread is suspended in                                 *)
Sleepers == [event_recv |-> Range(event_wait), mq_recv |-> Range(suspend),
             mq_send |-> Range(sender), completion_wait |-> Range(completion),
             wqueue_wait |-> polling]

ListedIn(t) == {call \in DOMAIN Sleepers : t \in Sleepers[call]}

(* A thread is suspended in the call it is in and in no other, and its     *)
(* timer runs only while it is: a timer left over from one object would    *)
(* end a wait for another.                                                 *)
OneListAtATime ==
  \A t \in Thread : /\ ListedIn(t) \subseteq {pc[t]}
                    /\ t \in timer => ListedIn(t) # {} /\ wait[t] = "ticks"

(* The state has its type, a thread and its timer belong to the one call   *)
(* it waits in, and so does its node in the wait queue.                    *)
WaitersExact == TypeOK /\ OneListAtATime /\ NodesLive

(* No thread sleeps beside what it waits for: events, a message, a free    *)
(* slot, a completion or a wake-up.                                        *)
NoLostWakeups == NoMissedEvent /\ MqNoLostWakeup /\ NoIdleCompletion /\ FlagFresh

(* A send serves its waiters in the order of the list, and an event that   *)
(* one of them clears goes to no other.                                    *)
EventsServedInOrder == EventTakenOnce /\ EventInListOrder
=============================================================================
