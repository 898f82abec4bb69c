---------------------------- MODULE MessageFifo ----------------------------
(***************************************************************************)
(* What a message queue promises: messages leave in the order they were    *)
(* queued, urgent ones before the others, each to one thread, which gets   *)
(* it unchanged.  A message takes up its place until it is delivered.      *)
(***************************************************************************)
EXTENDS Integers, Sequences, FiniteSets

CONSTANTS Thread, Mail, NoMail, Size

VARIABLES
  queue,
  pending   \* what each thread took off the queue and has not got yet

messagevars == <<queue, pending>>

Room == Len(queue) + Cardinality({t \in Thread : pending[t] # NoMail}) < Size

MessageInit == queue = <<>> /\ pending = [t \in Thread |-> NoMail]

Queue(v) == Room /\ queue' = Append(queue, v) /\ UNCHANGED pending

Urgent(v) == Room /\ queue' = <<v>> \o queue /\ UNCHANGED pending

Take(t) ==
  /\ queue # <<>> /\ pending[t] = NoMail
  /\ pending' = [pending EXCEPT ![t] = Head(queue)]
  /\ queue'   = Tail(queue)

Deliver(t) ==
  /\ pending[t] # NoMail
  /\ pending' = [pending EXCEPT ![t] = NoMail]
  /\ UNCHANGED queue

Discard == queue' = <<>> /\ UNCHANGED pending

MessageNext ==
  \/ \E v \in Mail : Queue(v) \/ Urgent(v)
  \/ \E t \in Thread : Take(t) \/ Deliver(t)
  \/ Discard

MessageSpec == MessageInit /\ [][MessageNext]_messagevars
=============================================================================
