---------------------------- MODULE BoundedFifo ----------------------------
(***************************************************************************)
(* What a mailbox promises to its users: mails come out in the order they  *)
(* went in, each of them once, and never more than Size are kept.          *)
(***************************************************************************)
EXTENDS Integers, Sequences

CONSTANTS Mail, Size, NoMail

VARIABLES queue, received

fifovars == <<queue, received>>

FifoInit == queue = <<>> /\ received = NoMail

Put(v) == /\ Len(queue) < Size
          /\ queue' = Append(queue, v)
          /\ UNCHANGED received

Get == /\ queue # <<>>
       /\ received' = Head(queue)
       /\ queue' = Tail(queue)

Clear == queue' = <<>> /\ UNCHANGED received

FifoNext == (\E v \in Mail : Put(v)) \/ Get \/ Clear

FifoSpec == FifoInit /\ [][FifoNext]_fifovars
=============================================================================
