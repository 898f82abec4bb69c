---------------------------- MODULE MessageQueue ----------------------------
(***************************************************************************)
(* A message queue (ipc.c): message slots on a free list or in the chain   *)
(* of queued messages, both linked through next.  A sender takes a slot    *)
(* off the free list, fills it with interrupts enabled and links it later; *)
(* a receiver takes a slot off the chain, copies it out with interrupts    *)
(* enabled and frees it later.  In between the slot is in no list.         *)
(***************************************************************************)
EXTENDS IpcThreads

CONSTANTS
  MqUser,   \* threads that call it
  Slot,     \* the messages of mq->msg_pool
  Mail,     \* what can be sent
  NoMail,
  Null

ASSUME MessageQueueAssumption ==
  /\ MqUser \subseteq Thread
  /\ IsFiniteSet(Slot) /\ Slot # {}
  /\ Null \notin Slot
  /\ NoMail \notin Mail

VARIABLES
  next, content,        \* of each message slot
  msg_queue_head, msg_queue_tail, msg_queue_free,
  entry,
  suspend,              \* mq->parent.suspend_thread: receivers
  sender,               \* mq->suspend_sender_thread
  mail,                 \* what a thread sends
  msg                   \* the slot a call has taken

chainvars == <<next, content, msg_queue_head, msg_queue_tail, msg_queue_free, entry>>
mqvars    == <<chainvars, suspend, sender, mail, msg>>

Calls == {"mq_send", "mq_link", "mq_link_head", "mq_recv", "mq_copy"}

Holds(t) == pc[t] \in {"mq_link", "mq_link_head", "mq_copy"}

(* The slots from p on; the links are followed at most Cardinality(Slot)   *)
(* times.                                                                  *)
ChainFrom(links, p) ==
  LET walk[k \in 0 .. Cardinality(Slot)] ==
        [s \in Slot \cup {Null} |->
          IF k = 0 \/ s = Null THEN <<>> ELSE <<s>> \o walk[k - 1][links[s]]]
  IN  walk[Cardinality(Slot)][p]

Chain    == ChainFrom(next, msg_queue_head)
FreeList == ChainFrom(next, msg_queue_free)

-----------------------------------------------------------------------------
(* The end of rt_mq_send_wait: m is filled and becomes the tail, and a     *)
(* receiver is resumed.                                                    *)
Link(m, v) ==
  LET tail == IF msg_queue_tail = Null THEN m ELSE msg_queue_tail
  IN  /\ next' = [next EXCEPT ![tail] = m, ![m] = Null]
      /\ content' = [content EXCEPT ![m] = v]
      /\ msg_queue_tail' = m
      /\ msg_queue_head' = IF msg_queue_head = Null THEN m ELSE msg_queue_head
      /\ entry' = entry + 1
      /\ suspend' = Shortened(suspend)
      /\ Resume(First(suspend))

(* Mutant of LinkHead: the head and the tail of a queue that was empty are *)
(* both counted.                                                           *)
LinkHeadTwice(m, v) ==
  /\ next' = [next EXCEPT ![m] = msg_queue_head]
  /\ content' = [content EXCEPT ![m] = v]
  /\ msg_queue_head' = m
  /\ msg_queue_tail' = IF msg_queue_tail = Null THEN m ELSE msg_queue_tail
  /\ entry' = entry + 1 + (IF msg_queue_tail = Null THEN 1 ELSE 0)
  /\ suspend' = Shortened(suspend) /\ Resume(First(suspend))

(* Mutant of LinkHead: the tail of a queue that was empty is not set.      *)
LinkHeadOnly(m, v) ==
  /\ next' = [next EXCEPT ![m] = msg_queue_head]
  /\ content' = [content EXCEPT ![m] = v]
  /\ msg_queue_head' = m
  /\ UNCHANGED msg_queue_tail
  /\ entry' = entry + 1
  /\ suspend' = Shortened(suspend) /\ Resume(First(suspend))

(* The end of rt_mq_urgent: m becomes the head.                            *)
LinkHead(m, v) ==
  /\ next' = [next EXCEPT ![m] = msg_queue_head]
  /\ content' = [content EXCEPT ![m] = v]
  /\ msg_queue_head' = m
  /\ msg_queue_tail' = IF msg_queue_tail = Null THEN m ELSE msg_queue_tail
  /\ entry' = entry + 1
  /\ suspend' = Shortened(suspend)
  /\ Resume(First(suspend))

(* msg = mq->msg_queue_free is moved off the free list; the slot is filled *)
(* and linked at step at.                                                  *)
TakeFree(t, v, at) ==
  /\ msg_queue_free # Null
  /\ msg_queue_free' = next[msg_queue_free]
  /\ msg'  = [msg EXCEPT ![t] = msg_queue_free]
  /\ mail' = [mail EXCEPT ![t] = v]
  /\ GoesOn(t, at)
  /\ UNCHANGED <<next, content, msg_queue_head, msg_queue_tail, entry, suspend, sender, timer, error>>

(* Mutant of TakeFirst: the slot is freed before it is copied.             *)
TakeAndFree(t) ==
  LET m == msg_queue_head
  IN  /\ entry > 0
      /\ msg_queue_head' = next[m]
      /\ msg_queue_tail' = IF msg_queue_tail = m THEN Null ELSE msg_queue_tail
      /\ next' = [next EXCEPT ![m] = msg_queue_free]
      /\ msg_queue_free' = m
      /\ entry' = entry - 1
      /\ msg' = [msg EXCEPT ![t] = m]
      /\ GoesOn(t, "mq_copy")
      /\ UNCHANGED <<content, suspend, sender, mail, timer, error>>

(* rt_mq_recv takes the head of the chain.                                 *)
TakeFirst(t) ==
  LET m == msg_queue_head
  IN  /\ entry > 0
      /\ msg_queue_head' = next[m]
      /\ msg_queue_tail' = IF msg_queue_tail = m THEN Null ELSE msg_queue_tail
      /\ entry' = entry - 1
      /\ msg' = [msg EXCEPT ![t] = m]
      /\ GoesOn(t, "mq_copy")
      /\ UNCHANGED <<next, content, msg_queue_free, suspend, sender, mail,
                     timer, error>>

-----------------------------------------------------------------------------
(* The loop of rt_mq_send_wait with waiting time w left                    *)
MqSendLoop(t, v, w) ==
  \/ TakeFree(t, v, "mq_link")
  \/ /\ msg_queue_free = Null
     /\ Blocks(t, "mq_send", w)
     /\ sender' = ListSuspend(sender, t, Flag, Prio)
     /\ mail'   = [mail EXCEPT ![t] = v]
     /\ UNCHANGED <<chainvars, suspend, msg>>

(* The loop of rt_mq_recv                                                  *)
MqRecvLoop(t, w) ==
  \/ TakeFirst(t)
  \/ /\ entry = 0
     /\ Blocks(t, "mq_recv", w)
     /\ suspend' = ListSuspend(suspend, t, Flag, Prio)
     /\ UNCHANGED <<chainvars, sender, mail, msg>>

(* rt_mq_send, rt_mq_send_wait; without a free slot and without waiting    *)
(* time they return at once.                                               *)
MqSend(t) ==
  /\ pc[t] = "run"
  /\ \E v \in Mail, w \in WaitsOf(t) : MqSendLoop(t, v, w)

(* rt_mq_urgent never waits.                                               *)
MqUrgent(t) == pc[t] = "run" /\ \E v \in Mail : TakeFree(t, v, "mq_link_head")

MqRecv(t) ==
  /\ pc[t] = "run"
  /\ \E w \in WaitsOf(t) : MqRecvLoop(t, w)

(* The slot is filled and linked.                                          *)
MqLink(t) ==
  /\ \/ pc[t] = "mq_link" /\ Link(msg[t], mail[t])
     \/ pc[t] = "mq_link_head" /\ LinkHead(msg[t], mail[t])
  /\ Returns(t)
  /\ mail' = [mail EXCEPT ![t] = NoMail]
  /\ msg'  = [msg EXCEPT ![t] = Null]
  /\ UNCHANGED <<msg_queue_free, sender>>

(* Mutant of MqCopy: no sender is resumed.                                 *)
MqCopyAlone(t) ==
  /\ pc[t] = "mq_copy"
  /\ next' = [next EXCEPT ![msg[t]] = msg_queue_free]
  /\ msg_queue_free' = msg[t]
  /\ msg' = [msg EXCEPT ![t] = Null]
  /\ Returns(t)
  /\ UNCHANGED <<content, msg_queue_head, msg_queue_tail, entry, suspend, sender, mail,
                 timer>>

(* The message is copied to the caller, the slot freed, a sender resumed.  *)
(* What is left in a free slot is never read: the model forgets it.        *)
MqCopy(t) ==
  /\ pc[t] = "mq_copy"
  /\ next' = [next EXCEPT ![msg[t]] = msg_queue_free]
  /\ msg_queue_free' = msg[t]
  /\ msg' = [msg EXCEPT ![t] = Null]
  /\ sender' = Shortened(sender)
  /\ Resume(First(sender))
  /\ Returns(t)
  /\ content' = [content EXCEPT ![msg[t]] = NoMail]
  /\ UNCHANGED <<msg_queue_head, msg_queue_tail, entry, suspend, mail>>

(* rt_mq_send and rt_mq_urgent by an interrupt handler, which no thread    *)
(* interrupts.  A nested handler can: what it then meets, a slot taken and *)
(* not yet linked, is what a thread leaves between MqSend and MqLink.      *)
MqIrqSend ==
  /\ msg_queue_free # Null
  /\ msg_queue_free' = next[msg_queue_free]
  /\ \E v \in Mail : Link(msg_queue_free, v) \/ LinkHead(msg_queue_free, v)
  /\ UNCHANGED <<sender, mail, msg, error, pc, wait>>

(* A resumed call returns its error, goes round its loop, or finds its     *)
(* time spent: -RT_EFULL, -RT_ETIMEOUT.                                    *)
MqSendResumed(t) ==
  /\ pc[t] = "mq_send" /\ ~Contains(sender, t)
  /\ \/ /\ error[t] = "EOK"
        /\ \E w \in Left(wait[t]) : MqSendLoop(t, mail[t], w)
     \/ /\ \/ error[t] # "EOK"
           \/ "none" \in Left(wait[t]) /\ msg_queue_free = Null
        /\ Returns(t)
        /\ mail' = [mail EXCEPT ![t] = NoMail]
        /\ UNCHANGED <<chainvars, suspend, sender, msg, timer>>

MqRecvResumed(t) ==
  /\ pc[t] = "mq_recv" /\ ~Contains(suspend, t)
  /\ \/ /\ error[t] = "EOK"
        /\ \E w \in Left(wait[t]) : MqRecvLoop(t, w)
     \/ /\ \/ error[t] # "EOK"
           \/ "none" \in Left(wait[t]) /\ entry = 0
        /\ Returns(t)
        /\ UNCHANGED <<mqvars, timer>>

(* rt_mq_control(RT_IPC_CMD_RESET): the slots of the chain go to the free  *)
(* list one by one.  A slot that a call has taken stays with the call.     *)
MqReset ==
  LET q == Chain
  IN  /\ ResumeAll(Range(suspend) \cup Range(sender))
      /\ suspend' = <<>> /\ sender' = <<>>
      /\ next' = [s \in Slot |->
                   IF ~Contains(q, s) THEN next[s]
                   ELSE LET i == SelectInSeq(q, LAMBDA r : r = s)
                        IN  IF i = 1 THEN msg_queue_free ELSE q[i - 1]]
      /\ msg_queue_free' = IF q = <<>> THEN msg_queue_free ELSE Last(q)
      /\ msg_queue_head' = Null
      /\ msg_queue_tail' = IF Contains(q, msg_queue_tail) THEN Null ELSE msg_queue_tail
      /\ entry' = 0
      /\ content' = [s \in Slot |-> IF Contains(q, s) THEN NoMail ELSE content[s]]
      /\ UNCHANGED <<mail, msg>>

-----------------------------------------------------------------------------
(* rt_mq_init, rt_mq_create: every slot is pushed on the free list.        *)
MqInit ==
  \E all \in SetToSeqs(Slot) :
      /\ next = [s \in Slot |->
                  LET i == SelectInSeq(all, LAMBDA r : r = s)
                  IN  IF i = 1 THEN Null ELSE all[i - 1]]
      /\ msg_queue_free = Last(all)
      /\ content = [s \in Slot |-> NoMail]
      /\ msg_queue_head = Null /\ msg_queue_tail = Null
      /\ entry = 0
      /\ suspend = <<>> /\ sender = <<>>
      /\ mail = [t \in Thread |-> NoMail]
      /\ msg  = [t \in Thread |-> Null]

MqStep(t) ==
  MqSend(t) \/ MqUrgent(t) \/ MqRecv(t) \/ MqLink(t) \/ MqCopy(t)
    \/ MqSendResumed(t) \/ MqRecvResumed(t)

-----------------------------------------------------------------------------
MqTypeOK ==
  /\ next \in [Slot -> Slot \cup {Null}]
  /\ content \in [Slot -> Mail \cup {NoMail}]
  /\ {msg_queue_head, msg_queue_tail, msg_queue_free} \subseteq Slot \cup {Null}
  /\ entry \in 0 .. Cardinality(Slot)
  /\ suspend \in Seq(Thread) /\ IsInjective(suspend)
  /\ sender \in Seq(Thread) /\ IsInjective(sender)
  /\ mail \in [Thread -> Mail \cup {NoMail}]
  /\ msg \in [Thread -> Slot \cup {Null}]

(* Every slot is in exactly one place: on the free list, in the chain, or  *)
(* with one call between its two sections; entry counts the chain and the  *)
(* tail is its last slot.  No slot is lost or in two hands, whatever       *)
(* interrupts a copy.                                                      *)
SlotsPartitioned ==
  LET held == {t \in Thread : Holds(t)}
  IN  /\ IsInjective(Chain \o FreeList)
      /\ Range(Chain \o FreeList) = Slot \ {msg[t] : t \in held}
      /\ \A t, u \in held : msg[t] = msg[u] => t = u
      /\ Cardinality(held) + Len(Chain) + Len(FreeList) = Cardinality(Slot)
      /\ entry = Len(Chain)
      /\ msg_queue_tail = IF Chain = <<>> THEN Null ELSE Last(Chain)

MqWoken(call, list) ==
  {t \in Thread : pc[t] = call /\ ~Contains(list, t) /\ error[t] = "EOK"}

(* While receivers sleep, every queued message has a resumed receiver on   *)
(* its way, and while senders sleep every free slot has a resumed sender.  *)
MqNoLostWakeup ==
  /\ suspend # <<>> => entry <= Cardinality(MqWoken("mq_recv", suspend))
  /\ sender # <<>> => Len(FreeList) <= Cardinality(MqWoken("mq_send", sender))

(* Through the links and the copies outside the sections, the queue is a   *)
(* FIFO with urgent messages, and a thread is given the message that it    *)
(* took off the chain.                                                     *)
Abstract == INSTANCE MessageFifo WITH
  queue   <- [i \in 1 .. Len(Chain) |-> content[Chain[i]]],
  pending <- [t \in Thread |-> IF pc[t] = "mq_copy" THEN content[msg[t]] ELSE NoMail],
  Size    <- Cardinality(Slot)

ImplementsMessageFifo == Abstract!MessageSpec
=============================================================================
