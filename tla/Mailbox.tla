------------------------------ MODULE Mailbox ------------------------------
(***************************************************************************)
(* A mailbox (ipc.c): a ring of mails, a list of threads that wait for one *)
(* and a list of threads that wait for room.  A resumed thread is handed   *)
(* nothing: it looks at the ring again, and another thread may have been   *)
(* faster.                                                                 *)
(*                                                                         *)
(* A step is one section with interrupts disabled.                         *)
(***************************************************************************)
EXTENDS Ipc, FiniteSets

CONSTANTS
  Thread,
  Prio,
  Flag,     \* "FIFO" or "PRIO"
  Mail,     \* what can be sent
  Size,     \* mb->size
  Timed,    \* threads that pass a timeout
  NoMail

ASSUME MailboxAssumption ==
  /\ IsFiniteSet(Thread) /\ Prio \in [Thread -> Nat]
  /\ Flag \in {"FIFO", "PRIO"}
  /\ Size \in Nat \ {0}
  /\ Timed \subseteq Thread
  /\ NoMail \notin Mail

VARIABLES
  msg_pool, entry, in_offset, out_offset,
  suspend,      \* mb->parent.suspend_thread: receivers
  sender,       \* mb->suspend_sender_thread
  timer,        \* threads whose thread_timer is running
  error,        \* thread->error
  pc,           \* "run", or in the rt_schedule of a "send" or of a "recv"
  wait,         \* the waiting time left to the call
  mail,         \* what a blocked sender sends
  received      \* *value of the last rt_mb_recv that got a mail

ring   == <<msg_pool, entry, in_offset, out_offset>>
thread == <<error, pc, wait, mail>>
vars   == <<ring, suspend, sender, timer, thread, received>>

(* no waiting, some ticks, RT_WAITING_FOREVER                              *)
Waits == {"none", "ticks", "forever"}

WaitsOf(t) == {"none", "forever"} \cup (IF t \in Timed THEN {"ticks"} ELSE {})

(* After a wait the ticks that passed are taken off a limited time.        *)
Left(w) == IF w = "ticks" THEN {"none", "ticks"} ELSE {w}

Woken(op, list) ==
  {t \in Thread : pc[t] = op /\ ~Contains(list, t) /\ error[t] = "EOK"}

-----------------------------------------------------------------------------
(* Mutant of ResumeFirst: the resumed thread's timer is not stopped.       *)
ResumeTimed(list) == UNCHANGED timer

(* rt_ipc_list_resume on a list that need not have a thread                *)
ResumeFirst(list) ==
  timer' = IF list = <<>> THEN timer ELSE timer \ {Head(list)}

Shortened(list) == IF list = <<>> THEN list ELSE Tail(list)

(* Mutant of Put: a receiver is only resumed when the mailbox was empty.   *)
PutFirst(v) ==
  /\ entry < Size
  /\ msg_pool'  = [msg_pool EXCEPT ![in_offset] = v]
  /\ in_offset' = IF in_offset + 1 >= Size THEN 0 ELSE in_offset + 1
  /\ entry'     = entry + 1
  /\ IF entry = 0 THEN suspend' = Shortened(suspend) /\ ResumeFirst(suspend)
                  ELSE UNCHANGED <<suspend, timer>>
  /\ UNCHANGED <<out_offset, sender, received>>

(* Mutant of Put: the offset wraps one place late.                         *)
PutLate(v) ==
  /\ entry < Size
  /\ msg_pool'  = [i \in DOMAIN msg_pool |-> IF i = in_offset THEN v ELSE msg_pool[i]]
  /\ in_offset' = IF in_offset + 1 > Size THEN 0 ELSE in_offset + 1
  /\ entry'     = entry + 1
  /\ suspend'   = Shortened(suspend) /\ ResumeFirst(suspend)
  /\ UNCHANGED <<out_offset, sender, received>>

(* rt_mb_send_wait when there is room                                      *)
Put(v) ==
  /\ entry < Size
  /\ msg_pool'  = [msg_pool EXCEPT ![in_offset] = v]
  /\ in_offset' = IF in_offset + 1 >= Size THEN 0 ELSE in_offset + 1
  /\ entry'     = entry + 1
  /\ suspend'   = Shortened(suspend)
  /\ ResumeFirst(suspend)
  /\ UNCHANGED <<out_offset, sender, received>>

(* Mutant of Fetch: no sender is resumed.                                  *)
FetchAlone ==
  /\ entry > 0
  /\ received'   = msg_pool[out_offset]
  /\ out_offset' = IF out_offset + 1 >= Size THEN 0 ELSE out_offset + 1
  /\ entry'      = entry - 1
  /\ UNCHANGED <<msg_pool, in_offset, suspend, sender, timer>>

(* rt_mb_recv when there is a mail                                         *)
Fetch ==
  /\ entry > 0
  /\ received'   = msg_pool[out_offset]
  /\ out_offset' = IF out_offset + 1 >= Size THEN 0 ELSE out_offset + 1
  /\ entry'      = entry - 1
  /\ sender'     = Shortened(sender)
  /\ ResumeFirst(sender)
  /\ UNCHANGED <<msg_pool, in_offset, suspend>>

(* t gives up the CPU in the middle of its call, or the call returns.      *)
Blocks(t, op, v, w) ==
  /\ w # "none"
  /\ error' = [error EXCEPT ![t] = "EOK"]
  /\ pc'    = [pc EXCEPT ![t] = op]
  /\ mail'  = [mail EXCEPT ![t] = v]
  /\ wait'  = [wait EXCEPT ![t] = w]
  /\ timer' = IF w = "ticks" THEN timer \cup {t} ELSE timer

Returns(t) ==
  /\ pc'   = [pc EXCEPT ![t] = "run"]
  /\ mail' = [mail EXCEPT ![t] = NoMail]
  /\ wait' = [wait EXCEPT ![t] = "none"]

-----------------------------------------------------------------------------
(* The loop of rt_mb_send_wait from its condition to the next rt_schedule  *)
(* or the return, with waiting time w left                                 *)
SendLoop(t, v, w) ==
  \/ Put(v) /\ Returns(t) /\ UNCHANGED error
  \/ /\ entry = Size
     /\ Blocks(t, "send", v, w)
     /\ sender' = ListSuspend(sender, t, Flag, Prio)
     /\ UNCHANGED <<ring, suspend, received>>

(* The loop of rt_mb_recv                                                  *)
RecvLoop(t, w) ==
  \/ Fetch /\ Returns(t) /\ UNCHANGED error
  \/ /\ entry = 0
     /\ Blocks(t, "recv", NoMail, w)
     /\ suspend' = ListSuspend(suspend, t, Flag, Prio)
     /\ UNCHANGED <<ring, sender, received>>

(* rt_mb_send, rt_mb_send_wait; a full mailbox and no waiting time return  *)
(* at once and change nothing.                                             *)
Send(t) ==
  /\ pc[t] = "run"
  /\ \E v \in Mail, w \in WaitsOf(t) : SendLoop(t, v, w)

Recv(t) ==
  /\ pc[t] = "run"
  /\ \E w \in WaitsOf(t) : RecvLoop(t, w)

(* rt_mb_send by an interrupt handler                                      *)
IrqSend == \E v \in Mail : Put(v) /\ UNCHANGED thread

(* A resumed call returns its error, or goes round its loop, or finds its  *)
(* time spent: -RT_EFULL, -RT_ETIMEOUT.                                    *)
SendResumed(t) ==
  /\ pc[t] = "send" /\ ~Contains(sender, t)
  /\ IF error[t] # "EOK"
     THEN Returns(t) /\ UNCHANGED <<ring, suspend, sender, timer, error, received>>
     ELSE \E w \in Left(wait[t]) :
            \/ SendLoop(t, mail[t], w)
            \/ /\ entry = Size /\ w = "none"
               /\ Returns(t)
               /\ error' = [error EXCEPT ![t] = "EOK"]
               /\ UNCHANGED <<ring, suspend, sender, timer, received>>

RecvResumed(t) ==
  /\ pc[t] = "recv" /\ ~Contains(suspend, t)
  /\ IF error[t] # "EOK"
     THEN Returns(t) /\ UNCHANGED <<ring, suspend, sender, timer, error, received>>
     ELSE \E w \in Left(wait[t]) :
            \/ RecvLoop(t, w)
            \/ /\ entry = 0 /\ w = "none"
               /\ Returns(t)
               /\ error' = [error EXCEPT ![t] = "ETIMEOUT"]
               /\ UNCHANGED <<ring, suspend, sender, timer, received>>

(* rt_thread_timeout in the clock interrupt                                *)
Timeout(t) ==
  /\ t \in timer
  /\ error'   = [error EXCEPT ![t] = "ETIMEOUT"]
  /\ suspend' = RemoveFirst(suspend, t)
  /\ sender'  = RemoveFirst(sender, t)
  /\ timer'   = timer \ {t}
  /\ UNCHANGED <<ring, pc, wait, mail, received>>

(* Mutant of Reset: the output offset is not set back.                     *)
ResetHalf ==
  /\ error'   = [t \in Thread |-> IF Contains(suspend, t) \/ Contains(sender, t)
                                  THEN "ERROR" ELSE error[t]]
  /\ timer'   = timer \ (Range(suspend) \cup Range(sender))
  /\ suspend' = <<>>
  /\ sender'  = <<>>
  /\ entry' = 0 /\ in_offset' = 0
  /\ UNCHANGED <<msg_pool, out_offset, pc, wait, mail, received>>

(* rt_mb_control(RT_IPC_CMD_RESET)                                         *)
Reset ==
  /\ error'   = [t \in Thread |-> IF Contains(suspend, t) \/ Contains(sender, t)
                                  THEN "ERROR" ELSE error[t]]
  /\ timer'   = timer \ (Range(suspend) \cup Range(sender))
  /\ suspend' = <<>>
  /\ sender'  = <<>>
  /\ entry' = 0 /\ in_offset' = 0 /\ out_offset' = 0
  /\ UNCHANGED <<msg_pool, pc, wait, mail, received>>

-----------------------------------------------------------------------------
(* rt_mb_init, rt_mb_create; the ring's memory is not initialized.         *)
Init ==
  /\ msg_pool = [i \in 0 .. Size - 1 |-> NoMail]
  /\ entry = 0 /\ in_offset = 0 /\ out_offset = 0
  /\ suspend = <<>> /\ sender = <<>>
  /\ timer = {}
  /\ error = [t \in Thread |-> "EOK"]
  /\ pc    = [t \in Thread |-> "run"]
  /\ wait  = [t \in Thread |-> "none"]
  /\ mail  = [t \in Thread |-> NoMail]
  /\ received = NoMail

Next ==
  \/ \E t \in Thread : \/ Send(t) \/ Recv(t) \/ SendResumed(t) \/ RecvResumed(t)
                       \/ Timeout(t)
  \/ IrqSend
  \/ Reset

Spec == Init /\ [][Next]_vars

(* A thread made ready carries on with its call.                           *)
Fairness == \A t \in Thread : WF_vars(SendResumed(t)) /\ WF_vars(RecvResumed(t))

FairSpec == Spec /\ Fairness

-----------------------------------------------------------------------------
TypeOK ==
  /\ msg_pool \in [0 .. Size - 1 -> Mail \cup {NoMail}]
  /\ entry \in 0 .. Size
  /\ in_offset \in 0 .. Size - 1 /\ out_offset \in 0 .. Size - 1
  /\ suspend \in Seq(Thread) /\ IsInjective(suspend)
  /\ sender \in Seq(Thread) /\ IsInjective(sender)
  /\ timer \subseteq Thread
  /\ error \in [Thread -> {"EOK", "ETIMEOUT", "ERROR"}]
  /\ pc \in [Thread -> {"run", "send", "recv"}]
  /\ wait \in [Thread -> Waits]
  /\ mail \in [Thread -> Mail \cup {NoMail}]
  /\ received \in Mail \cup {NoMail}

(* While receivers sleep, every mail in the ring has a resumed receiver on *)
(* its way to it, and while senders sleep, every free place has a resumed  *)
(* sender: no wake-up is lost to a timeout, a reset or a faster thread.    *)
NoLostWakeup ==
  /\ suspend # <<>> => entry <= Cardinality(Woken("recv", suspend))
  /\ sender # <<>>  => Size - entry <= Cardinality(Woken("send", sender))

(* A thread is in the list of the call it is in and in no other, and its   *)
(* timer only runs while it is there.                                      *)
WaitersInTheirCall ==
  /\ \A t \in Thread : /\ Contains(suspend, t) => pc[t] = "recv"
                       /\ Contains(sender, t) => pc[t] = "send"
  /\ \A t \in timer : Contains(suspend, t) \/ Contains(sender, t)

(* The state has its type, the offsets within the ring included, and the   *)
(* threads in the lists and with timers are the ones that wait.            *)
WaitersExact == TypeOK /\ WaitersInTheirCall

(* A mail does not stay in the ring while receivers sleep, nor a place     *)
(* free while senders do.                                                  *)
MailMoves ==
  /\ (entry > 0 /\ suspend # <<>>) ~> (entry = 0 \/ suspend = <<>>)
  /\ (entry < Size /\ sender # <<>>) ~> (entry = Size \/ sender = <<>>)

(* The ring with its offsets implements a bounded FIFO queue: mails are    *)
(* received in the order they were sent, none twice and none invented.     *)
Contents == [i \in 1 .. entry |-> msg_pool[(out_offset + i - 1) % Size]]

Abstract == INSTANCE BoundedFifo WITH queue <- Contents

ImplementsFifo == Abstract!FifoSpec
=============================================================================
