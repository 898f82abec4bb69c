---------------------------- MODULE MailboxProofs ----------------------------
(***************************************************************************)
(* Proofs about Mailbox, for any finite set of threads, any size of the    *)
(* ring and either order of waiting.                                       *)
(***************************************************************************)
EXTENDS Mailbox, KernelLemmas

-----------------------------------------------------------------------------
(* The ring *)

RingTypes ==
  /\ msg_pool \in [0 .. Size - 1 -> Mail \cup {NoMail}]
  /\ entry \in 0 .. Size
  /\ in_offset \in 0 .. Size - 1 /\ out_offset \in 0 .. Size - 1
  /\ received \in Mail \cup {NoMail}

(* The next mail is put right behind the last one.                         *)
RingInv == RingTypes /\ in_offset = (out_offset + entry) % Size

(* The place of the mail that is k places behind the first one             *)
Place(k) == IF out_offset + k < Size THEN out_offset + k ELSE out_offset + k - Size

LEMMA PlaceMod ==
  ASSUME RingInv, NEW k \in 0 .. Size
  PROVE  (out_offset + k) % Size = Place(k) /\ Place(k) \in 0 .. Size - 1
  <1>1. Size \in Nat \ {0} /\ out_offset \in 0 .. Size - 1
    BY MailboxAssumption DEF RingInv, RingTypes
  <1>2. (out_offset + k) % Size = Place(k)
    BY <1>1, ModRing DEF Place
  <1>3. Place(k) \in 0 .. Size - 1
    BY <1>1 DEF Place
  <1> QED BY <1>2, <1>3

ContentsFacts ==
  /\ Contents \in Seq(Mail \cup {NoMail}) /\ Len(Contents) = entry
  /\ \A i \in 1 .. entry : Contents[i] = msg_pool[Place(i - 1)]
  /\ Contents = <<>> <=> entry = 0

LEMMA ContentsSeq == RingInv => ContentsFacts
  <1> SUFFICES ASSUME RingInv PROVE ContentsFacts
    OBVIOUS
  <1>1. entry \in Nat /\ \A i \in 1 .. entry : i - 1 \in 0 .. Size
    BY MailboxAssumption DEF RingInv, RingTypes
  <1>2. Contents = [i \in 1 .. entry |-> msg_pool[Place(i - 1)]]
    <2>1. \A i \in 1 .. entry : (out_offset + i - 1) % Size = Place(i - 1)
      <3> TAKE i \in 1 .. entry
      <3>1. out_offset + i - 1 = out_offset + (i - 1)
        BY <1>1 DEF RingInv, RingTypes
      <3> QED BY <1>1, <3>1, PlaceMod
    <2> QED BY <2>1 DEF Contents
  <1>3. \A i \in 1 .. entry : msg_pool[Place(i - 1)] \in Mail \cup {NoMail}
    BY <1>1, PlaceMod DEF RingInv, RingTypes
  <1>4. Contents \in Seq(Mail \cup {NoMail}) /\ Len(Contents) = entry
    BY <1>1, <1>2, <1>3
  <1> QED BY <1>1, <1>2, <1>4 DEF ContentsFacts

(* rt_mb_send_wait with room: the mail is the last one of the ring.        *)
LEMMA PutRing ==
  ASSUME RingInv, NEW v \in Mail, Put(v)
  PROVE  RingInv' /\ Abstract!Put(v)
  <1>0. /\ Size \in Nat \ {0} /\ entry \in 0 .. Size - 1
        /\ in_offset \in 0 .. Size - 1 /\ out_offset \in 0 .. Size - 1
        /\ in_offset = Place(entry)
        /\ msg_pool \in [0 .. Size - 1 -> Mail \cup {NoMail}]
    <2>1. Size \in Nat \ {0} /\ entry \in 0 .. Size - 1
      BY MailboxAssumption DEF Put, RingInv, RingTypes
    <2> QED BY <2>1, PlaceMod DEF RingInv, RingTypes
  <1>1. /\ msg_pool' = [msg_pool EXCEPT ![in_offset] = v]
        /\ in_offset' = IF in_offset + 1 >= Size THEN 0 ELSE in_offset + 1
        /\ entry' = entry + 1
        /\ out_offset' = out_offset /\ received' = received
    BY DEF Put
  <1>2. RingTypes'
    BY <1>0, <1>1 DEF RingInv, RingTypes
  <1>3. in_offset' = (out_offset' + entry') % Size
    <2>1. entry' \in 0 .. Size
      BY <1>0, <1>1
    <2>2. (out_offset + entry') % Size = Place(entry')
      BY <2>1, PlaceMod
    <2>3. Place(entry') = in_offset'
      BY <1>0, <1>1 DEF Place
    <2> QED BY <1>1, <2>2, <2>3
  <1>4. RingInv'
    BY <1>2, <1>3 DEF RingInv
  <1>5. \A k \in 0 .. Size : Place(k)' = Place(k)
    BY <1>1 DEF Place
  <1>6. Contents' = Append(Contents, v)
    <2> DEFINE c == Contents
               d == Contents'
    <2>1. /\ c \in Seq(Mail \cup {NoMail}) /\ Len(c) = entry
          /\ \A i \in 1 .. entry : c[i] = msg_pool[Place(i - 1)]
      BY ContentsSeq DEF ContentsFacts
    <2>2. /\ d \in Seq(Mail \cup {NoMail}) /\ Len(d) = entry + 1
          /\ \A i \in 1 .. entry + 1 : d[i] = msg_pool'[Place(i - 1)]
      <3>1. /\ d \in Seq(Mail \cup {NoMail}) /\ Len(d) = entry'
            /\ \A i \in 1 .. entry' : d[i] = msg_pool'[Place(i - 1)']
        <4>1. ContentsFacts'
          BY <1>4, ContentsSeq, PTL
        <4> QED BY <4>1 DEF ContentsFacts
      <3>2. \A i \in 1 .. entry' : Place(i - 1)' = Place(i - 1)
        BY <1>0, <1>1, <1>5
      <3> QED BY <1>1, <3>1, <3>2
    <2> HIDE DEF c, d
    <2>3. /\ Append(c, v) \in Seq(Mail \cup {NoMail}) /\ Len(Append(c, v)) = entry + 1
          /\ \A i \in 1 .. entry : Append(c, v)[i] = c[i]
          /\ Append(c, v)[entry + 1] = v
      BY <1>0, <2>1
    <2>4. ASSUME NEW i \in 1 .. entry + 1 PROVE d[i] = Append(c, v)[i]
      <3>1. CASE i = entry + 1
        <4>1. d[i] = msg_pool'[Place(entry)]
          BY <1>0, <2>2, <3>1
        <4> QED BY <1>0, <1>1, <2>3, <3>1, <4>1
      <3>2. CASE i \in 1 .. entry
        <4>1. Place(i - 1) \in 0 .. Size - 1 /\ Place(i - 1) # in_offset
          BY <1>0, <3>2 DEF Place
        <4>2. d[i] = msg_pool[Place(i - 1)]
          BY <1>0, <1>1, <2>2, <3>2, <4>1
        <4> QED BY <2>1, <2>3, <3>2, <4>2
      <3>3. i = entry + 1 \/ i \in 1 .. entry
        BY <1>0
      <3> QED BY <3>1, <3>2, <3>3, Zenon
    <2>5. d = Append(c, v)
      BY <2>2, <2>3, <2>4, SeqEqual
    <2> QED BY <2>5 DEF c, d
  <1>7. Len(Contents) < Size
    BY <1>0, ContentsSeq DEF ContentsFacts
  <1> QED BY <1>1, <1>4, <1>6, <1>7 DEF Abstract!Put

(* rt_mb_recv with a mail: it is the first one of the ring.                *)
LEMMA FetchRing ==
  ASSUME RingInv, Fetch
  PROVE  RingInv' /\ Abstract!Get
  <1>0. /\ Size \in Nat \ {0} /\ entry \in 1 .. Size
        /\ out_offset \in 0 .. Size - 1 /\ in_offset = Place(entry)
        /\ msg_pool \in [0 .. Size - 1 -> Mail \cup {NoMail}]
    <2>1. Size \in Nat \ {0} /\ entry \in 1 .. Size
      BY MailboxAssumption DEF Fetch, RingInv, RingTypes
    <2> QED BY <2>1, PlaceMod DEF RingInv, RingTypes
  <1>1. /\ received' = msg_pool[out_offset]
        /\ out_offset' = IF out_offset + 1 >= Size THEN 0 ELSE out_offset + 1
        /\ entry' = entry - 1
        /\ UNCHANGED <<msg_pool, in_offset>>
    BY DEF Fetch
  <1>2. RingTypes'
    BY <1>0, <1>1 DEF RingInv, RingTypes
  <1>3. \A k \in 0 .. Size - 1 : Place(k)' = Place(k + 1)
    BY <1>0, <1>1 DEF Place
  <1>4. in_offset' = (out_offset' + entry') % Size
    <2>1. out_offset' \in 0 .. Size - 1 /\ entry' \in 0 .. Size
      BY <1>0, <1>1
    <2>2. (out_offset' + entry') % Size =
            IF out_offset' + entry' < Size THEN out_offset' + entry'
                                           ELSE out_offset' + entry' - Size
      BY <1>0, <2>1, ModRing
    <2>3. Place(entry) = IF out_offset' + entry' < Size THEN out_offset' + entry'
                                                        ELSE out_offset' + entry' - Size
      BY <1>0, <1>1 DEF Place
    <2> QED BY <1>0, <1>1, <2>2, <2>3
  <1>5. RingInv'
    BY <1>2, <1>4 DEF RingInv
  <1>6. Contents # <<>> /\ received' = Head(Contents)
    <2>1. /\ Contents \in Seq(Mail \cup {NoMail}) /\ Len(Contents) = entry
          /\ Contents[1] = msg_pool[Place(0)] /\ Contents # <<>>
      BY <1>0, ContentsSeq DEF ContentsFacts
    <2>2. Place(0) = out_offset
      BY <1>0 DEF Place
    <2> QED BY <1>1, <2>1, <2>2
  <1>7. Contents' = Tail(Contents)
    <2> DEFINE c == Contents
               d == Contents'
    <2>1. /\ c \in Seq(Mail \cup {NoMail}) /\ Len(c) = entry /\ c # <<>>
          /\ \A i \in 1 .. entry : c[i] = msg_pool[Place(i - 1)]
      BY <1>6, ContentsSeq DEF ContentsFacts
    <2>2. /\ d \in Seq(Mail \cup {NoMail}) /\ Len(d) = entry - 1
          /\ \A i \in 1 .. entry - 1 : d[i] = msg_pool[Place(i)]
      <3>1. /\ d \in Seq(Mail \cup {NoMail}) /\ Len(d) = entry'
            /\ \A i \in 1 .. entry' : d[i] = msg_pool'[Place(i - 1)']
        <4>1. ContentsFacts'
          BY <1>5, ContentsSeq, PTL
        <4> QED BY <4>1 DEF ContentsFacts
      <3>2. \A i \in 1 .. entry' : Place(i - 1)' = Place(i)
        BY <1>0, <1>1, <1>3
      <3> QED BY <1>1, <3>1, <3>2
    <2> HIDE DEF c, d
    <2>3. /\ Tail(c) \in Seq(Mail \cup {NoMail}) /\ Len(Tail(c)) = entry - 1
          /\ \A i \in 1 .. entry - 1 : Tail(c)[i] = c[i + 1]
      BY <1>0, <2>1, HeadTailProperties
    <2>4. ASSUME NEW i \in 1 .. entry - 1 PROVE d[i] = Tail(c)[i]
      <3>1. i + 1 \in 1 .. entry /\ (i + 1) - 1 = i
        BY <1>0
      <3>2. c[i + 1] = msg_pool[Place((i + 1) - 1)]
        BY <2>1, <3>1
      <3> QED BY <2>2, <2>3, <3>1, <3>2
    <2>5. d = Tail(c)
      BY <2>2, <2>3, <2>4, SeqEqual
    <2> QED BY <2>5 DEF c, d
  <1> QED BY <1>5, <1>6, <1>7 DEF Abstract!Get

LEMMA ResetRing ==
  ASSUME RingInv, Reset
  PROVE  RingInv' /\ Abstract!Clear
  <1>1. /\ Size \in Nat \ {0}
        /\ entry' = 0 /\ in_offset' = 0 /\ out_offset' = 0
        /\ UNCHANGED <<msg_pool, received>>
    BY MailboxAssumption DEF Reset
  <1>2. 0 % Size = 0 /\ 0 \in 0 .. Size - 1
    BY <1>1, ModSmall
  <1>3. RingInv'
    <2>1. RingTypes'
      BY <1>1, <1>2 DEF RingInv, RingTypes
    <2> QED BY <1>1, <1>2, <2>1 DEF RingInv
  <1>4. ContentsFacts'
    BY <1>3, ContentsSeq, PTL
  <1> QED BY <1>1, <1>3, <1>4 DEF ContentsFacts, Abstract!Clear

LEMMA IdleRing ==
  ASSUME RingInv, UNCHANGED <<ring, received>>
  PROVE  RingInv' /\ UNCHANGED Abstract!fifovars
  BY DEF RingInv, RingTypes, ring, Abstract!fifovars, Contents

-----------------------------------------------------------------------------
(* Threads and lists *)

(* A thread in a list has not failed, and a blocked sender has a mail.     *)
ListedWait ==
  \A t \in Thread : Contains(suspend, t) \/ Contains(sender, t) => error[t] = "EOK"

Carried == \A t \in Thread : pc[t] = "send" => mail[t] \in Mail

ThreadTypes ==
  /\ suspend \in Seq(Thread) /\ IsInjective(suspend)
  /\ sender \in Seq(Thread) /\ IsInjective(sender)
  /\ timer \subseteq Thread
  /\ error \in [Thread -> {"EOK", "ETIMEOUT", "ERROR"}]
  /\ pc \in [Thread -> {"run", "send", "recv"}]
  /\ wait \in [Thread -> Waits]
  /\ mail \in [Thread -> Mail \cup {NoMail}]

ListInv == ThreadTypes /\ WaitersInTheirCall /\ ListedWait /\ Carried

MailInv == RingInv /\ ListInv /\ NoLostWakeup

(* What a step does, once its guards are forgotten that do not matter      *)
PutBy(t, v) ==
  /\ v \in Mail /\ pc[t] # "recv" /\ ~Contains(sender, t)
  /\ Put(v) /\ Returns(t) /\ UNCHANGED error

FetchBy(t) ==
  /\ pc[t] # "send" /\ ~Contains(suspend, t)
  /\ Fetch /\ Returns(t) /\ UNCHANGED error

BlockSend(t, v, w) ==
  /\ v \in Mail /\ w \in Waits /\ pc[t] # "recv" /\ ~Contains(sender, t)
  /\ entry = Size
  /\ Blocks(t, "send", v, w)
  /\ sender' = ListSuspend(sender, t, Flag, Prio)
  /\ UNCHANGED <<ring, suspend, received>>

BlockRecv(t, w) ==
  /\ w \in Waits /\ pc[t] # "send" /\ ~Contains(suspend, t)
  /\ entry = 0
  /\ Blocks(t, "recv", NoMail, w)
  /\ suspend' = ListSuspend(suspend, t, Flag, Prio)
  /\ UNCHANGED <<ring, sender, received>>

(* A call that returns without a mail or a place was not counted on.       *)
Quit(t) ==
  /\ ~Contains(sender, t) /\ ~Contains(suspend, t)
  /\ error[t] # "EOK" \/ (pc[t] = "recv" /\ entry = 0) \/ (pc[t] = "send" /\ entry = Size)
  /\ Returns(t)
  /\ \E e \in {"EOK", "ETIMEOUT", "ERROR"} : error' = [error EXCEPT ![t] = e]
  /\ UNCHANGED <<ring, suspend, sender, timer, received>>

LEMMA StepKinds ==
  ASSUME ListInv, Next
  PROVE  \/ \E t \in Thread :
              \/ \E v \in Mail : PutBy(t, v) \/ \E w \in Waits : BlockSend(t, v, w)
              \/ FetchBy(t) \/ \E w \in Waits : BlockRecv(t, w)
              \/ Quit(t) \/ Timeout(t)
         \/ IrqSend \/ Reset
  <1> DEFINE Goal(t) == \/ \E v \in Mail : PutBy(t, v) \/ \E w \in Waits : BlockSend(t, v, w)
                        \/ FetchBy(t) \/ \E w \in Waits : BlockRecv(t, w)
                        \/ Quit(t) \/ Timeout(t)
  <1>0. \A t \in Thread : /\ pc[t] \in {"run", "send", "recv"}
                          /\ pc[t] # "send" => ~Contains(sender, t)
                          /\ pc[t] # "recv" => ~Contains(suspend, t)
                          /\ WaitsOf(t) \subseteq Waits /\ Left(wait[t]) \subseteq Waits
    BY DEF ListInv, ThreadTypes, WaitersInTheirCall, WaitsOf, Left, Waits
  <1>1. ASSUME NEW t \in Thread, NEW v \in Mail, NEW w \in Waits,
               pc[t] # "recv", ~Contains(sender, t), SendLoop(t, v, w)
        PROVE  Goal(t)
    BY <1>1 DEF SendLoop, PutBy, BlockSend
  <1>2. ASSUME NEW t \in Thread, NEW w \in Waits,
               pc[t] # "send", ~Contains(suspend, t), RecvLoop(t, w)
        PROVE  Goal(t)
    BY <1>2 DEF RecvLoop, FetchBy, BlockRecv
  <1>3. ASSUME NEW t \in Thread, Send(t) PROVE Goal(t)
    <2>1. PICK v \in Mail, w \in WaitsOf(t) : SendLoop(t, v, w)
      BY <1>3 DEF Send
    <2> QED BY <1>0, <1>1, <1>3, <2>1 DEF Send
  <1>4. ASSUME NEW t \in Thread, Recv(t) PROVE Goal(t)
    <2>1. PICK w \in WaitsOf(t) : RecvLoop(t, w)
      BY <1>4 DEF Recv
    <2> QED BY <1>0, <1>2, <1>4, <2>1 DEF Recv
  <1>5. ASSUME NEW t \in Thread, SendResumed(t) PROVE Goal(t)
    <2>0. /\ pc[t] = "send" /\ ~Contains(sender, t) /\ ~Contains(suspend, t)
          /\ mail[t] \in Mail
      BY <1>0, <1>5 DEF SendResumed, ListInv, Carried
    <2>1. CASE /\ error[t] # "EOK" /\ Returns(t)
               /\ UNCHANGED <<ring, suspend, sender, timer, error, received>>
      <3>1. error[t] \in {"EOK", "ETIMEOUT", "ERROR"} /\ error' = [error EXCEPT ![t] = error[t]]
        BY <2>1 DEF ListInv, ThreadTypes
      <3>2. Quit(t)
        BY <2>0, <2>1, <3>1 DEF Quit
      <3> QED BY <3>2
    <2>2. CASE \E w \in Left(wait[t]) : SendLoop(t, mail[t], w)
      BY <1>0, <1>1, <2>0, <2>2
    <2>3. CASE /\ entry = Size /\ Returns(t)
               /\ error' = [error EXCEPT ![t] = "EOK"]
               /\ UNCHANGED <<ring, suspend, sender, timer, received>>
      <3>1. Quit(t)
        BY <2>0, <2>3 DEF Quit
      <3> QED BY <3>1
    <2> QED BY <1>5, <2>1, <2>2, <2>3 DEF SendResumed
  <1>6. ASSUME NEW t \in Thread, RecvResumed(t) PROVE Goal(t)
    <2>0. pc[t] = "recv" /\ ~Contains(sender, t) /\ ~Contains(suspend, t)
      BY <1>0, <1>6 DEF RecvResumed
    <2>1. CASE /\ error[t] # "EOK" /\ Returns(t)
               /\ UNCHANGED <<ring, suspend, sender, timer, error, received>>
      <3>1. error[t] \in {"EOK", "ETIMEOUT", "ERROR"} /\ error' = [error EXCEPT ![t] = error[t]]
        BY <2>1 DEF ListInv, ThreadTypes
      <3>2. Quit(t)
        BY <2>0, <2>1, <3>1 DEF Quit
      <3> QED BY <3>2
    <2>2. CASE \E w \in Left(wait[t]) : RecvLoop(t, w)
      BY <1>0, <1>2, <2>0, <2>2
    <2>3. CASE /\ entry = 0 /\ Returns(t)
               /\ error' = [error EXCEPT ![t] = "ETIMEOUT"]
               /\ UNCHANGED <<ring, suspend, sender, timer, received>>
      <3>1. Quit(t)
        BY <2>0, <2>3 DEF Quit
      <3> QED BY <3>1
    <2> QED BY <1>6, <2>1, <2>2, <2>3 DEF RecvResumed
  <1> HIDE DEF Goal
  <1>7. (\E t \in Thread : Goal(t) \/ Timeout(t)) \/ IrqSend \/ Reset
    BY <1>3, <1>4, <1>5, <1>6 DEF Next
  <1> QED BY <1>7 DEF Goal

-----------------------------------------------------------------------------
(* Lists after a step *)

(* rt_ipc_list_resume takes the first thread off a list that has one.      *)
LEMMA ShortList ==
  ASSUME NEW q \in Seq(Thread), IsInjective(q)
  PROVE  /\ Shortened(q) \in Seq(Thread) /\ IsInjective(Shortened(q))
         /\ \A x : Contains(Shortened(q), x) <=> Contains(q, x) /\ (q = <<>> \/ x # Head(q))
         /\ q # <<>> => Head(q) \in Thread /\ Contains(q, Head(q))
  <1>1. CASE q = <<>>
    <2>1. Shortened(q) = q
      BY <1>1 DEF Shortened
    <2> QED BY <1>1, <2>1
  <1>2. CASE q # <<>>
    <2>1. Shortened(q) = Tail(q)
      BY <1>2 DEF Shortened
    <2>2. /\ Tail(q) \in Seq(Thread) /\ IsInjective(Tail(q))
          /\ \A x : Contains(Tail(q), x) <=> Contains(q, x) /\ x # Head(q)
      BY <1>2, TailContains
    <2>3. Head(q) \in Thread /\ Contains(q, Head(q))
      BY <1>2, HeadContains
    <2> QED BY <1>2, <2>1, <2>2, <2>3
  <1> QED BY <1>1, <1>2

(* A thread between two lists, and what a step of it leaves alone          *)
LEMMA ReturnFacts ==
  ASSUME ListInv, NEW t \in Thread, Returns(t)
  PROVE  /\ pc' \in [Thread -> {"run", "send", "recv"}] /\ pc'[t] = "run"
         /\ wait' \in [Thread -> Waits] /\ mail' \in [Thread -> Mail \cup {NoMail}]
         /\ \A x \in Thread \ {t} : pc'[x] = pc[x] /\ mail'[x] = mail[x]
  BY DEF Returns, ListInv, ThreadTypes, Waits

LEMMA BlockFacts ==
  ASSUME ListInv, NEW t \in Thread, NEW op \in {"send", "recv"},
         NEW v \in Mail \cup {NoMail}, NEW w \in Waits, Blocks(t, op, v, w)
  PROVE  /\ pc' \in [Thread -> {"run", "send", "recv"}] /\ pc'[t] = op
         /\ wait' \in [Thread -> Waits] /\ mail' \in [Thread -> Mail \cup {NoMail}]
         /\ error' \in [Thread -> {"EOK", "ETIMEOUT", "ERROR"}] /\ error'[t] = "EOK"
         /\ mail'[t] = v /\ timer' \subseteq timer \cup {t}
         /\ \A x \in Thread \ {t} :
              pc'[x] = pc[x] /\ mail'[x] = mail[x] /\ error'[x] = error[x]
  BY DEF Blocks, ListInv, ThreadTypes, Waits

LEMMA PutLists ==
  ASSUME ListInv, NEW v \in Mail, Put(v), UNCHANGED error,
         pc' \in [Thread -> {"run", "send", "recv"}], wait' \in [Thread -> Waits],
         mail' \in [Thread -> Mail \cup {NoMail}],
         \A x \in Thread : \/ pc'[x] = pc[x] /\ mail'[x] = mail[x]
                           \/ pc'[x] = "run" /\ ~Contains(suspend, x) /\ ~Contains(sender, x)
  PROVE  ListInv'
  <1>0. suspend \in Seq(Thread) /\ IsInjective(suspend) /\ timer \subseteq Thread
    BY DEF ListInv, ThreadTypes
  <1>1. /\ suspend' = Shortened(suspend)
        /\ timer' = IF suspend = <<>> THEN timer ELSE timer \ {Head(suspend)}
        /\ sender' = sender
    BY DEF Put, ResumeFirst
  <1>2. /\ suspend' \in Seq(Thread) /\ IsInjective(suspend')
        /\ \A x : Contains(suspend', x) <=>
                    Contains(suspend, x) /\ (suspend = <<>> \/ x # Head(suspend))
    BY <1>0, <1>1, ShortList
  <1>3. ThreadTypes'
    BY <1>0, <1>1, <1>2 DEF ListInv, ThreadTypes
  <1>4. WaitersInTheirCall'
    BY <1>0, <1>1, <1>2 DEF ListInv, WaitersInTheirCall
  <1>5. ListedWait' /\ Carried'
    BY <1>1, <1>2 DEF ListInv, ListedWait, Carried
  <1> QED BY <1>3, <1>4, <1>5 DEF ListInv

LEMMA FetchLists ==
  ASSUME ListInv, NEW t \in Thread, FetchBy(t)
  PROVE  ListInv'
  <1>0. sender \in Seq(Thread) /\ IsInjective(sender) /\ timer \subseteq Thread
    BY DEF ListInv, ThreadTypes
  <1>1. /\ sender' = Shortened(sender)
        /\ timer' = IF sender = <<>> THEN timer ELSE timer \ {Head(sender)}
        /\ suspend' = suspend /\ error' = error
        /\ ~Contains(suspend, t) /\ ~Contains(sender, t)
    BY DEF FetchBy, Fetch, ResumeFirst, ListInv, WaitersInTheirCall
  <1>2. /\ sender' \in Seq(Thread) /\ IsInjective(sender')
        /\ \A x : Contains(sender', x) <=>
                    Contains(sender, x) /\ (sender = <<>> \/ x # Head(sender))
    BY <1>0, <1>1, ShortList
  <1>3. /\ pc' \in [Thread -> {"run", "send", "recv"}] /\ pc'[t] = "run"
        /\ wait' \in [Thread -> Waits] /\ mail' \in [Thread -> Mail \cup {NoMail}]
        /\ \A x \in Thread \ {t} : pc'[x] = pc[x] /\ mail'[x] = mail[x]
    BY ReturnFacts DEF FetchBy
  <1>4. ThreadTypes'
    BY <1>0, <1>1, <1>2, <1>3 DEF ListInv, ThreadTypes
  <1>5. WaitersInTheirCall'
    BY <1>0, <1>1, <1>2, <1>3 DEF ListInv, WaitersInTheirCall
  <1>6. ListedWait' /\ Carried'
    BY <1>1, <1>2, <1>3 DEF ListInv, ListedWait, Carried
  <1> QED BY <1>4, <1>5, <1>6 DEF ListInv

LEMMA BlockLists ==
  ASSUME ListInv, NEW t \in Thread,
         (\E v \in Mail, w \in Waits : BlockSend(t, v, w))
           \/ \E w \in Waits : BlockRecv(t, w)
  PROVE  ListInv'
  <1>0. /\ sender \in Seq(Thread) /\ IsInjective(sender)
        /\ suspend \in Seq(Thread) /\ IsInjective(suspend) /\ timer \subseteq Thread
    BY DEF ListInv, ThreadTypes
  <1>1. ASSUME NEW v \in Mail, NEW w \in Waits, BlockSend(t, v, w) PROVE ListInv'
    <2>1. /\ ~Contains(sender, t) /\ ~Contains(suspend, t) /\ suspend' = suspend
          /\ sender' = ListSuspend(sender, t, Flag, Prio)
      BY <1>1 DEF BlockSend, ListInv, WaitersInTheirCall
    <2>2. /\ sender' \in Seq(Thread) /\ IsInjective(sender')
          /\ \A x : Contains(sender', x) <=> Contains(sender, x) \/ x = t
      BY <1>0, <2>1, ListSuspendContains
    <2>3. /\ pc' \in [Thread -> {"run", "send", "recv"}] /\ pc'[t] = "send"
          /\ wait' \in [Thread -> Waits] /\ mail' \in [Thread -> Mail \cup {NoMail}]
          /\ error' \in [Thread -> {"EOK", "ETIMEOUT", "ERROR"}] /\ error'[t] = "EOK"
          /\ mail'[t] = v /\ timer' \subseteq timer \cup {t}
          /\ \A x \in Thread \ {t} :
               pc'[x] = pc[x] /\ mail'[x] = mail[x] /\ error'[x] = error[x]
      BY <1>1, BlockFacts DEF BlockSend
    <2>4. ThreadTypes'
      BY <1>0, <2>1, <2>2, <2>3 DEF ThreadTypes
    <2>5. WaitersInTheirCall'
      BY <1>0, <2>1, <2>2, <2>3 DEF ListInv, WaitersInTheirCall
    <2>6. ListedWait' /\ Carried'
      BY <2>1, <2>2, <2>3 DEF ListInv, ListedWait, Carried
    <2> QED BY <2>4, <2>5, <2>6 DEF ListInv
  <1>2. ASSUME NEW w \in Waits, BlockRecv(t, w) PROVE ListInv'
    <2>1. /\ ~Contains(sender, t) /\ ~Contains(suspend, t) /\ sender' = sender
          /\ suspend' = ListSuspend(suspend, t, Flag, Prio)
      BY <1>2 DEF BlockRecv, ListInv, WaitersInTheirCall
    <2>2. /\ suspend' \in Seq(Thread) /\ IsInjective(suspend')
          /\ \A x : Contains(suspend', x) <=> Contains(suspend, x) \/ x = t
      BY <1>0, <2>1, ListSuspendContains
    <2>3. /\ pc' \in [Thread -> {"run", "send", "recv"}] /\ pc'[t] = "recv"
          /\ wait' \in [Thread -> Waits] /\ mail' \in [Thread -> Mail \cup {NoMail}]
          /\ error' \in [Thread -> {"EOK", "ETIMEOUT", "ERROR"}] /\ error'[t] = "EOK"
          /\ timer' \subseteq timer \cup {t}
          /\ \A x \in Thread \ {t} :
               pc'[x] = pc[x] /\ mail'[x] = mail[x] /\ error'[x] = error[x]
      BY <1>2, BlockFacts DEF BlockRecv
    <2>4. ThreadTypes'
      BY <1>0, <2>1, <2>2, <2>3 DEF ThreadTypes
    <2>5. WaitersInTheirCall'
      BY <1>0, <2>1, <2>2, <2>3 DEF ListInv, WaitersInTheirCall
    <2>6. ListedWait' /\ Carried'
      BY <2>1, <2>2, <2>3 DEF ListInv, ListedWait, Carried
    <2> QED BY <2>4, <2>5, <2>6 DEF ListInv
  <1> QED BY <1>1, <1>2

LEMMA QuitLists ==
  ASSUME ListInv, NEW t \in Thread, Quit(t)
  PROVE  ListInv'
  <1>1. /\ ~Contains(sender, t) /\ ~Contains(suspend, t)
        /\ UNCHANGED <<suspend, sender, timer>>
        /\ error' \in [Thread -> {"EOK", "ETIMEOUT", "ERROR"}]
        /\ \A x \in Thread \ {t} : error'[x] = error[x]
    BY DEF Quit, ListInv, ThreadTypes
  <1>2. /\ pc' \in [Thread -> {"run", "send", "recv"}] /\ pc'[t] = "run"
        /\ wait' \in [Thread -> Waits] /\ mail' \in [Thread -> Mail \cup {NoMail}]
        /\ \A x \in Thread \ {t} : pc'[x] = pc[x] /\ mail'[x] = mail[x]
    BY ReturnFacts DEF Quit
  <1>3. ThreadTypes'
    BY <1>1, <1>2 DEF ListInv, ThreadTypes
  <1>4. WaitersInTheirCall'
    BY <1>1, <1>2 DEF ListInv, WaitersInTheirCall
  <1>5. ListedWait' /\ Carried'
    BY <1>1, <1>2 DEF ListInv, ListedWait, Carried
  <1> QED BY <1>3, <1>4, <1>5 DEF ListInv

LEMMA TimeoutLists ==
  ASSUME ListInv, NEW t \in Thread, Timeout(t)
  PROVE  /\ ListInv'
         /\ \A x : Contains(suspend', x) <=> Contains(suspend, x) /\ x # t
         /\ \A x : Contains(sender', x) <=> Contains(sender, x) /\ x # t
  <1>0. /\ sender \in Seq(Thread) /\ IsInjective(sender)
        /\ suspend \in Seq(Thread) /\ IsInjective(suspend) /\ timer \subseteq Thread
    BY DEF ListInv, ThreadTypes
  <1>1. /\ suspend' = RemoveFirst(suspend, t) /\ sender' = RemoveFirst(sender, t)
        /\ error' = [error EXCEPT ![t] = "ETIMEOUT"]
        /\ timer' = timer \ {t} /\ UNCHANGED <<pc, wait, mail>>
    BY DEF Timeout
  <1>2. /\ suspend' \in Seq(Thread) /\ IsInjective(suspend')
        /\ \A x : Contains(suspend', x) <=> Contains(suspend, x) /\ x # t
    BY <1>0, <1>1, RemoveContains
  <1>3. /\ sender' \in Seq(Thread) /\ IsInjective(sender')
        /\ \A x : Contains(sender', x) <=> Contains(sender, x) /\ x # t
    BY <1>0, <1>1, RemoveContains
  <1>4. ThreadTypes'
    BY <1>1, <1>2, <1>3 DEF ListInv, ThreadTypes
  <1>5. WaitersInTheirCall'
    BY <1>0, <1>1, <1>2, <1>3 DEF ListInv, WaitersInTheirCall
  <1>6. ListedWait' /\ Carried'
    BY <1>1, <1>2, <1>3 DEF ListInv, ThreadTypes, ListedWait, Carried
  <1> QED BY <1>2, <1>3, <1>4, <1>5, <1>6 DEF ListInv

LEMMA ResetLists ==
  ASSUME ListInv, Reset
  PROVE  ListInv' /\ suspend' = <<>> /\ sender' = <<>>
  <1>0. /\ sender \in Seq(Thread) /\ suspend \in Seq(Thread) /\ timer \subseteq Thread
    BY DEF ListInv, ThreadTypes
  <1>1. /\ suspend' = <<>> /\ sender' = <<>> /\ UNCHANGED <<pc, wait, mail>>
        /\ error' = [t \in Thread |-> IF Contains(suspend, t) \/ Contains(sender, t)
                                      THEN "ERROR" ELSE error[t]]
        /\ timer' = timer \ (Range(suspend) \cup Range(sender))
    BY DEF Reset
  <1>2. \A x : ~Contains(<<>>, x)
    BY DEF Contains
  <1>3. timer' = {}
    <2>1. \A x \in timer : x \in Range(suspend) \cup Range(sender)
      BY <1>0, RangeContains DEF ListInv, WaitersInTheirCall
    <2> QED BY <1>1, <2>1
  <1>4. ThreadTypes'
    <2>1. IsInjective(<<>>) /\ <<>> \in Seq(Thread)
      BY DEF IsInjective
    <2> QED BY <1>1, <1>3, <2>1 DEF ListInv, ThreadTypes
  <1>5. WaitersInTheirCall' /\ ListedWait' /\ Carried'
    BY <1>1, <1>2, <1>3 DEF ListInv, WaitersInTheirCall, ListedWait, Carried
  <1> QED BY <1>1, <1>4, <1>5 DEF ListInv

-----------------------------------------------------------------------------
(* Wake-ups *)

LEMMA WokenFinite ==
  ASSUME NEW op, NEW list
  PROVE  IsFiniteSet(Woken(op, list)) /\ Cardinality(Woken(op, list)) \in Nat
  <1>1. Woken(op, list) \subseteq Thread /\ IsFiniteSet(Thread)
    BY MailboxAssumption DEF Woken
  <1> QED BY <1>1, FS_Subset, FS_CardinalityType

(* A mail for which a receiver sleeps comes with a resumed receiver, and   *)
(* takes the place of at most one resumed sender.                          *)
LEMMA PutWakes ==
  ASSUME MailInv, NEW v, Put(v), UNCHANGED error, NEW t,
         \A x \in Thread \ {t} : pc'[x] = pc[x],
         \A x \in Thread : pc'[x] = "recv" <=> pc[x] = "recv"
  PROVE  NoLostWakeup'
  <1> DEFINE R  == Woken("recv", suspend)
             Rn == Woken("recv", suspend)'
             W  == Woken("send", sender)
             Wn == Woken("send", sender)'
  <1>0. /\ entry \in 0 .. Size /\ Size \in Nat /\ entry' = entry + 1
        /\ suspend' = Shortened(suspend) /\ sender' = sender
        /\ suspend \in Seq(Thread) /\ IsInjective(suspend)
    BY MailboxAssumption DEF Put, MailInv, RingInv, RingTypes, ListInv, ThreadTypes
  <1>1. /\ IsFiniteSet(R) /\ IsFiniteSet(W) /\ IsFiniteSet(Rn) /\ IsFiniteSet(Wn)
        /\ Cardinality(R) \in Nat /\ Cardinality(W) \in Nat
        /\ Cardinality(Rn) \in Nat /\ Cardinality(Wn) \in Nat
    <2>1. Rn \subseteq Thread /\ Wn \subseteq Thread /\ IsFiniteSet(Thread)
      BY MailboxAssumption DEF Woken
    <2> QED BY <2>1, WokenFinite, FS_Subset, FS_CardinalityType
  <1>2. ASSUME suspend' # <<>> PROVE entry' <= Cardinality(Rn)
    <2>1. /\ suspend # <<>> /\ Head(suspend) \in Thread /\ Contains(suspend, Head(suspend))
          /\ \A x : Contains(suspend', x) <=> Contains(suspend, x) /\ x # Head(suspend)
      <3>1. suspend # <<>>
        BY <1>0, <1>2 DEF Shortened
      <3> QED BY <1>0, <3>1, ShortList
    <2>2. pc[Head(suspend)] = "recv" /\ error[Head(suspend)] = "EOK"
      BY <2>1 DEF MailInv, ListInv, WaitersInTheirCall, ListedWait
    <2>3. Head(suspend) \notin R /\ Head(suspend) \in Rn
      BY <2>1, <2>2 DEF Woken
    <2>4. R \subseteq Rn
      BY <2>1 DEF Woken
    <2>5. entry <= Cardinality(R)
      BY <2>1 DEF MailInv, NoLostWakeup
    <2> HIDE DEF R, Rn
    <2>6. Cardinality(R) + 1 <= Cardinality(Rn)
      BY <1>1, <2>3, <2>4, CardGrow
    <2> QED BY <1>0, <1>1, <2>5, <2>6
  <1>3. ASSUME sender' # <<>> PROVE Size - entry' <= Cardinality(Wn)
    <2>1. W \ {t} \subseteq Wn
      BY <1>0 DEF Woken
    <2>2. Size - entry <= Cardinality(W)
      BY <1>0, <1>3 DEF MailInv, NoLostWakeup
    <2> HIDE DEF W, Wn
    <2>3. Cardinality(W) <= Cardinality(Wn) + 1
      BY <1>1, <2>1, CardDrop
    <2> QED BY <1>0, <1>1, <2>2, <2>3
  <1> QED BY <1>2, <1>3 DEF NoLostWakeup

LEMMA FetchWakes ==
  ASSUME MailInv, NEW t \in Thread, FetchBy(t)
  PROVE  NoLostWakeup'
  <1> DEFINE R  == Woken("recv", suspend)
             Rn == Woken("recv", suspend)'
             W  == Woken("send", sender)
             Wn == Woken("send", sender)'
  <1>0. /\ entry \in 0 .. Size /\ Size \in Nat /\ entry' = entry - 1
        /\ sender' = Shortened(sender) /\ suspend' = suspend /\ error' = error
        /\ sender \in Seq(Thread) /\ IsInjective(sender) /\ pc[t] # "send"
    BY MailboxAssumption DEF FetchBy, Fetch, MailInv, RingInv, RingTypes, ListInv, ThreadTypes
  <1>t. pc'[t] = "run" /\ \A x \in Thread \ {t} : pc'[x] = pc[x]
    BY ReturnFacts DEF FetchBy, MailInv
  <1>1. /\ IsFiniteSet(R) /\ IsFiniteSet(W) /\ IsFiniteSet(Rn) /\ IsFiniteSet(Wn)
        /\ Cardinality(R) \in Nat /\ Cardinality(W) \in Nat
        /\ Cardinality(Rn) \in Nat /\ Cardinality(Wn) \in Nat
    <2>1. Rn \subseteq Thread /\ Wn \subseteq Thread /\ IsFiniteSet(Thread)
      BY MailboxAssumption DEF Woken
    <2> QED BY <2>1, WokenFinite, FS_Subset, FS_CardinalityType
  <1>2. ASSUME sender' # <<>> PROVE Size - entry' <= Cardinality(Wn)
    <2>1. /\ sender # <<>> /\ Head(sender) \in Thread /\ Contains(sender, Head(sender))
          /\ \A x : Contains(sender', x) <=> Contains(sender, x) /\ x # Head(sender)
      <3>1. sender # <<>>
        BY <1>0, <1>2 DEF Shortened
      <3> QED BY <1>0, <3>1, ShortList
    <2>2. pc[Head(sender)] = "send" /\ error[Head(sender)] = "EOK" /\ Head(sender) # t
      BY <1>0, <2>1 DEF MailInv, ListInv, WaitersInTheirCall, ListedWait
    <2>3. Head(sender) \notin W /\ Head(sender) \in Wn
      BY <1>0, <1>t, <2>1, <2>2 DEF Woken
    <2>4. W \subseteq Wn
      BY <1>0, <1>t, <2>1 DEF Woken
    <2>5. Size - entry <= Cardinality(W)
      BY <2>1 DEF MailInv, NoLostWakeup
    <2> HIDE DEF W, Wn
    <2>6. Cardinality(W) + 1 <= Cardinality(Wn)
      BY <1>1, <2>3, <2>4, CardGrow
    <2> QED BY <1>0, <1>1, <2>5, <2>6
  <1>3. ASSUME suspend' # <<>> PROVE entry' <= Cardinality(Rn)
    <2>1. R \ {t} \subseteq Rn
      BY <1>0, <1>t DEF Woken
    <2>2. entry <= Cardinality(R)
      BY <1>0, <1>3 DEF MailInv, NoLostWakeup
    <2> HIDE DEF R, Rn
    <2>3. Cardinality(R) <= Cardinality(Rn) + 1
      BY <1>1, <2>1, CardDrop
    <2> QED BY <1>0, <1>1, <2>2, <2>3
  <1> QED BY <1>2, <1>3 DEF NoLostWakeup

(* A step that fills and empties nothing may take a thread out of the      *)
(* woken ones only when nothing is there for it.                           *)
LEMMA IdleWakes ==
  ASSUME MailInv, UNCHANGED entry,
         \/ entry = 0
         \/ suspend' = <<>>
         \/ suspend # <<>> /\ Woken("recv", suspend) \subseteq Woken("recv", suspend)',
         \/ entry = Size
         \/ sender' = <<>>
         \/ sender # <<>> /\ Woken("send", sender) \subseteq Woken("send", sender)'
  PROVE  NoLostWakeup'
  <1> DEFINE R  == Woken("recv", suspend)
             Rn == Woken("recv", suspend)'
             W  == Woken("send", sender)
             Wn == Woken("send", sender)'
  <1>0. entry \in 0 .. Size /\ Size \in Nat
    BY MailboxAssumption DEF MailInv, RingInv, RingTypes
  <1>1. /\ IsFiniteSet(R) /\ IsFiniteSet(W) /\ IsFiniteSet(Rn) /\ IsFiniteSet(Wn)
        /\ Cardinality(R) \in Nat /\ Cardinality(W) \in Nat
        /\ Cardinality(Rn) \in Nat /\ Cardinality(Wn) \in Nat
    <2>1. Rn \subseteq Thread /\ Wn \subseteq Thread /\ IsFiniteSet(Thread)
      BY MailboxAssumption DEF Woken
    <2> QED BY <2>1, WokenFinite, FS_Subset, FS_CardinalityType
  <1>2. /\ entry = 0 \/ suspend' = <<>> \/ (suspend # <<>> /\ R \subseteq Rn)
        /\ entry = Size \/ sender' = <<>> \/ (sender # <<>> /\ W \subseteq Wn)
        /\ suspend # <<>> => entry <= Cardinality(R)
        /\ sender # <<>> => Size - entry <= Cardinality(W)
    BY DEF MailInv, NoLostWakeup
  <1>3. NoLostWakeup' <=> /\ suspend' # <<>> => entry' <= Cardinality(Rn)
                          /\ sender' # <<>> => Size - entry' <= Cardinality(Wn)
    BY DEF NoLostWakeup
  <1> HIDE DEF R, Rn, W, Wn
  <1>4. R \subseteq Rn => Cardinality(R) <= Cardinality(Rn)
    BY <1>1, FS_Subset
  <1>5. W \subseteq Wn => Cardinality(W) <= Cardinality(Wn)
    BY <1>1, FS_Subset
  <1> QED BY <1>0, <1>1, <1>2, <1>3, <1>4, <1>5

-----------------------------------------------------------------------------
LEMMA MailInit == Init => MailInv /\ Abstract!FifoInit
  <1> SUFFICES ASSUME Init PROVE MailInv /\ Abstract!FifoInit
    OBVIOUS
  <1>0. \A x : ~Contains(<<>>, x)
    BY DEF Contains
  <1>1. RingInv
    <2>1. Size \in Nat \ {0} /\ 0 \in 0 .. Size - 1 /\ 0 % Size = 0
      BY MailboxAssumption, ModSmall
    <2> QED BY <2>1 DEF Init, RingInv, RingTypes
  <1>2. ListInv
    <2>1. IsInjective(<<>>) /\ <<>> \in Seq(Thread)
      BY DEF IsInjective
    <2> QED BY <1>0, <2>1 DEF Init, ListInv, ThreadTypes, Waits, WaitersInTheirCall,
                              ListedWait, Carried
  <1>3. NoLostWakeup
    BY DEF Init, NoLostWakeup
  <1>4. Abstract!FifoInit
    BY <1>1, ContentsSeq DEF Init, ContentsFacts, Abstract!FifoInit
  <1> QED BY <1>1, <1>2, <1>3, <1>4 DEF MailInv

(* Each section keeps the invariant and is a step of the abstract queue.   *)
LEMMA MailNext ==
  MailInv /\ [Next]_vars => MailInv' /\ [Abstract!FifoNext]_(Abstract!fifovars)
  <1> DEFINE Goal == MailInv' /\ (Abstract!FifoNext \/ UNCHANGED Abstract!fifovars)
  <1> SUFFICES ASSUME MailInv, [Next]_vars PROVE Goal
    OBVIOUS
  <1>0. RingInv /\ ListInv
    BY DEF MailInv
  <1>1. ASSUME NEW t \in Thread, NEW v \in Mail, PutBy(t, v) PROVE Goal
    <2>1. Put(v) /\ UNCHANGED error /\ pc[t] # "recv" /\ ~Contains(suspend, t) /\ ~Contains(sender, t)
      BY <1>0, <1>1 DEF PutBy, ListInv, WaitersInTheirCall
    <2>2. /\ pc' \in [Thread -> {"run", "send", "recv"}] /\ pc'[t] = "run"
          /\ wait' \in [Thread -> Waits] /\ mail' \in [Thread -> Mail \cup {NoMail}]
          /\ \A x \in Thread \ {t} : pc'[x] = pc[x] /\ mail'[x] = mail[x]
      BY <1>0, <1>1, ReturnFacts DEF PutBy
    <2>3. ListInv'
      BY <1>0, <2>1, <2>2, PutLists
    <2>4. NoLostWakeup'
      BY <2>1, <2>2, PutWakes
    <2>5. RingInv' /\ Abstract!Put(v)
      BY <1>0, <2>1, PutRing
    <2> QED BY <2>3, <2>4, <2>5 DEF MailInv, Abstract!FifoNext
  <1>2. ASSUME NEW t \in Thread, FetchBy(t) PROVE Goal
    <2>1. RingInv' /\ Abstract!Get
      BY <1>0, <1>2, FetchRing DEF FetchBy
    <2> QED BY <1>0, <1>2, <2>1, FetchLists, FetchWakes DEF MailInv, Abstract!FifoNext
  <1>3. ASSUME NEW t \in Thread, NEW v \in Mail, NEW w \in Waits, BlockSend(t, v, w) PROVE Goal
    <2>1. /\ UNCHANGED <<ring, received>> /\ entry = Size /\ suspend' = suspend
          /\ pc[t] # "recv"
      BY <1>3 DEF BlockSend
    <2>2. /\ pc'[t] = "send"
          /\ \A x \in Thread \ {t} : pc'[x] = pc[x] /\ error'[x] = error[x]
      BY <1>0, <1>3, BlockFacts DEF BlockSend
    <2>3. Woken("recv", suspend) \subseteq Woken("recv", suspend)'
      BY <2>1, <2>2 DEF Woken
    <2>4. NoLostWakeup'
      BY <2>1, <2>3, IdleWakes DEF ring
    <2>5. RingInv' /\ UNCHANGED Abstract!fifovars
      BY <1>0, <2>1, IdleRing
    <2> QED BY <1>0, <1>3, <2>4, <2>5, BlockLists DEF MailInv
  <1>4. ASSUME NEW t \in Thread, NEW w \in Waits, BlockRecv(t, w) PROVE Goal
    <2>1. /\ UNCHANGED <<ring, received>> /\ entry = 0 /\ sender' = sender
          /\ pc[t] # "send"
      BY <1>4 DEF BlockRecv
    <2>2. /\ pc'[t] = "recv"
          /\ \A x \in Thread \ {t} : pc'[x] = pc[x] /\ error'[x] = error[x]
      BY <1>0, <1>4, BlockFacts DEF BlockRecv
    <2>3. Woken("send", sender) \subseteq Woken("send", sender)'
      BY <2>1, <2>2 DEF Woken
    <2>4. NoLostWakeup'
      BY <2>1, <2>3, IdleWakes DEF ring
    <2>5. RingInv' /\ UNCHANGED Abstract!fifovars
      BY <1>0, <2>1, IdleRing
    <2> QED BY <1>0, <1>4, <2>4, <2>5, BlockLists DEF MailInv
  <1>5. ASSUME NEW t \in Thread, Quit(t) PROVE Goal
    <2>1. /\ UNCHANGED <<ring, received, suspend, sender>>
          /\ \/ error[t] # "EOK"
             \/ pc[t] = "recv" /\ entry = 0
             \/ pc[t] = "send" /\ entry = Size
          /\ \A x \in Thread \ {t} : error'[x] = error[x]
      BY <1>0, <1>5 DEF Quit, ListInv, ThreadTypes
    <2>2. pc'[t] = "run" /\ \A x \in Thread \ {t} : pc'[x] = pc[x]
      BY <1>0, <1>5, ReturnFacts DEF Quit
    <2>3. entry = 0 \/ Woken("recv", suspend) \subseteq Woken("recv", suspend)'
      BY <2>1, <2>2 DEF Woken
    <2>4. entry = Size \/ Woken("send", sender) \subseteq Woken("send", sender)'
      BY <2>1, <2>2 DEF Woken
    <2>5. NoLostWakeup'
      BY <2>1, <2>3, <2>4, IdleWakes DEF ring
    <2>6. RingInv' /\ UNCHANGED Abstract!fifovars
      BY <1>0, <2>1, IdleRing
    <2> QED BY <1>0, <1>5, <2>5, <2>6, QuitLists DEF MailInv
  <1>6. ASSUME NEW t \in Thread, Timeout(t) PROVE Goal
    <2>1. /\ UNCHANGED <<ring, received, pc>>
          /\ \A x \in Thread \ {t} : error'[x] = error[x]
          /\ Contains(suspend, t) \/ Contains(sender, t)
      BY <1>0, <1>6 DEF Timeout, ListInv, ThreadTypes, WaitersInTheirCall
    <2>2. /\ ListInv'
          /\ \A x : Contains(suspend', x) <=> Contains(suspend, x) /\ x # t
          /\ \A x : Contains(sender', x) <=> Contains(sender, x) /\ x # t
      BY <1>0, <1>6, TimeoutLists
    <2>3. /\ suspend' # <<>> => suspend # <<>>
          /\ sender' # <<>> => sender # <<>>
      <3>1. /\ suspend \in Seq(Thread) /\ suspend' \in Seq(Thread)
            /\ sender \in Seq(Thread) /\ sender' \in Seq(Thread)
        BY <1>0, <2>2 DEF ListInv, ThreadTypes
      <3> QED BY <2>2, <3>1, EmptyContains
    <2>4. \A x \in Thread : pc[x] = "recv" => ~Contains(sender, x)
      BY <1>0 DEF ListInv, WaitersInTheirCall
    <2>5. /\ Woken("recv", suspend) \subseteq Woken("recv", suspend)'
          /\ Woken("send", sender) \subseteq Woken("send", sender)'
      <3>1. \A x \in Thread : pc[x] = "send" => ~Contains(suspend, x)
        BY <1>0 DEF ListInv, WaitersInTheirCall
      <3>2. t \notin Woken("recv", suspend) /\ t \notin Woken("send", sender)
        BY <2>1, <2>4, <3>1 DEF Woken
      <3> QED BY <2>1, <2>2, <3>2 DEF Woken
    <2>6. NoLostWakeup'
      BY <2>1, <2>3, <2>5, IdleWakes DEF ring
    <2>7. RingInv' /\ UNCHANGED Abstract!fifovars
      BY <1>0, <2>1, IdleRing
    <2> QED BY <2>2, <2>6, <2>7 DEF MailInv
  <1>7. ASSUME IrqSend PROVE Goal
    <2>1. PICK v \in Mail : Put(v) /\ UNCHANGED <<error, pc, wait, mail>>
      BY <1>7 DEF IrqSend, thread
    <2>2. ListInv'
      <3>1. /\ pc' \in [Thread -> {"run", "send", "recv"}] /\ wait' \in [Thread -> Waits]
            /\ mail' \in [Thread -> Mail \cup {NoMail}]
        BY <1>0, <2>1 DEF ListInv, ThreadTypes
      <3> QED BY <1>0, <2>1, <3>1, PutLists
    <2>3. NoLostWakeup'
      <3>1. \A x \in Thread \ {0} : pc'[x] = pc[x]
        BY <2>1
      <3> QED BY <2>1, <3>1, PutWakes
    <2>4. RingInv' /\ Abstract!Put(v)
      BY <1>0, <2>1, PutRing
    <2> QED BY <2>2, <2>3, <2>4 DEF MailInv, Abstract!FifoNext
  <1>8. ASSUME Reset PROVE Goal
    <2>1. ListInv' /\ suspend' = <<>> /\ sender' = <<>>
      BY <1>0, <1>8, ResetLists
    <2>2. RingInv' /\ Abstract!Clear
      BY <1>0, <1>8, ResetRing
    <2>3. NoLostWakeup'
      BY <2>1 DEF NoLostWakeup
    <2> QED BY <2>1, <2>2, <2>3 DEF MailInv, Abstract!FifoNext
  <1>9. CASE UNCHANGED vars
    <2>1. UNCHANGED <<ring, received>>
      BY <1>9 DEF vars
    <2>2. ListInv'
      BY <1>0, <1>9 DEF vars, thread, ListInv, ThreadTypes, WaitersInTheirCall, ListedWait, Carried
    <2>3. NoLostWakeup'
      BY <1>9 DEF vars, ring, thread, MailInv, NoLostWakeup, Woken
    <2> QED BY <1>0, <2>1, <2>2, <2>3, IdleRing DEF MailInv
  <1> HIDE DEF Goal
  <1> QED BY <1>0, <1>1, <1>2, <1>3, <1>4, <1>5, <1>6, <1>7, <1>8, <1>9, StepKinds

(* The inductive invariant of rt_mb_send_wait, rt_mb_recv, their timeouts  *)
(* and the reset: ring, lists, calls and wake-ups agree after every        *)
(* section.                                                                *)
THEOREM MailboxInvariant == Spec => []MailInv
  <1>1. MailInv /\ [Next]_vars => MailInv'
    BY MailNext
  <1> QED BY <1>1, MailInit, PTL DEF Spec

(* A thread is in the list of the call it is in and in no other, once, its *)
(* timer runs only there, and the offsets of the ring stay inside it.      *)
THEOREM MailboxWaiters == Spec => []WaitersExact
  <1>1. MailInv => WaitersExact
    BY DEF MailInv, RingInv, RingTypes, ListInv, ThreadTypes, WaitersExact, TypeOK
  <1> QED BY <1>1, MailboxInvariant, PTL

(* While receivers sleep every mail in the ring has a resumed receiver on  *)
(* its way, and while senders sleep every free place a resumed sender.     *)
THEOREM MailboxWakeups == Spec => []NoLostWakeup
  <1>1. MailInv => NoLostWakeup
    BY DEF MailInv
  <1> QED BY <1>1, MailboxInvariant, PTL

(* The ring implements the bounded FIFO queue: rt_mb_recv gets the mails   *)
(* in the order rt_mb_send_wait put them, each once.                       *)
THEOREM MailboxImplements == Spec => ImplementsFifo
  <1>1. Init => Abstract!FifoInit
    BY MailInit
  <1>2. MailInv /\ [Next]_vars => [Abstract!FifoNext]_(Abstract!fifovars)
    BY MailNext
  <1> QED BY <1>1, <1>2, MailboxInvariant, PTL DEF Spec, ImplementsFifo, Abstract!FifoSpec
=============================================================================
