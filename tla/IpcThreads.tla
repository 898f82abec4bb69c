----------------------------- MODULE IpcThreads -----------------------------
(***************************************************************************)
(* What the objects of ipc.c and completion.c change in the threads that   *)
(* call them, shared by Event, MessageQueue and Completion: a thread is in *)
(* one call at a time and has one timer and one error code for all objects. *)
(*                                                                         *)
(* A step is one section with interrupts disabled.  Any thread that is in  *)
(* no list may take the next step.                                         *)
(***************************************************************************)
EXTENDS Ipc, FiniteSets

CONSTANTS
  Thread,
  Prio,
  Flag,     \* "FIFO" or "PRIO"
  Timed     \* threads that pass a timeout

ASSUME ThreadsAssumption ==
  /\ IsFiniteSet(Thread)
  /\ Prio \in [Thread -> Nat]
  /\ Flag \in {"FIFO", "PRIO"}
  /\ Timed \subseteq Thread

VARIABLES
  timer,    \* threads whose thread_timer is running
  error,    \* thread->error
  pc,       \* "run", or where the thread is inside a call
  wait      \* the waiting time left to the call

threads == <<timer, error, pc, wait>>

Waits == {"none", "ticks", "forever"}

WaitsOf(t) == {"none", "forever"} \cup (IF t \in Timed THEN {"ticks"} ELSE {})

(* After a wait the ticks that passed are taken off a limited time.        *)
Left(w) == IF w = "ticks" THEN {"none", "ticks"} ELSE {w}

(* thread->error is reset, rt_thread_suspend, rt_timer_start of a limited  *)
(* wait, and rt_schedule.                                                  *)
Blocks(t, call, w) ==
  /\ w # "none"
  /\ error' = [error EXCEPT ![t] = "EOK"]
  /\ pc'    = [pc EXCEPT ![t] = call]
  /\ wait'  = [wait EXCEPT ![t] = w]
  /\ timer' = IF w = "ticks" THEN timer \cup {t} ELSE timer

GoesOn(t, at) ==
  /\ pc'   = [pc EXCEPT ![t] = at]
  /\ wait' = [wait EXCEPT ![t] = "none"]

(* The error code is left in thread->error, and every call resets it       *)
(* before a wait may set it again; here it is reset on return.             *)
Returns(t) == GoesOn(t, "run") /\ error' = [error EXCEPT ![t] = "EOK"]

(* Mutant of Resume: the timer goes on.                                    *)
ResumeTimed(S) == UNCHANGED timer

(* rt_thread_resume stops the timer of the thread.                         *)
Resume(S) == timer' = timer \ S

(* rt_ipc_list_resume_all, here with interrupts disabled                   *)
ResumeAll(S) ==
  /\ error' = [t \in Thread |-> IF t \in S THEN "ERROR" ELSE error[t]]
  /\ Resume(S)
  /\ UNCHANGED <<pc, wait>>

First(list)     == IF list = <<>> THEN {} ELSE {Head(list)}
Shortened(list) == IF list = <<>> THEN list ELSE Tail(list)

ThreadsInit ==
  /\ timer = {}
  /\ error = [t \in Thread |-> "EOK"]
  /\ pc    = [t \in Thread |-> "run"]
  /\ wait  = [t \in Thread |-> "none"]

ThreadsTypeOK ==
  /\ timer \subseteq Thread
  /\ error \in [Thread -> {"EOK", "ETIMEOUT", "ERROR"}]
  /\ wait \in [Thread -> Waits]
=============================================================================
