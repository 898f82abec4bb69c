----------------------------- MODULE Completion -----------------------------
(***************************************************************************)
(* A completion (completion.c): a flag and at most one thread that waits   *)
(* for it.                                                                 *)
(***************************************************************************)
EXTENDS IpcThreads

CONSTANTS Waiter    \* the thread that waits for it

ASSUME CompletionAssumption == Waiter \in Thread

VARIABLES
  completed,    \* completion->flag = RT_COMPLETED
  completion    \* completion->suspended_list

completionvars == <<completed, completion>>

(* rt_completion_wait of a flag that is set clears it; without waiting     *)
(* time the call returns -RT_ETIMEOUT and changes nothing.                 *)
CompletionWait ==
  LET t == Waiter
  IN  /\ pc[t] = "run"
      /\ \/ completed /\ completed' = FALSE /\ UNCHANGED <<completion, threads>>
         \/ /\ ~completed
            /\ \E w \in WaitsOf(t) : Blocks(t, "completion_wait", w)
            /\ completion' = Append(completion, t)
            /\ UNCHANGED completed

(* The rest of rt_completion_wait: the flag is cleared, whether the thread *)
(* was resumed or timed out.                                               *)
CompletionResumed ==
  /\ pc[Waiter] = "completion_wait" /\ completion = <<>>
  /\ Returns(Waiter)
  /\ completed' = FALSE
  /\ UNCHANGED <<completion, timer>>

(* Mutant of CompletionDone: the waiter is not looked for.                 *)
CompletionFlag ==
  /\ ~completed
  /\ completed' = TRUE
  /\ UNCHANGED <<completion, timer, error, pc, wait>>

(* rt_completion_done, by a thread or an interrupt handler.  The flag is   *)
(* looked at before interrupts are disabled.  If it is set in between, the *)
(* section changes nothing: the flag is set and nobody waits beside it     *)
(* (NoIdleCompletion), a step of its own would stutter.                    *)
CompletionDone ==
  /\ ~completed
  /\ completed'  = TRUE
  /\ completion' = <<>>
  /\ Resume(Range(completion))
  /\ UNCHANGED <<error, pc, wait>>

CompletionInit == completed = FALSE /\ completion = <<>>

CompletionTypeOK == completed \in BOOLEAN /\ completion \in Seq(Thread)

(* The thread does not sleep beside a flag that is set, and at most one    *)
(* thread is in the list: the assertion of rt_completion_wait holds.       *)
NoIdleCompletion == completion # <<>> => ~completed /\ Len(completion) = 1
=============================================================================
