------------------------- MODULE CountingSemaphore -------------------------
(***************************************************************************)
(* What rt_sem_take and rt_sem_release promise to their callers, without   *)
(* the suspend list, the timers and the error codes: a token is taken from *)
(* the pool, or handed over to a thread that asks for one, or the request  *)
(* fails; a request is answered once.                                      *)
(***************************************************************************)
EXTENDS Integers

CONSTANTS Thread, Modulus

VARIABLES tokens, request

absvars == <<tokens, request>>

Requests == {"none", "asking", "granted", "failed"}

AbsInit == tokens \in 0 .. Modulus - 1 /\ request = [t \in Thread |-> "none"]

Answer(t, r) == /\ request[t] = "asking"
                /\ request' = [request EXCEPT ![t] = r]
                /\ UNCHANGED tokens

TakeToken(t) == /\ request[t] = "none"
                /\ tokens > 0
                /\ tokens' = tokens - 1
                /\ UNCHANGED request

Ask(t) == /\ request[t] = "none"
          /\ tokens = 0
          /\ request' = [request EXCEPT ![t] = "asking"]
          /\ UNCHANGED tokens

Leave(t) == /\ request[t] \in {"granted", "failed"}
            /\ request' = [request EXCEPT ![t] = "none"]
            /\ UNCHANGED tokens

(* A token only goes to the pool when nobody asks for it.                  *)
Post == /\ \A t \in Thread : request[t] # "asking"
        /\ tokens' = (tokens + 1) % Modulus
        /\ UNCHANGED request

(* A reset, or a new semaphore: every request under way fails.             *)
Renew == /\ tokens' \in 0 .. Modulus - 1
         /\ request' = [t \in Thread |->
                          IF request[t] = "asking" THEN "failed" ELSE request[t]]

AbsNext ==
  \/ \E t \in Thread : \/ Answer(t, "granted") \/ Answer(t, "failed")
                       \/ TakeToken(t) \/ Ask(t) \/ Leave(t)
  \/ Post
  \/ Renew

AbsSpec == AbsInit /\ [][AbsNext]_absvars
=============================================================================
