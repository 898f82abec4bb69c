------------------------------ MODULE MCMutex ------------------------------
(* Three threads of three priorities, the timed one in the middle          *)
EXTENDS Mutex

CONSTANTS low, mid, high, A, B

MCInitPrio ==
  [t \in Thread |-> CASE t = high -> 0 [] t = mid -> 1 [] t = low -> 2]
=============================================================================
