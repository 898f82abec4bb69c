---------------------------- MODULE MCSemaphore ----------------------------
(* Three threads of two priorities around a semaphore that overflows early *)
EXTENDS Semaphore

CONSTANTS a, b, c

MCPrio == [t \in Thread |-> IF t = a THEN 0 ELSE 1]
=============================================================================
