----------------------------- MODULE MCMailbox -----------------------------
(* Three threads around a mailbox                                          *)
EXTENDS Mailbox

CONSTANTS a, b, c

MCPrio == [t \in Thread |-> IF t = c THEN 0 ELSE 1]
=============================================================================
