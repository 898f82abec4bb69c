---------------------------- MODULE MCIpcObjects ----------------------------
(* Three threads around an event set, a message queue, a completion and a  *)
(* wait queue                                                              *)
EXTENDS IpcObjects

CONSTANTS a, b, c

MCPrio == [t \in Thread |-> IF t = c THEN 0 ELSE 1]

(* All of two events, cleared, or some of them, kept                       *)
MCEventCall ==
  {[set |-> {1, 2}, option |-> "AND", clear |-> TRUE],
   [set |-> {1, 2}, option |-> "OR", clear |-> FALSE]}

(* Neither the messages nor the slots are told apart.                      *)
MCSymmetry == Permutations(Mail) \cup Permutations(Slot)
=============================================================================
