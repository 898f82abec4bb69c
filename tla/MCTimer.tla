------------------------------ MODULE MCTimer ------------------------------
(* A one-shot timer of a thread, whose callback restarts or stops it or    *)
(* drives two timers that have no thread, one periodic and one one-shot    *)
EXTENDS Timer

CONSTANTS a, b, c

MCTouches == [t \in Timers |-> CASE t = a -> {a, b, c} [] t = b -> {b} [] OTHER -> {}]
MCFirstTime == [t \in Timers |-> IF t = b THEN 1 ELSE 2]
=============================================================================
