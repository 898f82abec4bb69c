---------------------------- MODULE MCWorkQueue ----------------------------
(* Two clients, a plain work of both and two delayed works of one          *)
EXTENDS WorkQueue

CONSTANTS a, b, w, d1, d2

(* The worker, then the timer thread, then the clients                     *)
MCRank == [x \in Client \cup {"worker", "timer"} |->
            IF x = "worker" THEN 0 ELSE IF x = "timer" THEN 1 ELSE 2]

(* a is an interrupt handler, and the timer thread outranks the worker.    *)
MCRankIrq == [x \in Client \cup {"worker", "timer"} |->
               CASE x = a -> 0 [] x = "timer" -> 1 [] x = "worker" -> 2 [] OTHER -> 3]

MCUses == [c \in Client |-> IF c = a THEN {w} ELSE {w} \cup Timers]

(* The interrupt handler only submits.                                     *)
MCCancelsIrq == [c \in Client |-> IF c = a THEN {} ELSE {w} \cup Timers]
=============================================================================
