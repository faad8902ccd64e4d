------------------------------ MODULE MCBuses ------------------------------
(* Buses for TLC. *)
EXTENDS Buses

CONSTANTS e1, e2, s1, s2

(* s1 subscribes to every kind, s2 to the kind of e1. *)
AllAndSome == [s \in Subs |-> IF s = s1 THEN Events ELSE Events \ {e2}]

=============================================================================
