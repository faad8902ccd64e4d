---------------------------- MODULE MCLifecycle ----------------------------
(* Lifecycle for TLC. *)
EXTENDS Lifecycle

CONSTANTS p1, p2, p3, f1, f2

(* Any providers are listed; and p1 twice. *)
AllListed == {[p \in Names |-> 1]}
SomeOrTwice == [Names -> {0, 1}] \cup {[p \in Names |-> IF p = p1 THEN 2 ELSE 1]}

(* All graphs; and a chain p3 -> p2 -> p1 or a pair of p1's dependents. *)
AnyGraph == [Names -> SUBSET Names]
ChainOrFork ==
  {[p \in Names |-> IF p = p1 THEN {} ELSE IF p = p2 THEN {p1} ELSE ds] : ds \in {{p1}, {p2}}}

(* No features; features of their own; f1 claimed by two. *)
NoClaims == {[p \in Names |-> {}]}
SomeClaims ==
  {[p \in Names |-> IF p = p1 THEN {f1} ELSE IF p = p2 THEN fs ELSE {}] : fs \in {{}, {f2}, {f1, f2}}}

=============================================================================
