---------------------------- MODULE MCReactions -----------------------------
(* Reactions for TLC. *)
EXTENDS Reactions, TLC

CONSTANTS c1, c2, e1, e2, e3

Symmetry == Permutations({c1, c2}) \cup Permutations({e1, e2})

AllKinds == {"secret", "policy", "catalog", "tenant", "organization", "webhook", "machine",
             "crud", "grpc"}

(* The goroutines of webhooks and organizations have to do with some fields *)
(* only; bodies of the other kinds name any field, or two.                  *)
NamedFields ==
  [k \in AllKinds |->
     CASE k = "webhook" -> {{"status"}, {"data"}}
       [] k = "organization" -> {{"status"}, {"fins"}, {"gone"}}
       [] OTHER -> {{f} : f \in Fields} \cup {{"fins", "mark"}}]

=============================================================================
