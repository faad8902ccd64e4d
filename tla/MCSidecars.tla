----------------------------- MODULE MCSidecars -----------------------------
(* Sidecars, and with them Lifecycle, for TLC. *)
EXTENDS MCLifecycle, Sidecars

(* No sidecars; a sidecar of each sort in the middle of a chain or fork; two. *)
SomeSidecars ==
  {[p \in Names |-> "builtin"], [p \in Names |-> IF p = p2 THEN "external" ELSE "builtin"],
   [p \in Names |-> IF p = p2 THEN "discover" ELSE "builtin"],
   [p \in Names |-> IF p = p1 THEN "builtin" ELSE "external"]}

=============================================================================
