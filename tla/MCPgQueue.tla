----------------------------- MODULE MCPgQueue -----------------------------
(* PgQueue for TLC: two tasks of different kinds. *)
EXTENDS PgQueue, TLC

CONSTANTS t1, t2, a, b

MCKindOf == (t1 :> a) @@ (t2 :> b)
=============================================================================
