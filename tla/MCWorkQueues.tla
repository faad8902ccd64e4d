---------------------------- MODULE MCWorkQueues ----------------------------
(* WorkQueues for TLC. *)
EXTENDS WorkQueues, TLC

CONSTANTS t1, t2, t3, w1, w2, w3, ka, kb

(* t1 and t2 are of one kind, t3 of another; t2 is malformed on Valkey. *)
Kind == t1 :> ka @@ t2 :> ka @@ t3 :> kb

(* The caller gave t1 and t3 the same ID. *)
Id == t1 :> 1 @@ t2 :> 2 @@ t3 :> 1

(* w1 claims both kinds, w2 and w3 only one. *)
Both == w1 :> <<kb, ka>> @@ w2 :> <<kb>> @@ w3 :> <<kb>>

(* w1 and w2 share a process. *)
Proc == w1 :> 1 @@ w2 :> 1 @@ w3 :> 2

=============================================================================
