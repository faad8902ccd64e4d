---------------------------- MODULE MCDispatcher ----------------------------
(* Small instances of Dispatcher for TLC. *)
EXTENDS Dispatcher, TLC

CONSTANTS d1, d2

H(p, n, r) == [phase |-> p, priority |-> n, ref |-> r]

(* Two gates of different priority, two candidates for main, and a post. *)
AllPhases == {H("pre", 1, "quota"), H("pre", 2, "approve"), H("main", 1, "provision"),
              H("main", 2, "fallback"), H("post", 1, "notify")}

(* The event of d1 has all handlers, that of d2 one main handler. *)
GatedAndPlain == (d1 :> AllPhases) @@ (d2 :> {H("main", 1, "provision")})

=============================================================================
