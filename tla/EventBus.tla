------------------------------ MODULE EventBus ------------------------------
(***************************************************************************)
(* What a subscriber of an event bus, the interface Bus of events/bus.go,  *)
(* may rely on: of the events of its kinds it receives some, each at most  *)
(* once, and none after one that was published later.  Events that are     *)
(* published at the same time have no order.  That none is lost is not     *)
(* promised.                                                               *)
(***************************************************************************)
EXTENDS Sequences

CONSTANTS
  Events,   \* events, each published at most once
  Subs,     \* subscriptions
  Wants     \* Wants[s]: the events whose kind s subscribes to

VARIABLES
  published,  \* the events published so far
  before,     \* <<e, f>> where e was published before f
  inbox       \* all that was put into each subscription's channel

vars == <<published, before, inbox>>

Init ==
  /\ published = {} /\ before = {}
  /\ inbox = [s \in Subs |-> <<>>]

(* e is published after some of the events, and concurrently with others. *)
Publish(e) ==
  /\ e \notin published
  /\ published' = published \cup {e}
  /\ \E earlier \in SUBSET published : before' = before \cup (earlier \X {e})
  /\ UNCHANGED inbox

Deliver(s, e) ==
  /\ e \in published \cap Wants[s]
  /\ \A i \in DOMAIN inbox[s] : inbox[s][i] # e /\ <<e, inbox[s][i]>> \notin before
  /\ inbox' = [inbox EXCEPT ![s] = Append(@, e)]
  /\ UNCHANGED <<published, before>>

Next == \E e \in Events : Publish(e) \/ \E s \in Subs : Deliver(s, e)

Spec == Init /\ [][Next]_vars

=============================================================================
