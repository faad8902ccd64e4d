------------------------------- MODULE Buses --------------------------------
(***************************************************************************)
(* The three implementations of the interface Bus of events/bus.go behind  *)
(* one another: PgBus; the bus in memory of the same file, in which        *)
(* Publish itself goes through the subscribers; and the bus on Valkey's    *)
(* publish and subscribe of events/valkey_bus.go, in which each            *)
(* subscription has a connection of its own.                               *)
(*                                                                         *)
(* The client library of Valkey is external: Receive subscribes, calls the *)
(* handler for one message after the other, and returns when its context   *)
(* is cancelled or its connection is lost.  A Publish in memory that is    *)
(* under way is in the stage "giving".                                     *)
(***************************************************************************)
EXTENDS PgBus

VARIABLES
  backend,      \* "postgres", "memory" or "valkey"
  subscribers,  \* memory: b.subscribers
  giving,       \* memory: whom each Publish, under the read lock, has yet to come to
  pipe,         \* valkey: the messages on each subscription's connection
  earlier       \* history: <<e, f>> where Publish of e had returned when that of f began

otherVars == <<backend, subscribers, giving, pipe, earlier>>
allVars == <<vars, otherVars>>

BusesInit ==
  /\ Init
  /\ backend \in {"postgres", "memory", "valkey"}
  /\ subscribers = <<>> /\ giving = [e \in Events |-> <<>>]
  /\ pipe = [s \in Subs |-> <<>>] /\ earlier = {}

Postgres(Action) == backend = "postgres" /\ Action /\ UNCHANGED otherVars

----------------------------------------------------------------------------
(* The bus in memory. *)

MemSubscribe(s) ==
  /\ backend = "memory" /\ sub[s] = "none" /\ \A e \in Events : giving[e] = <<>>
  /\ sub' = [sub EXCEPT ![s] = "live"]
  /\ subscribers' = Append(subscribers, s)
  /\ UNCHANGED <<publishVars, chan, got, dropped, startVars, connVars, deliverVars,
                 backend, giving, pipe, earlier>>

(* Publish takes the read lock, which others may hold, too ... *)
MemPublish(e) ==
  /\ backend = "memory" /\ stage[e] = "new"
  /\ giving' = [giving EXCEPT ![e] = subscribers]
  /\ stage' = [stage EXCEPT ![e] = IF subscribers = <<>> THEN "sent" ELSE "giving"]
  /\ earlier' = earlier \cup ({f \in Events : stage[f] = "sent"} \X {e})
  /\ UNCHANGED <<db, sent, subVars, startVars, connVars, deliverVars, backend, subscribers, pipe>>

(* ... and sends to one subscriber after the other, unless its channel is full. *)
MemOffer(e) ==
  /\ giving[e] # <<>>
  /\ LET s == Head(giving[e]) IN
       /\ chan' = IF Accepts(s, e) THEN [chan EXCEPT ![s] = Append(@, e)] ELSE chan
       /\ dropped' = IF Len(chan[s]) = Capacity THEN dropped \cup {<<s, e>>} ELSE dropped
  /\ giving' = [giving EXCEPT ![e] = Tail(@)]
  /\ stage' = [stage EXCEPT ![e] = IF Len(giving[e]) = 1 THEN "sent" ELSE @]
  /\ UNCHANGED <<db, sent, sub, got, startVars, connVars, deliverVars,
                 backend, subscribers, pipe, earlier>>

----------------------------------------------------------------------------
(* The bus on Valkey. *)

valkeyRest == <<db, got, dropped, startVars, conn, wire, stopped, deliverVars,
                backend, subscribers, giving, earlier>>

(* Subscribe returns the channel and starts a goroutine ... *)
ValkeySubscribe(s) ==
  /\ backend = "valkey" /\ sub[s] = "none"
  /\ sub' = [sub EXCEPT ![s] = "start"]
  /\ UNCHANGED <<stage, sent, chan, pipe, drops, valkeyRest>>

(* ... which subscribes on a connection of its own ... *)
ValkeyReceive(s) ==
  /\ backend = "valkey" /\ sub[s] = "start"
  /\ sub' = [sub EXCEPT ![s] = "live"]
  /\ UNCHANGED <<stage, sent, chan, pipe, drops, valkeyRest>>

(* ... and puts messages into the channel.  It waits for a place in it.      *)
(* Mutant: it does not wait.                                                 *)
handler_Drops(s) ==
  /\ pipe[s] # <<>> /\ pipe' = [pipe EXCEPT ![s] = Tail(@)]
  /\ chan' = IF Len(chan[s]) < Capacity THEN [chan EXCEPT ![s] = Append(@, Head(pipe[s]))] ELSE chan
  /\ UNCHANGED <<stage, sent, sub, drops, valkeyRest>>

handler(s) ==
  /\ pipe[s] # <<>> /\ pipe' = [pipe EXCEPT ![s] = Tail(@)]
  /\ \/ /\ Len(chan[s]) < Capacity
        /\ chan' = [chan EXCEPT ![s] = Append(@, Head(pipe[s]))]
     \/ sub[s] = "cancelled" /\ UNCHANGED chan
  /\ UNCHANGED <<stage, sent, sub, drops, valkeyRest>>

(* PUBLISH, whose answer may be lost, or which may never arrive. *)
ValkeyPublish(e) ==
  /\ backend = "valkey" /\ stage[e] = "new"
  /\ \/ /\ stage' \in {[stage EXCEPT ![e] = x] : x \in {"sent", "failed"}}
        /\ sent' = Append(sent, e)
        /\ pipe' = [s \in Subs |-> IF sub[s] \in {"live", "cancelled"} /\ e \in Wants[s]
                                     THEN Append(pipe[s], e) ELSE pipe[s]]
     \/ stage' = [stage EXCEPT ![e] = "failed"] /\ UNCHANGED <<sent, pipe>>
  /\ UNCHANGED <<sub, chan, drops, valkeyRest>>

ValkeyCancel(s) ==
  /\ backend = "valkey" /\ sub[s] = "live"
  /\ sub' = [sub EXCEPT ![s] = "cancelled"]
  /\ UNCHANGED <<stage, sent, chan, pipe, drops, valkeyRest>>

(* Receive returns, because it cannot connect, its context is cancelled, or  *)
(* its connection is lost, and the goroutine closes the channel.             *)
ValkeyEnd(s) ==
  /\ backend = "valkey" /\ pipe' = [pipe EXCEPT ![s] = <<>>]
  /\ \/ sub[s] \in {"start", "cancelled"} /\ UNCHANGED drops
     \/ sub[s] = "live" /\ drops < MaxDrops /\ drops' = drops + 1
  /\ sub' = [sub EXCEPT ![s] = "removed"]
  /\ UNCHANGED <<stage, sent, chan, valkeyRest>>

----------------------------------------------------------------------------

Read(s) == Receive(s) /\ UNCHANGED otherVars

BusesNext ==
  \/ Postgres(Next)
  \/ \E e \in Events : MemPublish(e) \/ MemOffer(e) \/ ValkeyPublish(e)
  \/ \E s \in Subs : \/ Read(s) \/ MemSubscribe(s)
                     \/ ValkeySubscribe(s) \/ ValkeyReceive(s) \/ handler(s)
                     \/ ValkeyCancel(s) \/ ValkeyEnd(s)

BusesSpec == BusesInit /\ [][BusesNext]_allVars

(* Goroutines that can go on do, among them publishers in memory; databases  *)
(* are there to connect to; and subscribers read.                            *)
BusesFairness ==
  /\ WF_allVars(Postgres(Listener))
  /\ \A e \in Events : WF_allVars(MemOffer(e))
  /\ \A s \in Subs :
       /\ WF_allVars(Postgres(StartListener(s))) /\ WF_allVars(Postgres(RemoveSub(s)))
       /\ WF_allVars(ValkeyReceive(s)) /\ WF_allVars(handler(s))
       /\ WF_allVars(Read(s))

BusesLiveSpec == BusesSpec /\ BusesFairness

----------------------------------------------------------------------------

(* To its subscribers each of them is an EventBus: whatever is lost to a     *)
(* full channel or a lost connection, what arrives is wanted, comes once and *)
(* in order.  The order is that of NOTIFY or PUBLISH; the bus in memory      *)
(* keeps only events apart of which one was published when the other came.   *)
NotifyOrder ==
  {p \in Events \X Events : \E j \in DOMAIN sent : \E i \in 1 .. j - 1 : p = <<sent[i], sent[j]>>}
Published == IF backend = "memory" THEN {e \in Events : stage[e] # "new"} ELSE Range(sent)
Before == IF backend = "memory" THEN earlier ELSE NotifyOrder
Inbox == [s \in Subs |-> got[s] \o chan[s]]
Bus == INSTANCE EventBus WITH published <- Published, before <- Before, inbox <- Inbox
IsEventBus == Bus!Spec

(* The events on their way to s. *)
InFlight(s) == Range(wire) \cup Range(pipe[s]) \cup {e \in Events : s \in Range(giving[e])}

(* An event on its way over a connection that lasts reaches every live       *)
(* subscriber that wants it; on Valkey however slow that is, otherwise if it *)
(* has room when the listener or publisher comes to it.                      *)
WireIsDelivered ==
  \A e \in Events, s \in Subs :
    (e \in InFlight(s) \cap Wants[s] /\ sub[s] = "live")
      ~> (\/ e \in Range(got[s]) \/ sub[s] # "live" \/ <<s, e>> \in dropped
          \/ backend = "postgres" /\ conn # "up")

(* Every subscriber is served in the end: unless it cancels, or the bus is   *)
(* closed, or Valkey's connection is lost, the process listens for it.       *)
SubscribersAreServed ==
  \A s \in Subs : sub[s] \in {"start", "live"}
    ~> (\/ sub[s] \in {"cancelled", "removed"} \/ closed
        \/ CASE backend = "postgres" -> conn = "up"
             [] backend = "memory" -> s \in Range(subscribers)
             [] backend = "valkey" -> sub[s] = "live")

=============================================================================
