------------------------------- MODULE PgBus -------------------------------
(***************************************************************************)
(* The PostgreSQL event bus of events/pg_bus.go: publishers, which insert  *)
(* an event and then NOTIFY; the one goroutine of the process that LISTENs *)
(* and hands events to the subscribers' channels under the read lock; and  *)
(* subscribers, which come, read, and cancel their contexts.               *)
(*                                                                         *)
(* A notification reaches the connection that listens when it is sent, and *)
(* is lost with that connection.                                           *)
(***************************************************************************)
EXTENDS Integers, Sequences, Functions

CONSTANTS
  Events,     \* events, each passed to Publish once
  Subs,       \* calls of Subscribe
  Wants,      \* Wants[s]: the events whose kind s subscribes to
  NoEvent,    \* the listener is not delivering
  Capacity,   \* of a subscriber's channel (100)
  MaxDrops    \* bound: how often the connection may be lost

ASSUME PgBusAssumption ==
  /\ NoEvent \notin Events
  /\ Wants \in [Subs -> SUBSET Events]
  /\ Capacity \in Nat \ {0} /\ MaxDrops \in Nat

VARIABLES
  stage,      \* of Publish: "new", "stored", "sent" or "failed"
  db,         \* the events table
  sent,       \* history: the notifications, in commit order
  sub,        \* "none", "start", "live", "cancelled" or "removed"
  chan,       \* what is buffered in each subscriber's channel
  got,        \* what each subscriber has read
  dropped,    \* history: <<s, e>> where e came to s when its channel was full
  listening,  \* the field b.listening
  cancelSet,  \* b.cancel is not nil
  stopped,    \* the listener's context is cancelled
  started,    \* history: listener goroutines started
  conn,       \* the listener: "none", "down", "up" or "ended"
  wire,       \* notifications on the listener's connection
  cur,        \* the event it is delivering, under b.mu.RLock
  left,       \* the subscribers it has yet to come to
  closed,     \* history: Close was called when the bus was listening
  drops       \* history: connections lost

publishVars == <<stage, db, sent>>
subVars == <<sub, chan, got, dropped>>
startVars == <<listening, cancelSet, started, closed>>
connVars == <<conn, wire, drops, stopped>>
deliverVars == <<cur, left>>
vars == <<publishVars, subVars, startVars, connVars, deliverVars>>

(* b.mu is free for a writer: the listener holds no read lock.              *)
(* Mutant: removeSub and Subscribe do not lock.                             *)
LockFree_Always == TRUE

LockFree == cur = NoEvent

(* Whether Subscribe starts the listener.                                   *)
(* Mutant: the flag is read the wrong way round.                            *)
ShouldStart_Inverted == listening

ShouldStart == ~listening

(* The subscribers in b.subs. *)
Registered == {s \in Subs : sub[s] \in {"start", "live", "cancelled"}}

(* Whether the event goes into the channel, or is dropped.                  *)
(* Mutant: whatever its kind.                                               *)
Accepts_AnyKind(s, e) == sub[s] # "cancelled" /\ Len(chan[s]) < Capacity

Accepts(s, e) == sub[s] # "cancelled" /\ e \in Wants[s] /\ Len(chan[s]) < Capacity

----------------------------------------------------------------------------

Init ==
  /\ stage = [e \in Events |-> "new"] /\ db = {} /\ sent = <<>>
  /\ dropped = {}
  /\ sub = [s \in Subs |-> "none"]
  /\ chan = [s \in Subs |-> <<>>] /\ got = [s \in Subs |-> <<>>]
  /\ listening = FALSE /\ cancelSet = FALSE /\ started = 0 /\ closed = FALSE
  /\ conn = "none" /\ wire = <<>> /\ drops = 0 /\ stopped = FALSE
  /\ cur = NoEvent /\ left = {}

(* Publish's INSERT. *)
PublishInsert(e) ==
  /\ stage[e] = "new"
  /\ stage' = [stage EXCEPT ![e] = "stored"]
  /\ db' = db \cup {e}
  /\ UNCHANGED <<sent, subVars, startVars, connVars, deliverVars>>

(* Publish's pg_notify. *)
PublishNotify(e) ==
  /\ stage[e] = "stored"
  /\ stage' = [stage EXCEPT ![e] = "sent"]
  /\ sent' = Append(sent, e)
  /\ wire' = IF conn = "up" THEN Append(wire, e) ELSE wire
  /\ UNCHANGED <<db, subVars, startVars, conn, drops, stopped, deliverVars>>

(* The publisher crashes or its NOTIFY fails: the row stays. *)
PublishFail(e) ==
  /\ stage[e] = "stored"
  /\ stage' = [stage EXCEPT ![e] = "failed"]
  /\ UNCHANGED <<db, sent, subVars, startVars, connVars, deliverVars>>

(* Subscribe, up to the unlock. *)
Subscribe(s) ==
  /\ sub[s] = "none" /\ LockFree
  /\ sub' = [sub EXCEPT ![s] = IF ShouldStart THEN "start" ELSE "live"]
  /\ listening' = TRUE
  /\ UNCHANGED <<publishVars, chan, got, dropped, cancelSet, started, closed, connVars, deliverVars>>

(* The subscriber that found no listener starts one, without the lock. *)
StartListener(s) ==
  /\ sub[s] = "start"
  /\ sub' = [sub EXCEPT ![s] = "live"]
  /\ cancelSet' = TRUE /\ started' = started + 1
  /\ conn' = IF conn = "none" THEN "down" ELSE conn
  /\ UNCHANGED <<publishVars, chan, got, dropped, listening, closed, wire, drops, stopped,
                 deliverVars>>

(* The subscriber's context is cancelled, and removeSub follows. *)
Cancel(s) ==
  /\ sub[s] = "live"
  /\ sub' = [sub EXCEPT ![s] = "cancelled"]
  /\ UNCHANGED <<publishVars, chan, got, dropped, startVars, connVars, deliverVars>>

RemoveSub(s) ==
  /\ sub[s] = "cancelled" /\ LockFree
  /\ sub' = [sub EXCEPT ![s] = "removed"]
  /\ UNCHANGED <<publishVars, chan, got, dropped, startVars, connVars, deliverVars>>

Receive(s) ==
  /\ chan[s] # <<>>
  /\ got' = [got EXCEPT ![s] = Append(@, Head(chan[s]))]
  /\ chan' = [chan EXCEPT ![s] = Tail(@)]
  /\ UNCHANGED <<publishVars, sub, dropped, startVars, connVars, deliverVars>>

(* listen connects and LISTENs. *)
Connect ==
  /\ conn = "down" /\ ~stopped
  /\ conn' = "up" /\ wire' = <<>>
  /\ UNCHANGED <<publishVars, subVars, startVars, drops, stopped, deliverVars>>

(* WaitForNotification fails; listenLoop connects anew after five seconds. *)
Disconnect ==
  /\ conn = "up" /\ cur = NoEvent /\ drops < MaxDrops
  /\ conn' = "down" /\ wire' = <<>> /\ drops' = drops + 1
  /\ UNCHANGED <<publishVars, subVars, startVars, stopped, deliverVars>>

(* The listener sees its context cancelled. *)
EndListener ==
  /\ conn \in {"down", "up"} /\ cur = NoEvent /\ stopped
  /\ conn' = "ended" /\ wire' = <<>>
  /\ UNCHANGED <<publishVars, subVars, startVars, drops, stopped, deliverVars>>

(* A notification arrives; the listener takes the read lock. *)
Take ==
  /\ conn = "up" /\ cur = NoEvent /\ wire # <<>>
  /\ wire' = Tail(wire)
  /\ left' = Registered
  /\ cur' = IF Registered = {} THEN NoEvent ELSE Head(wire)
  /\ UNCHANGED <<publishVars, subVars, startVars, conn, drops, stopped>>

(* The listener comes to s; after the last it releases the lock. *)
Offer(s) ==
  /\ cur # NoEvent /\ s \in left
  /\ chan' = IF Accepts(s, cur) THEN [chan EXCEPT ![s] = Append(@, cur)] ELSE chan
  /\ dropped' = IF Len(chan[s]) = Capacity THEN dropped \cup {<<s, cur>>} ELSE dropped
  /\ left' = left \ {s}
  /\ cur' = IF left = {s} THEN NoEvent ELSE cur
  /\ UNCHANGED <<publishVars, sub, got, startVars, connVars>>

Close ==
  /\ listening /\ ~closed
  /\ closed' = TRUE
  /\ stopped' = cancelSet
  /\ UNCHANGED <<publishVars, subVars, listening, cancelSet, started, conn, wire, drops,
                 deliverVars>>

(* One round of StartCleanup, of events beyond the retention. *)
Cleanup(old) ==
  /\ old # {} /\ old \subseteq db
  /\ db' = db \ old
  /\ UNCHANGED <<stage, sent, subVars, startVars, connVars, deliverVars>>

Listener == Connect \/ EndListener \/ Take \/ \E s \in Subs : Offer(s)

Next ==
  \/ \E e \in Events : PublishInsert(e) \/ PublishNotify(e) \/ PublishFail(e)
  \/ \E s \in Subs : \/ Subscribe(s) \/ StartListener(s) \/ Cancel(s) \/ RemoveSub(s)
                     \/ Receive(s)
  \/ Listener \/ Disconnect \/ Close
  \/ \E old \in SUBSET db : Cleanup(old)

Spec == Init /\ [][Next]_vars

----------------------------------------------------------------------------

(* However many subscribe and cancel at once, Subscribe starts one listener, *)
(* so that no event is delivered twice, and it never comes to a subscriber   *)
(* whose channel removeSub has closed, which would panic.                    *)
DeliveryIsSafe == started <= 1 /\ \A s \in left : sub[s] # "removed"

=============================================================================
