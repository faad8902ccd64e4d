---------------------------- MODULE BusesProofs ----------------------------
(***************************************************************************)
(* Proofs about PgBus and about Buses, for any number of events and        *)
(* subscribers: delivery is safe, and all three buses implement EventBus.  *)
(***************************************************************************)
EXTENDS Buses, SequenceTheorems, TLAPS

----------------------------------------------------------------------------
(* The bus on PostgreSQL: its listener and its subscribers.                  *)

(* What a connection carries are events, so that the listener is delivering  *)
(* exactly while it holds the read lock.                                     *)
WireInv ==
  /\ wire \in Seq(Events)
  /\ cur = NoEvent => left = {}

(* The flag b.listening is set before the lock is released, and only the     *)
(* subscriber that set it starts the listener: until it has, none runs.      *)
StartInv ==
  /\ started \in {0, 1} /\ listening \in BOOLEAN
  /\ sub \in [Subs -> {"none", "start", "live", "cancelled", "removed"}]
  /\ ~listening => started = 0
  /\ \A s \in Subs : sub[s] = "start" =>
       /\ listening /\ started = 0
       /\ \A t \in Subs : sub[t] = "start" => t = s

(* Those the listener has yet to come to are registered. *)
LeftInv == left \subseteq Registered

IInv == WireInv /\ StartInv /\ LeftInv

(* The inductive invariant rules out a second listener and a closed channel. *)
LEMMA IInvSafe == IInv => DeliveryIsSafe
  BY DEF IInv, StartInv, LeftInv, Registered, DeliveryIsSafe

(* Initially nobody has subscribed. *)
LEMMA InitIInv == Init => IInv
  <1> SUFFICES ASSUME Init PROVE IInv
    OBVIOUS
  <1>1. WireInv
    BY DEF Init, WireInv
  <1>2. StartInv
    BY Zenon DEF Init, StartInv
  <1>3. LeftInv
    BY DEF Init, LeftInv
  <1> QED BY <1>1, <1>2, <1>3 DEF IInv

(* Publish touches the table and the connection only. *)
LEMMA PublishIInv ==
  ASSUME IInv, NEW e \in Events, PublishInsert(e) \/ PublishNotify(e) \/ PublishFail(e)
  PROVE  IInv'
  <1> USE DEF IInv, publishVars, subVars, startVars, connVars, deliverVars
  <1>1. wire' = wire \/ wire' = Append(wire, e)
    BY DEF PublishInsert, PublishNotify, PublishFail
  <1>2. UNCHANGED <<sub, startVars, deliverVars>>
    BY DEF PublishInsert, PublishNotify, PublishFail
  <1>3. WireInv'
    <2>1. Append(wire, e) \in Seq(Events)
      BY DEF WireInv
    <2> QED BY <1>1, <1>2, <2>1 DEF WireInv
  <1>4. StartInv' /\ LeftInv'
    BY <1>2 DEF StartInv, LeftInv, Registered
  <1> QED BY <1>3, <1>4

(* Subscribe, the start of the listener and removeSub: the first and the     *)
(* last of them hold the write lock, so that the listener is not delivering. *)
LEMMA SubscriberIInv ==
  ASSUME IInv, NEW s \in Subs,
         Subscribe(s) \/ StartListener(s) \/ Cancel(s) \/ RemoveSub(s) \/ Receive(s)
  PROVE  IInv'
  <1> USE DEF IInv, publishVars, subVars, startVars, connVars, deliverVars
  <1>1. WireInv'
    BY DEF Subscribe, StartListener, Cancel, RemoveSub, Receive, WireInv
  <1>2. CASE Subscribe(s)
    <2>1. StartInv'
      BY <1>2 DEF Subscribe, ShouldStart, StartInv
    <2>2. LeftInv'
      BY <1>2 DEF Subscribe, LockFree, WireInv, LeftInv
    <2> QED BY <1>1, <2>1, <2>2
  <1>3. CASE StartListener(s)
    <2>1. StartInv'
      BY <1>3 DEF StartListener, StartInv
    <2>2. LeftInv'
      BY <1>3 DEF StartListener, StartInv, LeftInv, Registered
    <2> QED BY <1>1, <2>1, <2>2
  <1>4. CASE Cancel(s)
    <2>1. StartInv'
      BY <1>4 DEF Cancel, StartInv
    <2>2. LeftInv'
      BY <1>4 DEF Cancel, StartInv, LeftInv, Registered
    <2> QED BY <1>1, <2>1, <2>2
  <1>5. CASE RemoveSub(s)
    <2>1. StartInv'
      BY <1>5 DEF RemoveSub, StartInv
    <2>2. LeftInv'
      BY <1>5 DEF RemoveSub, LockFree, WireInv, LeftInv
    <2> QED BY <1>1, <2>1, <2>2
  <1>6. CASE Receive(s)
    BY <1>1, <1>6 DEF Receive, StartInv, LeftInv, Registered
  <1> QED BY <1>2, <1>3, <1>4, <1>5, <1>6

(* The listener takes the registered subscribers under the read lock, and    *)
(* releases it when none is left.                                            *)
LEMMA ListenerIInv ==
  ASSUME IInv, Listener
  PROVE  IInv'
  <1> USE DEF IInv, publishVars, subVars, startVars, connVars, deliverVars
  <1>1. CASE Connect
    BY <1>1 DEF Connect, WireInv, StartInv, LeftInv, Registered
  <1>2. CASE EndListener
    BY <1>2 DEF EndListener, WireInv, StartInv, LeftInv, Registered
  <1>3. CASE Take
    <2>1. Head(wire) \in Events /\ Tail(wire) \in Seq(Events)
      BY <1>3 DEF Take, WireInv
    <2>2. WireInv'
      BY <1>3, <2>1, PgBusAssumption DEF Take, WireInv
    <2>3. StartInv' /\ LeftInv'
      BY <1>3 DEF Take, StartInv, LeftInv, Registered
    <2> QED BY <2>2, <2>3
  <1>4. ASSUME NEW s \in Subs, Offer(s) PROVE IInv'
    <2>1. WireInv'
      BY <1>4 DEF Offer, WireInv
    <2>2. StartInv' /\ LeftInv'
      BY <1>4 DEF Offer, StartInv, LeftInv, Registered
    <2> QED BY <2>1, <2>2
  <1> QED BY <1>1, <1>2, <1>3, <1>4 DEF Listener

(* Every step preserves the invariant; a lost connection, Close and the      *)
(* cleanup change nothing it speaks of but the wire.                         *)
LEMMA NextIInv == IInv /\ [Next]_vars => IInv'
  <1> SUFFICES ASSUME IInv, [Next]_vars PROVE IInv'
    OBVIOUS
  <1> USE DEF publishVars, subVars, startVars, connVars, deliverVars
  <1>1. ASSUME NEW e \in Events, PublishInsert(e) \/ PublishNotify(e) \/ PublishFail(e)
        PROVE  IInv'
    BY <1>1, PublishIInv
  <1>2. ASSUME NEW s \in Subs,
               Subscribe(s) \/ StartListener(s) \/ Cancel(s) \/ RemoveSub(s) \/ Receive(s)
        PROVE  IInv'
    BY <1>2, SubscriberIInv
  <1>3. CASE Listener
    BY <1>3, ListenerIInv
  <1>4. CASE Disconnect
    BY <1>4 DEF Disconnect, IInv, WireInv, StartInv, LeftInv, Registered
  <1>5. CASE Close
    BY <1>5 DEF Close, IInv, WireInv, StartInv, LeftInv, Registered
  <1>6. ASSUME NEW old \in SUBSET db, Cleanup(old) PROVE IInv'
    BY <1>6 DEF Cleanup, IInv, WireInv, StartInv, LeftInv, Registered
  <1>7. CASE UNCHANGED vars
    BY <1>7 DEF vars, IInv, WireInv, StartInv, LeftInv, Registered
  <1> QED BY <1>1, <1>2, <1>3, <1>4, <1>5, <1>6, <1>7 DEF Next

----------------------------------------------------------------------------
(* What arrives is wanted, comes once and in order.                          *)

Stages == {"new", "stored", "sent", "failed", "giving"}

BusTypes ==
  /\ backend \in {"postgres", "memory", "valkey"}
  /\ stage \in [Events -> Stages] /\ sent \in Seq(Events) /\ wire \in Seq(Events)
  /\ chan \in [Subs -> Seq(Events)] /\ got \in [Subs -> Seq(Events)]
  /\ pipe \in [Subs -> Seq(Events)] /\ giving \in [Events -> Seq(Subs)]
  /\ sub \in [Subs -> {"none", "start", "live", "cancelled", "removed"}]
  /\ subscribers \in Seq(Subs) /\ left \subseteq Subs /\ cur \in Events \cup {NoEvent}

Distinct(q) == \A i, j \in DOMAIN q : q[i] = q[j] => i = j

InOrder(q, R) == \A j \in DOMAIN q : \A i \in 1 .. j - 1 : <<q[i], q[j]>> \in R

(* What a subscriber has read or may read. *)
Box(s) == Range(got[s]) \cup Range(chan[s])

(* NOTIFY and PUBLISH send an event once. *)
SentInv ==
  /\ Distinct(sent)
  /\ \A e \in Events : stage[e] \in {"new", "stored"} => e \notin Range(sent)
  /\ \A s \in Subs : Box(s) \subseteq Range(sent)
  /\ giving = [e \in Events |-> <<>>]

(* The listener has what came before the event it delivers behind it, and    *)
(* what comes after it on the wire.                                          *)
PgInv ==
  /\ InOrder(wire, NotifyOrder) /\ Range(wire) \subseteq Range(sent)
  /\ cur # NoEvent =>
       /\ cur \in Range(sent)
       /\ \A f \in Range(wire) : <<cur, f>> \in NotifyOrder
       /\ \A s \in left : \A e \in Box(s) : <<e, cur>> \in NotifyOrder
  /\ \A s \in Subs : \A e \in Box(s), f \in Range(wire) : <<e, f>> \in NotifyOrder
  /\ pipe = [s \in Subs |-> <<>>]

(* The same for each subscription's connection to Valkey. *)
PipeInv ==
  \A s \in Subs :
    /\ InOrder(pipe[s], NotifyOrder) /\ Range(pipe[s]) \subseteq Range(sent) \cap Wants[s]
    /\ \A e \in Box(s), f \in Range(pipe[s]) : <<e, f>> \in NotifyOrder

(* In memory, Publish comes to each subscriber once, before it returns. *)
GivingInv ==
  /\ Distinct(subscribers) /\ \A s \in Range(subscribers) : sub[s] # "none"
  /\ \A e \in Events : /\ Distinct(giving[e])
                       /\ giving[e] # <<>> => stage[e] = "giving"
                       /\ \A s \in Range(giving[e]) : e \notin Box(s)
  /\ \A s \in Subs : \A e \in Box(s) : stage[e] # "new"
  /\ \A e, f \in Events : <<e, f>> \in earlier => stage[e] = "sent"
  /\ pipe = [s \in Subs |-> <<>>]

BusInv ==
  /\ BusTypes
  /\ backend = "memory" => GivingInv
  /\ backend # "memory" => SentInv
  /\ backend = "postgres" => PgInv
  /\ backend = "valkey" => PipeInv

(* Lemmas about sequences: what Append and Tail do to their elements, ... *)
LEMMA AppendRange ==
  ASSUME NEW S, NEW q \in Seq(S), NEW x \in S
  PROVE  Append(q, x) \in Seq(S) /\ Range(Append(q, x)) = Range(q) \cup {x}
  <1>1. /\ DOMAIN Append(q, x) = 1 .. Len(q) + 1 /\ DOMAIN q = 1 .. Len(q) /\ Len(q) \in Nat
        /\ Append(q, x)[Len(q) + 1] = x /\ \A i \in 1 .. Len(q) : Append(q, x)[i] = q[i]
    OBVIOUS
  <1>2. 1 .. Len(q) + 1 = 1 .. Len(q) \cup {Len(q) + 1}
    BY <1>1
  <1>3. \A y : (\E i \in DOMAIN Append(q, x) : Append(q, x)[i] = y)
                 <=> ((\E i \in DOMAIN q : q[i] = y) \/ y = x)
    BY <1>1, <1>2, Zenon
  <1>4. Append(q, x) \in Seq(S)
    OBVIOUS
  <1>5. Range(Append(q, x)) = Range(q) \cup {x}
    BY <1>3, Zenon DEF Range
  <1> QED BY <1>4, <1>5

LEMMA RangeIn ==
  ASSUME NEW S, NEW q \in Seq(S)
  PROVE  Range(q) \subseteq S
  <1>1. \A i \in DOMAIN q : q[i] \in S
    OBVIOUS
  <1> QED BY <1>1, Zenon DEF Range

LEMMA TailRange ==
  ASSUME NEW S, NEW q \in Seq(S), q # <<>>
  PROVE  /\ Head(q) \in S /\ Tail(q) \in Seq(S)
         /\ Range(q) = Range(Tail(q)) \cup {Head(q)}
  <1>1. /\ DOMAIN q = 1 .. Len(q) /\ 1 \in DOMAIN q /\ Head(q) = q[1] /\ Len(q) \in Nat
        /\ DOMAIN Tail(q) = 1 .. Len(q) - 1
        /\ \A i \in 1 .. Len(q) - 1 : i + 1 \in DOMAIN q /\ Tail(q)[i] = q[i + 1]
    OBVIOUS
  <1>2. \A i \in DOMAIN q : i = 1 \/ (i - 1 \in 1 .. Len(q) - 1 /\ (i - 1) + 1 = i)
    BY <1>1
  <1>3. ASSUME NEW y \in Range(q) PROVE y \in Range(Tail(q)) \cup {Head(q)}
    BY <1>1, <1>2, <1>3 DEF Range
  <1>4. ASSUME NEW y \in Range(Tail(q)) PROVE y \in Range(q)
    BY <1>1, <1>4 DEF Range
  <1>5. Head(q) \in Range(q)
    BY <1>1 DEF Range
  <1>6. Head(q) \in S /\ Tail(q) \in Seq(S)
    OBVIOUS
  <1> QED BY <1>3, <1>4, <1>5, <1>6

(* ... to sequences without repetitions ... *)
LEMMA DistinctAppend ==
  ASSUME NEW S, NEW q \in Seq(S), NEW x \in S, Distinct(q), x \notin Range(q)
  PROVE  Distinct(Append(q, x))
  <1>1. \A i \in DOMAIN q : q[i] # x
    BY DEF Range
  <1> QED BY <1>1 DEF Distinct

LEMMA DistinctTail ==
  ASSUME NEW S, NEW q \in Seq(S), q # <<>>, Distinct(q)
  PROVE  Distinct(Tail(q)) /\ Head(q) \notin Range(Tail(q))
  <1>1. /\ 1 \in DOMAIN q /\ Head(q) = q[1] /\ Len(q) \in Nat
        /\ DOMAIN Tail(q) = 1 .. Len(q) - 1
        /\ \A i \in 1 .. Len(q) - 1 : i + 1 \in DOMAIN q /\ i + 1 # 1 /\ Tail(q)[i] = q[i + 1]
    OBVIOUS
  <1>2. ASSUME NEW i \in DOMAIN Tail(q), NEW j \in DOMAIN Tail(q), Tail(q)[i] = Tail(q)[j]
        PROVE  i = j
    <2>1. i + 1 = j + 1
      BY <1>1, <1>2 DEF Distinct
    <2> QED BY <1>1, <2>1
  <1>3. Head(q) \notin Range(Tail(q))
    BY <1>1 DEF Distinct, Range
  <1> QED BY <1>2, <1>3 DEF Distinct

(* ... and to sequences that are in order. *)
LEMMA InOrderAppend ==
  ASSUME NEW q \in Seq(Events), NEW x \in Events, NEW R, InOrder(q, R),
         \A y \in Range(q) : <<y, x>> \in R
  PROVE  InOrder(Append(q, x), R)
  <1>1. /\ DOMAIN Append(q, x) = 1 .. Len(q) + 1 /\ DOMAIN q = 1 .. Len(q) /\ Len(q) \in Nat
        /\ Append(q, x)[Len(q) + 1] = x /\ \A i \in 1 .. Len(q) : Append(q, x)[i] = q[i]
    OBVIOUS
  <1>2. \A i \in 1 .. Len(q) : <<q[i], x>> \in R
    BY <1>1 DEF Range
  <1>3. ASSUME NEW j \in 1 .. Len(q) + 1, NEW i \in 1 .. j - 1
        PROVE  <<Append(q, x)[i], Append(q, x)[j]>> \in R
    <2>1. CASE j = Len(q) + 1
      <3>1. i \in 1 .. Len(q)
        BY <1>1, <2>1
      <3> QED BY <1>1, <1>2, <2>1, <3>1
    <2>2. CASE j # Len(q) + 1
      <3>1. j \in 1 .. Len(q) /\ i \in 1 .. Len(q)
        BY <1>1, <2>2
      <3> QED BY <1>1, <3>1 DEF InOrder
    <2> QED BY <2>1, <2>2
  <1> QED BY <1>1, <1>3 DEF InOrder

LEMMA InOrderTail ==
  ASSUME NEW q \in Seq(Events), q # <<>>, NEW R, InOrder(q, R)
  PROVE  InOrder(Tail(q), R) /\ \A y \in Range(Tail(q)) : <<Head(q), y>> \in R
  <1>1. /\ DOMAIN q = 1 .. Len(q) /\ Head(q) = q[1] /\ Len(q) \in Nat
        /\ DOMAIN Tail(q) = 1 .. Len(q) - 1
        /\ \A i \in 1 .. Len(q) - 1 : i + 1 \in DOMAIN q /\ Tail(q)[i] = q[i + 1]
    OBVIOUS
  <1>2. ASSUME NEW j \in 1 .. Len(q) - 1 PROVE <<q[1], q[j + 1]>> \in R
    <2>1. j + 1 \in DOMAIN q /\ 1 \in 1 .. (j + 1) - 1
      BY <1>1
    <2> QED BY <2>1 DEF InOrder
  <1>3. ASSUME NEW j \in 1 .. Len(q) - 1, NEW i \in 1 .. j - 1
        PROVE  <<Tail(q)[i], Tail(q)[j]>> \in R
    <2>1. j + 1 \in DOMAIN q /\ i + 1 \in 1 .. (j + 1) - 1 /\ i \in 1 .. Len(q) - 1
      BY <1>1
    <2>2. <<q[i + 1], q[j + 1]>> \in R
      BY <2>1 DEF InOrder
    <2> QED BY <1>1, <2>1, <2>2
  <1>4. \A y \in Range(Tail(q)) : <<Head(q), y>> \in R
    BY <1>1, <1>2 DEF Range
  <1> QED BY <1>1, <1>3, <1>4 DEF InOrder

(* A channel and what was read from it, one after the other. *)
LEMMA InboxSteps ==
  ASSUME NEW g \in Seq(Events), NEW c \in Seq(Events), NEW e \in Events
  PROVE  /\ g \o Append(c, e) = Append(g \o c, e)
         /\ c # <<>> => Append(g, Head(c)) \o Tail(c) = g \o c
         /\ \A i \in DOMAIN (g \o c) : (g \o c)[i] \in Range(g) \cup Range(c)
  <1>1. g \o Append(c, e) = Append(g \o c, e)
    OBVIOUS
  <1>2. c # <<>> => Append(g, Head(c)) \o Tail(c) = g \o c
    OBVIOUS
  <1>3. ASSUME NEW i \in DOMAIN (g \o c) PROVE (g \o c)[i] \in Range(g) \cup Range(c)
    <2>1. \/ i \in DOMAIN g /\ (g \o c)[i] = g[i]
          \/ i - Len(g) \in DOMAIN c /\ (g \o c)[i] = c[i - Len(g)]
      BY <1>3
    <2> QED BY <2>1 DEF Range
  <1> QED BY <1>1, <1>2, <1>3, Zenon

(* An event that is sent comes after all that were sent. *)
LEMMA NotifyAppend ==
  ASSUME sent \in Seq(Events), NEW e \in Events, sent' = Append(sent, e)
  PROVE  NotifyOrder' = NotifyOrder \cup (Range(sent) \X {e})
  <1>1. /\ DOMAIN sent' = 1 .. Len(sent) + 1 /\ DOMAIN sent = 1 .. Len(sent) /\ Len(sent) \in Nat
        /\ sent'[Len(sent) + 1] = e /\ \A i \in 1 .. Len(sent) : sent'[i] = sent[i]
    OBVIOUS
  <1>2. \A i \in 1 .. Len(sent) : sent[i] \in Events
    OBVIOUS
  <1>3. ASSUME NEW p \in NotifyOrder' PROVE p \in NotifyOrder \cup (Range(sent) \X {e})
    <2>1. PICK j \in 1 .. Len(sent) + 1 : \E i \in 1 .. j - 1 : p = <<sent'[i], sent'[j]>>
      BY <1>1, <1>3 DEF NotifyOrder
    <2>2. PICK i \in 1 .. j - 1 : p = <<sent'[i], sent'[j]>>
      BY <2>1
    <2>3. i \in 1 .. Len(sent)
      BY <1>1
    <2>4. CASE j = Len(sent) + 1
      BY <1>1, <2>2, <2>3, <2>4 DEF Range
    <2>5. CASE j # Len(sent) + 1
      <3>1. j \in DOMAIN sent
        BY <1>1, <2>5
      <3>2. p = <<sent[i], sent[j]>> /\ p \in Events \X Events
        BY <1>1, <1>2, <2>2, <2>3, <3>1
      <3> QED BY <2>2, <3>1, <3>2 DEF NotifyOrder
    <2> QED BY <2>4, <2>5
  <1>4. ASSUME NEW p \in NotifyOrder PROVE p \in NotifyOrder'
    <2>1. PICK j \in DOMAIN sent : \E i \in 1 .. j - 1 : p = <<sent[i], sent[j]>>
      BY <1>4 DEF NotifyOrder
    <2>2. PICK i \in 1 .. j - 1 : p = <<sent[i], sent[j]>>
      BY <2>1
    <2>3. j \in DOMAIN sent' /\ i \in 1 .. Len(sent)
      BY <1>1
    <2>4. p = <<sent'[i], sent'[j]>> /\ p \in Events \X Events
      BY <1>1, <1>2, <2>2, <2>3
    <2> QED BY <2>2, <2>3, <2>4 DEF NotifyOrder
  <1>5. ASSUME NEW f \in Range(sent) PROVE <<f, e>> \in NotifyOrder'
    <2>1. PICK i \in 1 .. Len(sent) : f = sent[i]
      BY <1>1 DEF Range
    <2>2. i \in 1 .. (Len(sent) + 1) - 1 /\ Len(sent) + 1 \in DOMAIN sent'
      BY <1>1
    <2>3. <<f, e>> = <<sent'[i], sent'[Len(sent) + 1]>> /\ <<f, e>> \in Events \X Events
      BY <1>1, <1>2, <2>1
    <2> QED BY <2>2, <2>3, Zenon DEF NotifyOrder
  <1>6. ASSUME NEW p \in Range(sent) \X {e} PROVE p \in NotifyOrder'
    <2>1. PICK f \in Range(sent) : p = <<f, e>>
      BY <1>6
    <2> QED BY <1>5, <2>1
  <1> QED BY <1>3, <1>4, <1>6

(* If none is sent twice, none comes before itself or before an earlier one. *)
LEMMA NotifyStrict ==
  ASSUME sent \in Seq(Events), Distinct(sent), NEW e, NEW f, <<e, f>> \in NotifyOrder
  PROVE  e # f /\ <<f, e>> \notin NotifyOrder
  <1>1. PICK j \in DOMAIN sent : \E i \in 1 .. j - 1 : <<e, f>> = <<sent[i], sent[j]>>
    BY DEF NotifyOrder
  <1>2. PICK i \in 1 .. j - 1 : e = sent[i] /\ f = sent[j]
    BY <1>1
  <1>3. i \in DOMAIN sent /\ i \in Nat /\ j \in Nat /\ i < j
    OBVIOUS
  <1>4. e # f
    BY <1>2, <1>3 DEF Distinct
  <1>5. ASSUME <<f, e>> \in NotifyOrder PROVE FALSE
    <2>1. PICK l \in DOMAIN sent : \E k \in 1 .. l - 1 : <<f, e>> = <<sent[k], sent[l]>>
      BY <1>5 DEF NotifyOrder
    <2>2. PICK k \in 1 .. l - 1 : f = sent[k] /\ e = sent[l]
      BY <2>1
    <2>3. k \in DOMAIN sent /\ k < l
      OBVIOUS
    <2>4. k = j /\ l = i
      BY <1>2, <1>3, <2>2, <2>3, Zenon DEF Distinct
    <2> QED BY <1>3, <2>3, <2>4
  <1> QED BY <1>4, <1>5

(* What the abstract bus may do while a bus takes a step. *)
BusStep == Bus!Next \/ UNCHANGED Bus!vars

LEMMA BusQuiet ==
  ASSUME UNCHANGED <<Published, Before, Inbox>>
  PROVE  BusStep
  BY DEF BusStep, Bus!vars

LEMMA BusPublish ==
  ASSUME NEW e \in Events, e \notin Published, Published' = Published \cup {e},
         NEW done \in SUBSET Published, Before' = Before \cup (done \X {e}), Inbox' = Inbox
  PROVE  BusStep
  BY DEF BusStep, Bus!Next, Bus!Publish

LEMMA BusDeliver ==
  ASSUME BusTypes, NEW s \in Subs, NEW e \in Events, e \in Published \cap Wants[s],
         \A f \in Box(s) : f # e /\ <<e, f>> \notin Before,
         UNCHANGED <<Published, Before, got>>, chan' = [chan EXCEPT ![s] = Append(@, e)]
  PROVE  BusStep
  <1>1. got[s] \in Seq(Events) /\ chan[s] \in Seq(Events)
    BY DEF BusTypes
  <1>2. \A i \in DOMAIN Inbox[s] : Inbox[s][i] \in Box(s)
    <2>1. Inbox[s] = got[s] \o chan[s]
      BY Zenon DEF Inbox
    <2> QED BY <1>1, <2>1, InboxSteps, Zenon DEF Box
  <1>3. Inbox' = [Inbox EXCEPT ![s] = Append(@, e)]
    <2>1. /\ chan'[s] = Append(chan[s], e) /\ got' = got
          /\ \A t \in Subs : t # s => chan'[t] = chan[t]
      BY DEF BusTypes
    <2>2. got[s] \o Append(chan[s], e) = Append(got[s] \o chan[s], e)
      BY <1>1, InboxSteps, Zenon
    <2>3. got'[s] \o chan'[s] = Append(got[s] \o chan[s], e)
      BY <2>1, <2>2, Zenon
    <2>4. \A t \in Subs : t # s => got'[t] \o chan'[t] = got[t] \o chan[t]
      BY <2>1, Zenon
    <2> QED BY <2>3, <2>4, Zenon DEF Inbox
  <1>4. Bus!Deliver(s, e)
    BY <1>2, <1>3 DEF Bus!Deliver
  <1> QED BY <1>4 DEF BusStep, Bus!Next

(* Steps that send nothing and put nothing into a channel. *)
LEMMA StaysQuiet ==
  ASSUME UNCHANGED <<backend, stage, sent, earlier, got, chan>>
  PROVE  BusStep /\ NotifyOrder' = NotifyOrder /\ \A s \in Subs : Box(s)' = Box(s)
  <1>1. NotifyOrder' = NotifyOrder
    BY DEF NotifyOrder
  <1>2. UNCHANGED <<Published, Before, Inbox>>
    BY <1>1 DEF Published, Before, Inbox
  <1> QED BY <1>1, <1>2, BusQuiet DEF Box

(* Publish on PostgreSQL: the insert and its failure are not seen; NOTIFY    *)
(* puts the event behind all that were sent.                                 *)
LEMMA PgPublish ==
  ASSUME BusInv, backend = "postgres", UNCHANGED otherVars, NEW e \in Events,
         PublishInsert(e) \/ PublishNotify(e) \/ PublishFail(e)
  PROVE  BusInv' /\ BusStep
  <1> USE DEF publishVars, subVars, startVars, connVars, deliverVars, otherVars
  <1>1. UNCHANGED <<backend, subscribers, giving, pipe, earlier, sub, chan, got, cur, left>>
    BY DEF PublishInsert, PublishNotify, PublishFail
  <1>2. BusTypes /\ SentInv /\ PgInv /\ Inbox' = Inbox /\ \A s \in Subs : Box(s)' = Box(s)
    BY <1>1 DEF BusInv, Inbox, Box
  <1>3. CASE PublishInsert(e) \/ PublishFail(e)
    <2>1. UNCHANGED <<sent, wire>> /\ \E x \in Stages : stage' = [stage EXCEPT ![e] = x]
      BY <1>3 DEF PublishInsert, PublishFail, Stages
    <2>2. \A f \in Events : stage'[f] \in {"new", "stored"} => stage[f] \in {"new", "stored"}
      BY <1>2, <1>3 DEF PublishInsert, PublishFail, BusTypes
    <2>3. NotifyOrder' = NotifyOrder
      BY <2>1 DEF NotifyOrder
    <2>4. BusTypes'
      BY <1>1, <1>2, <2>1 DEF BusTypes
    <2>5. SentInv' /\ PgInv'
      <3>1. SentInv'
        BY <1>1, <1>2, <2>1, <2>2 DEF SentInv
      <3>2. PgInv'
        BY <1>1, <1>2, <2>1, <2>3 DEF PgInv, BusTypes
      <3> QED BY <3>1, <3>2
    <2>6. BusStep
      BY <1>1, <1>2, <2>1, <2>3, BusQuiet DEF Published, Before
    <2> QED BY <1>1, <2>4, <2>5, <2>6 DEF BusInv
  <1>4. CASE PublishNotify(e)
    <2>1. /\ sent' = Append(sent, e) /\ stage' = [stage EXCEPT ![e] = "sent"]
          /\ wire' = wire \/ wire' = Append(wire, e)
      BY <1>4 DEF PublishNotify
    <2>2. e \notin Range(sent)
      BY <1>2, <1>4 DEF PublishNotify, SentInv
    <2>3. /\ sent' \in Seq(Events) /\ Range(sent') = Range(sent) \cup {e}
          /\ NotifyOrder' = NotifyOrder \cup (Range(sent) \X {e})
      BY <1>2, <2>1, AppendRange, NotifyAppend DEF BusTypes
    <2>4. wire' \in Seq(Events) /\ Range(wire') \subseteq Range(wire) \cup {e}
      <3>1. wire \in Seq(Events)
        BY <1>2 DEF BusTypes
      <3>2. Append(wire, e) \in Seq(Events) /\ Range(Append(wire, e)) = Range(wire) \cup {e}
        BY <3>1, AppendRange
      <3> QED BY <2>1, <3>1, <3>2, Zenon
    <2>5. BusTypes'
      BY <1>1, <1>2, <2>1, <2>3, <2>4 DEF BusTypes, Stages
    <2>6. SentInv'
      <3>1. Distinct(sent')
        BY <1>2, <2>1, <2>2, DistinctAppend DEF SentInv, BusTypes
      <3>2. \A f \in Events : stage'[f] \in {"new", "stored"} => f # e /\ stage[f] \in {"new", "stored"}
        BY <1>2, <2>1 DEF BusTypes
      <3> QED BY <1>1, <1>2, <2>3, <3>1, <3>2 DEF SentInv
    <2>7. PgInv'
      <3>1. InOrder(wire', NotifyOrder')
        <4>1. InOrder(wire, NotifyOrder')
          BY <1>2, <2>3 DEF PgInv, InOrder
        <4>2. \A f \in Range(wire) : <<f, e>> \in NotifyOrder'
          BY <1>2, <2>3 DEF PgInv
        <4>3. InOrder(Append(wire, e), NotifyOrder')
          BY <1>2, <4>1, <4>2, InOrderAppend DEF BusTypes
        <4> QED BY <2>1, <4>1, <4>3, Zenon
      <3>2. \A s \in Subs : \A f \in Box(s), g \in Range(wire') : <<f, g>> \in NotifyOrder'
        BY <1>2, <2>3, <2>4, Zenon DEF PgInv, SentInv
      <3>3. cur # NoEvent => \A g \in Range(wire') : <<cur, g>> \in NotifyOrder'
        BY <1>2, <2>3, <2>4 DEF PgInv
      <3>4. Range(wire') \subseteq Range(sent')
        BY <1>2, <2>3, <2>4 DEF PgInv
      <3>5. \A s \in left : Box(s)' = Box(s)
        BY <1>2 DEF BusTypes
      <3> QED BY <1>1, <1>2, <2>3, <3>1, <3>2, <3>3, <3>4, <3>5 DEF PgInv
    <2>8. BusStep
      <3>1. /\ Published = Range(sent) /\ Published' = Range(sent')
            /\ Before = NotifyOrder /\ Before' = NotifyOrder'
        BY <1>1 DEF Published, Before
      <3>2. Published \in SUBSET Published
        OBVIOUS
      <3> QED BY <1>2, <2>2, <2>3, <3>1, <3>2, BusPublish, Zenon
    <2> QED BY <1>1, <2>5, <2>6, <2>7, <2>8 DEF BusInv
  <1> QED BY <1>3, <1>4

(* What changes only who is subscribed, or loses the connection. *)
LEMMA PgRest ==
  ASSUME BusInv, backend = "postgres", UNCHANGED otherVars,
         UNCHANGED <<stage, sent, got, chan, cur, left>>, wire' \in {wire, <<>>},
         sub' \in [Subs -> {"none", "start", "live", "cancelled", "removed"}]
  PROVE  BusInv' /\ BusStep
  <1>1. UNCHANGED <<backend, subscribers, giving, pipe, earlier>>
    BY DEF otherVars
  <1>2. BusStep /\ NotifyOrder' = NotifyOrder /\ \A s \in Subs : Box(s)' = Box(s)
    BY <1>1, StaysQuiet
  <1>3. BusTypes /\ SentInv /\ PgInv
    BY DEF BusInv
  <1>4. BusTypes'
    <2>1. wire' \in Seq(Events)
      <3>1. wire \in Seq(Events) /\ <<>> \in Seq(Events)
        BY <1>3 DEF BusTypes
      <3> QED BY <3>1, Zenon
    <2> QED BY <1>1, <1>3, <2>1 DEF BusTypes
  <1>5. SentInv'
    BY <1>1, <1>2, <1>3 DEF SentInv
  <1>6. PgInv'
    <2>1. CASE wire' = wire
      BY <1>1, <1>2, <1>3, <2>1 DEF PgInv, BusTypes
    <2>2. CASE wire' = <<>>
      <3>1. Range(wire') = {} /\ InOrder(wire', NotifyOrder')
        BY <2>2 DEF Range, InOrder
      <3> QED BY <1>1, <1>2, <1>3, <3>1 DEF PgInv, BusTypes
    <2> QED BY <2>1, <2>2
  <1> QED BY <1>1, <1>2, <1>4, <1>5, <1>6 DEF BusInv

(* The listener takes the first event off the wire ... *)
LEMMA PgTake ==
  ASSUME BusInv, backend = "postgres", UNCHANGED otherVars, Take
  PROVE  BusInv' /\ BusStep
  <1> USE DEF publishVars, subVars, startVars, connVars, deliverVars
  <1>1. UNCHANGED <<backend, subscribers, giving, pipe, earlier, stage, sent, got, chan, sub>>
    BY DEF otherVars, Take
  <1>2. BusStep /\ NotifyOrder' = NotifyOrder /\ \A s \in Subs : Box(s)' = Box(s)
    BY <1>1, StaysQuiet
  <1>3. BusTypes /\ SentInv /\ PgInv
    BY DEF BusInv
  <1>4. /\ wire # <<>> /\ wire' = Tail(wire) /\ left' \subseteq Subs
        /\ cur' = NoEvent \/ cur' = Head(wire)
    BY DEF Take, Registered
  <1>5. /\ Head(wire) \in Events /\ Tail(wire) \in Seq(Events)
        /\ Range(wire) = Range(Tail(wire)) \cup {Head(wire)}
    BY <1>3, <1>4, TailRange DEF BusTypes
  <1>6. InOrder(Tail(wire), NotifyOrder) /\ \A y \in Range(Tail(wire)) : <<Head(wire), y>> \in NotifyOrder
    BY <1>3, <1>4, InOrderTail DEF BusTypes, PgInv
  <1>7. BusTypes'
    BY <1>1, <1>3, <1>4, <1>5 DEF BusTypes
  <1>8. SentInv'
    BY <1>1, <1>2, <1>3 DEF SentInv
  <1>9. PgInv'
    <2>1. \A s \in Subs : \A e \in Box(s)', f \in Range(wire') : <<e, f>> \in NotifyOrder'
      BY <1>2, <1>3, <1>4, <1>5, Zenon DEF PgInv
    <2>2. cur' # NoEvent =>
            /\ cur' \in Range(sent)
            /\ \A f \in Range(wire') : <<cur', f>> \in NotifyOrder'
            /\ \A s \in left' : \A e \in Box(s)' : <<e, cur'>> \in NotifyOrder'
      BY <1>2, <1>3, <1>4, <1>5, <1>6 DEF PgInv
    <2>3. InOrder(wire', NotifyOrder') /\ Range(wire') \subseteq Range(sent)
      BY <1>2, <1>3, <1>4, <1>5, <1>6 DEF PgInv
    <2> QED BY <1>1, <1>3, <2>1, <2>2, <2>3 DEF PgInv
  <1> QED BY <1>1, <1>2, <1>7, <1>8, <1>9 DEF BusInv

(* ... and hands it to a subscriber, to whom nothing later has come. *)
LEMMA PgOffer ==
  ASSUME BusInv, backend = "postgres", UNCHANGED otherVars, NEW s \in Subs, Offer(s)
  PROVE  BusInv' /\ BusStep
  <1> USE DEF publishVars, subVars, startVars, connVars, deliverVars
  <1>1. /\ UNCHANGED <<backend, subscribers, giving, pipe, earlier, stage, sent, got, sub, wire>>
        /\ cur # NoEvent /\ s \in left /\ left' = left \ {s} /\ cur' \in {cur, NoEvent}
        /\ chan' = IF Accepts(s, cur) THEN [chan EXCEPT ![s] = Append(@, cur)] ELSE chan
    BY DEF otherVars, Offer
  <1>2. BusTypes /\ SentInv /\ PgInv /\ NotifyOrder' = NotifyOrder
    BY <1>1 DEF BusInv, NotifyOrder
  <1>3. cur \in Events /\ chan[s] \in Seq(Events) /\ cur \in Range(sent)
    BY <1>1, <1>2 DEF BusTypes, PgInv
  <1>4. chan' \in [Subs -> Seq(Events)]
    BY <1>1, <1>2, <1>3 DEF BusTypes
  <1>5. \A t \in Subs : Box(t)' \subseteq Box(t) \cup (IF t = s THEN {cur} ELSE {})
    <2>1. Range(Append(chan[s], cur)) = Range(chan[s]) \cup {cur}
      BY <1>3, AppendRange
    <2>2. \A t \in Subs : chan'[t] = chan[t] \/ (t = s /\ chan'[t] = Append(chan[s], cur))
      BY <1>1, <1>2 DEF BusTypes
    <2> QED BY <1>1, <2>1, <2>2 DEF Box
  <1>6. BusTypes'
    BY <1>1, <1>2, <1>4 DEF BusTypes
  <1>7. SentInv'
    BY <1>1, <1>2, <1>3, <1>5 DEF SentInv
  <1>8. PgInv'
    <2>1. \A t \in Subs : \A e \in Box(t)', f \in Range(wire) : <<e, f>> \in NotifyOrder
      BY <1>1, <1>2, <1>5, Zenon DEF PgInv
    <2>2. \A t \in left' : Box(t)' \subseteq Box(t) /\ t \in left
      BY <1>1, <1>2, <1>5 DEF BusTypes
    <2> QED BY <1>1, <1>2, <2>1, <2>2 DEF PgInv
  <1>9. BusStep
    <2>1. UNCHANGED <<Published, Before>> /\ Published = Range(sent) /\ Before = NotifyOrder
      BY <1>1, <1>2 DEF Published, Before
    <2>2. CASE Accepts(s, cur)
      <3>1. \A f \in Box(s) : f # cur /\ <<cur, f>> \notin Before
        BY <1>1, <1>2, <2>1, NotifyStrict, Zenon DEF PgInv, SentInv, BusTypes
      <3>2. cur \in Published \cap Wants[s]
        BY <1>3, <2>1, <2>2 DEF Accepts
      <3> QED BY <1>1, <1>2, <1>3, <2>1, <2>2, <3>1, <3>2, BusDeliver, Zenon
    <2>3. CASE ~Accepts(s, cur)
      BY <1>1, <2>1, <2>3, BusQuiet DEF Inbox
    <2> QED BY <2>2, <2>3
  <1> QED BY <1>1, <1>6, <1>7, <1>8, <1>9 DEF BusInv

(* Who is to be given an event is a subscription, and what one has, an event. *)
LEMMA BoxTypes ==
  ASSUME BusTypes
  PROVE  /\ \A e \in Events : Range(giving[e]) \subseteq Subs
         /\ \A s \in Subs : Box(s) \subseteq Events
         /\ Range(subscribers) \subseteq Subs
  <1>1. \A e \in Events : giving[e] \in Seq(Subs)
    BY DEF BusTypes
  <1>2. \A s \in Subs : got[s] \in Seq(Events) /\ chan[s] \in Seq(Events)
    BY DEF BusTypes
  <1>3. \A s \in Subs : Range(got[s]) \subseteq Events /\ Range(chan[s]) \subseteq Events
    BY <1>2, RangeIn
  <1>4. Range(subscribers) \subseteq Subs
    BY RangeIn DEF BusTypes
  <1>5. \A e \in Events : Range(giving[e]) \subseteq Subs
    BY <1>1, RangeIn
  <1> QED BY <1>3, <1>4, <1>5 DEF Box

(* A subscriber that reads has what it could read before. *)
LEMMA ReadStep ==
  ASSUME BusInv, UNCHANGED otherVars, NEW s \in Subs, Receive(s)
  PROVE  BusInv' /\ BusStep
  <1> USE DEF publishVars, startVars, connVars, deliverVars
  <1>1. /\ UNCHANGED <<backend, subscribers, giving, pipe, earlier, stage, sent, sub, wire, cur, left>>
        /\ chan[s] # <<>> /\ got' = [got EXCEPT ![s] = Append(@, Head(chan[s]))]
        /\ chan' = [chan EXCEPT ![s] = Tail(@)]
    BY DEF otherVars, Receive
  <1>2. BusTypes /\ NotifyOrder' = NotifyOrder
    BY <1>1 DEF BusInv, NotifyOrder
  <1>3. /\ got[s] \in Seq(Events) /\ chan[s] \in Seq(Events)
        /\ got'[s] = Append(got[s], Head(chan[s])) /\ chan'[s] = Tail(chan[s])
        /\ \A t \in Subs : t # s => got'[t] = got[t] /\ chan'[t] = chan[t]
    BY <1>1, <1>2 DEF BusTypes
  <1>4. /\ Head(chan[s]) \in Events /\ Tail(chan[s]) \in Seq(Events)
        /\ Range(chan[s]) = Range(Tail(chan[s])) \cup {Head(chan[s])}
    BY <1>1, <1>3, TailRange
  <1>5. /\ Append(got[s], Head(chan[s])) \in Seq(Events)
        /\ Range(Append(got[s], Head(chan[s]))) = Range(got[s]) \cup {Head(chan[s])}
    BY <1>3, <1>4, AppendRange
  <1>6. \A t \in Subs : Box(t)' = Box(t)
    BY <1>3, <1>4, <1>5, Zenon DEF Box
  <1>7. Inbox' = Inbox
    <2>1. Append(got[s], Head(chan[s])) \o Tail(chan[s]) = got[s] \o chan[s]
      BY <1>1, <1>3, <1>4, InboxSteps, Zenon
    <2>2. got'[s] \o chan'[s] = got[s] \o chan[s]
      BY <1>3, <2>1, Zenon
    <2>3. \A t \in Subs : t # s => got'[t] \o chan'[t] = got[t] \o chan[t]
      BY <1>3, Zenon
    <2> QED BY <2>2, <2>3, Zenon DEF Inbox
  <1>8. BusTypes'
    BY <1>1, <1>2, <1>4, <1>5 DEF BusTypes
  <1>9. BusStep
    <2>1. UNCHANGED <<Published, Before>>
      BY <1>1, <1>2 DEF Published, Before
    <2> QED BY <1>7, <2>1, BusQuiet
  <1>10. backend = "memory" => GivingInv'
    <2>1. \A e \in Events : Range(giving[e]) \subseteq Subs
      BY <1>2, BoxTypes
    <2> QED BY <1>1, <1>6, <2>1 DEF BusInv, GivingInv
  <1>11. backend # "memory" => SentInv'
    BY <1>1, <1>6 DEF BusInv, SentInv
  <1>12. backend = "postgres" => PgInv'
    BY <1>1, <1>2, <1>6, Zenon DEF BusInv, PgInv, BusTypes
  <1>13. backend = "valkey" => PipeInv'
    BY <1>1, <1>2, <1>6, Zenon DEF BusInv, PipeInv
  <1> QED BY <1>1, <1>8, <1>9, <1>10, <1>11, <1>12, <1>13 DEF BusInv

(* In memory, Subscribe appends to the subscribers one that is not there; *)
LEMMA MemSubscribeStep ==
  ASSUME BusInv, NEW s \in Subs, MemSubscribe(s)
  PROVE  BusInv' /\ BusStep
  <1> USE DEF publishVars, startVars, connVars, deliverVars
  <1>1. /\ UNCHANGED <<stage, sent, chan, got, wire, cur, left, backend, giving, pipe, earlier>>
        /\ backend = "memory" /\ sub[s] = "none" /\ sub' = [sub EXCEPT ![s] = "live"]
        /\ subscribers' = Append(subscribers, s)
    BY DEF MemSubscribe
  <1>2. BusStep /\ NotifyOrder' = NotifyOrder /\ \A t \in Subs : Box(t)' = Box(t)
    BY <1>1, StaysQuiet
  <1>3. BusTypes /\ GivingInv
    BY <1>1 DEF BusInv
  <1>4. subscribers \in Seq(Subs) /\ s \notin Range(subscribers)
    BY <1>1, <1>3 DEF BusTypes, GivingInv
  <1>5. subscribers' \in Seq(Subs) /\ Range(subscribers') = Range(subscribers) \cup {s}
    BY <1>1, <1>4, AppendRange
  <1>6. Distinct(subscribers')
    BY <1>1, <1>3, <1>4, DistinctAppend DEF GivingInv
  <1>7. BusTypes'
    BY <1>1, <1>3, <1>5 DEF BusTypes
  <1>8. GivingInv'
    <2>1. \A t \in Range(subscribers') : sub'[t] # "none"
      <3>1. sub'[s] = "live" /\ \A t \in Subs : t # s => sub'[t] = sub[t]
        BY <1>1, <1>3 DEF BusTypes
      <3>2. \A t \in Range(subscribers) : t \in Subs /\ sub[t] # "none"
        BY <1>3, BoxTypes, Zenon DEF GivingInv
      <3> QED BY <1>5, <3>1, <3>2
    <2>2. \A e \in Events : Range(giving[e]) \subseteq Subs
      BY <1>3, BoxTypes
    <2> QED BY <1>1, <1>2, <1>3, <1>6, <2>1, <2>2 DEF GivingInv
  <1> QED BY <1>1, <1>2, <1>7, <1>8 DEF BusInv

(* Publish begins, after those that have returned; *)
LEMMA MemPublishStep ==
  ASSUME BusInv, NEW e \in Events, MemPublish(e)
  PROVE  BusInv' /\ BusStep
  <1> USE DEF subVars, startVars, connVars, deliverVars
  <1> DEFINE done == {f \in Events : stage[f] = "sent"}
             next == IF subscribers = <<>> THEN "sent" ELSE "giving"
  <1>1. /\ UNCHANGED <<sent, chan, got, wire, cur, left, backend, subscribers, pipe, sub>>
        /\ backend = "memory" /\ stage[e] = "new" /\ stage' = [stage EXCEPT ![e] = next]
        /\ giving' = [giving EXCEPT ![e] = subscribers]
        /\ earlier' = earlier \cup (done \X {e})
    BY DEF MemPublish
  <1>2. BusTypes /\ GivingInv /\ Inbox' = Inbox /\ \A s \in Subs : Box(s)' = Box(s)
    BY <1>1, Zenon DEF BusInv, Inbox, Box
  <1>3. /\ stage'[e] = next /\ next \in {"sent", "giving"} /\ giving'[e] = subscribers
        /\ \A f \in Events : f # e => stage'[f] = stage[f] /\ giving'[f] = giving[f]
    BY <1>1, <1>2 DEF BusTypes
  <1>4. BusTypes'
    BY <1>1, <1>2 DEF BusTypes, Stages
  <1>5. GivingInv'
    <2>1. \A s \in Subs : e \notin Box(s)
      BY <1>1, <1>2 DEF GivingInv
    <2>2. Range(subscribers) \subseteq Subs /\ \A f \in Events : Range(giving[f]) \subseteq Subs
      BY <1>2, BoxTypes
    <2>3. \A f \in Events : /\ Distinct(giving'[f])
                            /\ giving'[f] # <<>> => stage'[f] = "giving"
                            /\ \A s \in Range(giving'[f]) : f \notin Box(s)'
      <3>1. \A f \in Events : /\ Distinct(giving[f])
                              /\ giving[f] # <<>> => stage[f] = "giving"
                              /\ \A s \in Range(giving[f]) : f \notin Box(s)
        BY <1>2, Zenon DEF GivingInv
      <3>2. ASSUME NEW f \in Events, f # e
            PROVE  /\ Distinct(giving'[f])
                   /\ giving'[f] # <<>> => stage'[f] = "giving"
                   /\ \A s \in Range(giving'[f]) : f \notin Box(s)'
        BY <1>2, <1>3, <2>2, <3>1, <3>2, Zenon
      <3>3. /\ Distinct(giving'[e])
            /\ giving'[e] # <<>> => stage'[e] = "giving"
            /\ \A s \in Range(giving'[e]) : e \notin Box(s)'
        <4>1. Distinct(subscribers) /\ (subscribers # <<>> => stage'[e] = "giving")
          BY <1>2, <1>3, Zenon DEF GivingInv
        <4> QED BY <1>2, <1>3, <2>1, <2>2, <4>1, Zenon
      <3> QED BY <3>2, <3>3, Zenon
    <2>4. \A s \in Subs : \A f \in Box(s)' : stage'[f] # "new"
      <3>1. \A s \in Subs : Box(s) \subseteq Events
        BY <1>2, BoxTypes
      <3> QED BY <1>2, <1>3, <3>1 DEF GivingInv
    <2>5. \A f, g \in Events : <<f, g>> \in earlier' => stage'[f] = "sent"
      BY <1>1, <1>2, <1>3 DEF GivingInv
    <2> QED BY <1>1, <1>2, <2>3, <2>4, <2>5 DEF GivingInv
  <1>6. BusStep
    <2>1. Published' = Published \cup {e} /\ e \notin Published
      BY <1>1, <1>3 DEF Published
    <2>2. Before' = Before \cup (done \X {e}) /\ done \in SUBSET Published
      BY <1>1 DEF Before, Published
    <2> QED BY <1>2, <2>1, <2>2, BusPublish, Zenon
  <1> QED BY <1>1, <1>4, <1>5, <1>6 DEF BusInv

(* and comes to the next subscriber. *)
LEMMA MemOfferStep ==
  ASSUME BusInv, NEW e \in Events, MemOffer(e)
  PROVE  BusInv' /\ BusStep
  <1> USE DEF startVars, connVars, deliverVars
  <1> DEFINE s == Head(giving[e])
  <1>1. /\ UNCHANGED <<sent, got, wire, cur, left, backend, subscribers, pipe, sub, earlier>>
        /\ giving[e] # <<>> /\ giving' = [giving EXCEPT ![e] = Tail(@)]
        /\ chan' = IF Accepts(s, e) THEN [chan EXCEPT ![s] = Append(@, e)] ELSE chan
        /\ stage' = [stage EXCEPT ![e] = IF Len(giving[e]) = 1 THEN "sent" ELSE @]
    BY DEF MemOffer
  <1>2. backend = "memory" /\ BusTypes /\ GivingInv
    BY <1>1 DEF BusInv, SentInv
  <1>3. /\ giving[e] \in Seq(Subs) /\ stage[e] = "giving" /\ Distinct(giving[e])
        /\ \A t \in Range(giving[e]) : e \notin Box(t)
    BY <1>1, <1>2 DEF BusTypes, GivingInv
  <1>4. /\ s \in Subs /\ Tail(giving[e]) \in Seq(Subs)
        /\ Range(giving[e]) = Range(Tail(giving[e])) \cup {s}
        /\ Distinct(Tail(giving[e])) /\ s \notin Range(Tail(giving[e]))
    BY <1>1, <1>3, TailRange, DistinctTail
  <1> HIDE DEF s
  <1>5. /\ giving'[e] = Tail(giving[e]) /\ stage'[e] \in {"giving", "sent"}
        /\ Tail(giving[e]) # <<>> => stage'[e] = "giving"
        /\ \A f \in Events : f # e => giving'[f] = giving[f] /\ stage'[f] = stage[f]
    <2>1. Tail(giving[e]) # <<>> => Len(giving[e]) # 1
      <3>1. ASSUME NEW q \in Seq(Subs), Len(q) = 1 PROVE Tail(q) = <<>>
        <4>1. Tail(q) \in Seq(Subs) /\ Len(Tail(q)) = 0
          BY <3>1
        <4> QED BY <4>1, EmptySeq, Zenon
      <3> QED BY <1>3, <3>1
    <2> QED BY <1>1, <1>2, <1>3, <2>1 DEF BusTypes
  <1>6. \A t \in Subs : Box(t)' \subseteq Box(t) \cup (IF t = s THEN {e} ELSE {})
    <2>1. chan[s] \in Seq(Events)
      BY <1>2, <1>4 DEF BusTypes
    <2>2. Range(Append(chan[s], e)) = Range(chan[s]) \cup {e}
      BY <2>1, AppendRange
    <2>3. \A t \in Subs : chan'[t] = chan[t] \/ (t = s /\ chan'[t] = Append(chan[s], e))
      BY <1>1, <1>2 DEF BusTypes
    <2> QED BY <1>1, <2>2, <2>3 DEF Box
  <1>7. BusTypes'
    <2>1. chan' \in [Subs -> Seq(Events)]
      BY <1>1, <1>2, <1>4 DEF BusTypes
    <2>2. giving' \in [Events -> Seq(Subs)]
      BY <1>1, <1>2, <1>4 DEF BusTypes
    <2>3. stage' \in [Events -> Stages]
      BY <1>1, <1>2, <1>3 DEF BusTypes, Stages
    <2> QED BY <1>1, <1>2, <2>1, <2>2, <2>3, Zenon DEF BusTypes
  <1>8. GivingInv'
    <2>1. \A f \in Events : Range(giving'[f]) \subseteq Subs
      <3>1. \A f \in Events : Range(giving[f]) \subseteq Subs
        BY <1>2, BoxTypes
      <3> QED BY <1>4, <1>5, <3>1, Zenon
    <2>2. \A f \in Events : \A t \in Range(giving'[f]) : f \notin Box(t)'
      <3>1. \A f \in Events : \A t \in Range(giving[f]) : f \notin Box(t)
        BY <1>2, Zenon DEF GivingInv
      <3>2. ASSUME NEW f \in Events, f # e, NEW t \in Range(giving'[f]) PROVE f \notin Box(t)'
        <4>1. t \in Range(giving[f]) /\ t \in Subs
          BY <1>5, <2>1, <3>2, Zenon
        <4> QED BY <1>6, <3>1, <3>2, <4>1
      <3>3. ASSUME NEW t \in Range(giving'[e]) PROVE e \notin Box(t)'
        <4>1. t \in Range(giving[e]) /\ t \in Subs /\ t # s
          BY <1>4, <1>5, <2>1, <3>3, Zenon
        <4> QED BY <1>6, <3>1, <4>1
      <3> QED BY <3>2, <3>3, Zenon
    <2>3. \A f \in Events : Distinct(giving'[f]) /\ (giving'[f] # <<>> => stage'[f] = "giving")
      BY <1>2, <1>4, <1>5, Zenon DEF GivingInv
    <2>4. \A t \in Subs : \A f \in Box(t)' : stage'[f] # "new"
      <3>1. \A t \in Subs : Box(t) \subseteq Events
        BY <1>2, BoxTypes
      <3> QED BY <1>2, <1>5, <1>6, <3>1 DEF GivingInv
    <2>5. \A f, g \in Events : <<f, g>> \in earlier' => stage'[f] = "sent"
      BY <1>1, <1>2, <1>3, <1>5 DEF GivingInv
    <2> QED BY <1>1, <1>2, <2>2, <2>3, <2>4, <2>5 DEF GivingInv
  <1>9. BusStep
    <2>1. UNCHANGED <<Published, Before>> /\ e \in Published /\ Before = earlier
      BY <1>1, <1>2, <1>3, <1>5 DEF Published, Before
    <2>2. CASE Accepts(s, e)
      <3>1. \A f \in Box(s) : f # e /\ <<e, f>> \notin Before
        <4>1. \A t \in Subs : Box(t) \subseteq Events
          BY <1>2, BoxTypes
        <4>2. e \notin Box(s)
          BY <1>3, <1>4
        <4> QED BY <1>2, <1>3, <1>4, <2>1, <4>1, <4>2 DEF GivingInv
      <3>2. e \in Published \cap Wants[s] /\ chan' = [chan EXCEPT ![s] = Append(@, e)]
        BY <1>1, <2>1, <2>2 DEF Accepts
      <3> QED BY <1>1, <1>2, <1>4, <2>1, <3>1, <3>2, BusDeliver, Zenon
    <2>3. CASE ~Accepts(s, e)
      BY <1>1, <2>1, <2>3, BusQuiet DEF Inbox
    <2> QED BY <2>2, <2>3
  <1> QED BY <1>1, <1>2, <1>7, <1>8, <1>9 DEF BusInv

(* On Valkey, a subscription that comes or goes, or whose connection is lost. *)
LEMMA ValkeyRest ==
  ASSUME BusInv, NEW s \in Subs,
         ValkeySubscribe(s) \/ ValkeyReceive(s) \/ ValkeyCancel(s) \/ ValkeyEnd(s)
  PROVE  BusInv' /\ BusStep
  <1> USE DEF valkeyRest, startVars, deliverVars
  <1>1. /\ UNCHANGED <<stage, sent, chan, got, wire, cur, left, backend, subscribers, giving, earlier>>
        /\ backend = "valkey" /\ pipe' \in {pipe, [pipe EXCEPT ![s] = <<>>]}
        /\ \E x \in {"start", "live", "cancelled", "removed"} : sub' = [sub EXCEPT ![s] = x]
    BY DEF ValkeySubscribe, ValkeyReceive, ValkeyCancel, ValkeyEnd
  <1>2. BusStep /\ NotifyOrder' = NotifyOrder /\ \A t \in Subs : Box(t)' = Box(t)
    BY <1>1, StaysQuiet
  <1>3. BusTypes /\ SentInv /\ PipeInv
    BY <1>1 DEF BusInv
  <1>4. \A t \in Subs : pipe'[t] = pipe[t] \/ pipe'[t] = <<>>
    BY <1>1, <1>3 DEF BusTypes
  <1>5. BusTypes'
    <2>1. pipe' \in [Subs -> Seq(Events)]
      <3>1. pipe \in [Subs -> Seq(Events)] /\ <<>> \in Seq(Events)
        BY <1>3 DEF BusTypes
      <3>2. [pipe EXCEPT ![s] = <<>>] \in [Subs -> Seq(Events)]
        BY <3>1
      <3> QED BY <1>1, <3>1, <3>2, Zenon
    <2>2. sub' \in [Subs -> {"none", "start", "live", "cancelled", "removed"}]
      BY <1>1, <1>3 DEF BusTypes
    <2> QED BY <1>1, <1>3, <2>1, <2>2 DEF BusTypes
  <1>6. SentInv'
    BY <1>1, <1>2, <1>3 DEF SentInv
  <1>7. PipeInv'
    <2>1. Range(<<>>) = {} /\ InOrder(<<>>, NotifyOrder)
      BY DEF Range, InOrder
    <2> QED BY <1>1, <1>2, <1>3, <1>4, <2>1 DEF PipeInv
  <1> QED BY <1>1, <1>2, <1>5, <1>6, <1>7 DEF BusInv

(* PUBLISH puts the event behind all that were sent on every connection. *)
LEMMA ValkeyPublishStep ==
  ASSUME BusInv, NEW e \in Events, ValkeyPublish(e)
  PROVE  BusInv' /\ BusStep
  <1> USE DEF valkeyRest, startVars, deliverVars
  <1>1. /\ UNCHANGED <<sub, chan, got, wire, cur, left, backend, subscribers, giving, earlier>>
        /\ backend = "valkey" /\ stage[e] = "new"
        /\ \E x \in {"sent", "failed"} : stage' = [stage EXCEPT ![e] = x]
    BY DEF ValkeyPublish
  <1>2. BusTypes /\ SentInv /\ PipeInv /\ Inbox' = Inbox /\ \A s \in Subs : Box(s)' = Box(s)
    BY <1>1 DEF BusInv, Inbox, Box
  <1>3. e \notin Range(sent)
    BY <1>1, <1>2 DEF SentInv
  <1>4. \A f \in Events : stage'[f] \in {"new", "stored"} => f # e /\ stage[f] \in {"new", "stored"}
    BY <1>1, <1>2 DEF BusTypes
  <1>5. stage' \in [Events -> Stages]
    BY <1>1, <1>2 DEF BusTypes, Stages
  <1>6. CASE UNCHANGED <<sent, pipe>>
    <2>1. NotifyOrder' = NotifyOrder
      BY <1>6 DEF NotifyOrder
    <2>2. BusTypes'
      BY <1>1, <1>2, <1>5, <1>6 DEF BusTypes
    <2>3. SentInv' /\ PipeInv'
      <3>1. SentInv'
        BY <1>1, <1>2, <1>4, <1>6, Zenon DEF SentInv
      <3>2. PipeInv'
        BY <1>2, <1>6, <2>1, Zenon DEF PipeInv
      <3> QED BY <3>1, <3>2
    <2>4. BusStep
      BY <1>1, <1>2, <1>6, <2>1, BusQuiet DEF Published, Before
    <2> QED BY <1>1, <2>2, <2>3, <2>4 DEF BusInv
  <1>7. CASE /\ sent' = Append(sent, e)
             /\ pipe' = [s \in Subs |-> IF sub[s] \in {"live", "cancelled"} /\ e \in Wants[s]
                                          THEN Append(pipe[s], e) ELSE pipe[s]]
    <2>1. /\ sent' \in Seq(Events) /\ Range(sent') = Range(sent) \cup {e}
          /\ NotifyOrder' = NotifyOrder \cup (Range(sent) \X {e})
      <3>1. sent \in Seq(Events)
        BY <1>2, Zenon DEF BusTypes
      <3>2. sent' \in Seq(Events) /\ Range(sent') = Range(sent) \cup {e}
        BY <1>7, <3>1, AppendRange
      <3>3. NotifyOrder' = NotifyOrder \cup (Range(sent) \X {e})
        BY <1>7, <3>1, NotifyAppend
      <3> QED BY <3>2, <3>3
    <2>2. ASSUME NEW s \in Subs
          PROVE  /\ pipe'[s] \in Seq(Events)
                 /\ Range(pipe'[s]) \subseteq Range(pipe[s]) \cup ({e} \cap Wants[s])
                 /\ InOrder(pipe'[s], NotifyOrder')
      <3>1. pipe[s] \in Seq(Events)
        BY <1>2 DEF BusTypes
      <3>2. Append(pipe[s], e) \in Seq(Events) /\ Range(Append(pipe[s], e)) = Range(pipe[s]) \cup {e}
        BY <3>1, AppendRange
      <3>3. InOrder(pipe[s], NotifyOrder') /\ \A f \in Range(pipe[s]) : <<f, e>> \in NotifyOrder'
        BY <1>2, <2>1 DEF PipeInv, InOrder
      <3>4. InOrder(Append(pipe[s], e), NotifyOrder')
        BY <3>1, <3>3, InOrderAppend
      <3>5. pipe'[s] = pipe[s] \/ (pipe'[s] = Append(pipe[s], e) /\ e \in Wants[s])
        BY <1>7, Zenon
      <3> QED BY <3>1, <3>2, <3>3, <3>4, <3>5, Zenon
    <2>3. BusTypes'
      BY <1>1, <1>2, <1>5, <1>7, <2>1, <2>2, Zenon DEF BusTypes
    <2>4. SentInv'
      <3>1. Distinct(sent')
        BY <1>2, <1>3, <1>7, DistinctAppend DEF SentInv, BusTypes
      <3> QED BY <1>1, <1>2, <1>4, <2>1, <3>1 DEF SentInv
    <2>5. PipeInv'
      <3>1. \A s \in Subs : \A f \in Box(s), g \in Range(pipe'[s]) : <<f, g>> \in NotifyOrder'
        BY <1>2, <2>1, <2>2, Zenon DEF PipeInv, SentInv
      <3>2. \A s \in Subs : Range(pipe'[s]) \subseteq Range(sent') \cap Wants[s]
        BY <1>2, <2>1, <2>2 DEF PipeInv
      <3> QED BY <1>2, <2>2, <3>1, <3>2, Zenon DEF PipeInv
    <2>6. BusStep
      <3>1. /\ Published = Range(sent) /\ Published' = Range(sent')
            /\ Before = NotifyOrder /\ Before' = NotifyOrder'
        BY <1>1 DEF Published, Before
      <3>2. Published \in SUBSET Published
        OBVIOUS
      <3> QED BY <1>2, <1>3, <2>1, <3>1, <3>2, BusPublish, Zenon
    <2> QED BY <1>1, <2>3, <2>4, <2>5, <2>6 DEF BusInv
  <1> QED BY <1>6, <1>7 DEF ValkeyPublish

(* The handler moves the first message from the connection to the channel,   *)
(* or drops it when the subscription is cancelled.                           *)
LEMMA HandlerStep ==
  ASSUME BusInv, NEW s \in Subs, handler(s)
  PROVE  BusInv' /\ BusStep
  <1> USE DEF valkeyRest, startVars, deliverVars
  <1> DEFINE e == Head(pipe[s])
  <1>1. /\ UNCHANGED <<stage, sent, sub, got, wire, cur, left, backend, subscribers, giving, earlier>>
        /\ pipe[s] # <<>> /\ pipe' = [pipe EXCEPT ![s] = Tail(@)]
        /\ chan' = chan \/ chan' = [chan EXCEPT ![s] = Append(@, e)]
    BY DEF handler
  <1>2. backend = "valkey" /\ BusTypes /\ SentInv /\ PipeInv /\ NotifyOrder' = NotifyOrder
    <2>1. pipe # [t \in Subs |-> <<>>]
      BY <1>1, Zenon
    <2>2. backend = "memory" => pipe = [t \in Subs |-> <<>>]
      BY Zenon DEF BusInv, GivingInv
    <2>3. backend = "postgres" => pipe = [t \in Subs |-> <<>>]
      BY Zenon DEF BusInv, PgInv
    <2>4. BusTypes /\ backend \in {"postgres", "memory", "valkey"}
      BY Zenon DEF BusInv, BusTypes
    <2>5. backend = "valkey"
      BY <2>1, <2>2, <2>3, <2>4, Zenon
    <2>6. SentInv /\ PipeInv
      BY <2>5 DEF BusInv
    <2>7. NotifyOrder' = NotifyOrder
      BY <1>1, Zenon DEF NotifyOrder
    <2> QED BY <2>4, <2>5, <2>6, <2>7
  <1>3. pipe[s] \in Seq(Events) /\ chan[s] \in Seq(Events)
    BY <1>2 DEF BusTypes
  <1>4. /\ e \in Events /\ Tail(pipe[s]) \in Seq(Events)
        /\ Range(pipe[s]) = Range(Tail(pipe[s])) \cup {e}
    BY <1>1, <1>3, TailRange
  <1>5. InOrder(Tail(pipe[s]), NotifyOrder) /\ \A f \in Range(Tail(pipe[s])) : <<e, f>> \in NotifyOrder
    BY <1>1, <1>2, <1>3, InOrderTail, Zenon DEF PipeInv
  <1>6. e \in Range(sent) \cap Wants[s] /\ \A f \in Box(s) : <<f, e>> \in NotifyOrder
    BY <1>2, <1>4 DEF PipeInv
  <1> HIDE DEF e
  <1>7. \A t \in Subs : Box(t)' \subseteq Box(t) \cup (IF t = s THEN {e} ELSE {})
    <2>1. Range(Append(chan[s], e)) = Range(chan[s]) \cup {e}
      <3>1. chan[s] \in Seq(Events) /\ e \in Events
        BY <1>3, <1>4, Zenon
      <3> QED BY <3>1, AppendRange
    <2>2. \A t \in Subs : chan'[t] = chan[t] \/ (t = s /\ chan'[t] = Append(chan[s], e))
      BY <1>1, <1>2 DEF BusTypes
    <2> QED BY <1>1, <2>1, <2>2, Zenon DEF Box
  <1>8. pipe'[s] = Tail(pipe[s]) /\ \A t \in Subs : t # s => pipe'[t] = pipe[t]
    BY <1>1, <1>2 DEF BusTypes
  <1>9. BusTypes'
    <2>1. chan' \in [Subs -> Seq(Events)] /\ pipe' \in [Subs -> Seq(Events)]
      <3>1. Append(chan[s], e) \in Seq(Events)
        BY <1>3, <1>4, AppendRange
      <3>2. chan' \in [Subs -> Seq(Events)]
        BY <1>1, <1>2, <3>1, Zenon DEF BusTypes
      <3>3. pipe' \in [Subs -> Seq(Events)]
        BY <1>1, <1>2, <1>4 DEF BusTypes
      <3> QED BY <3>2, <3>3
    <2> QED BY <1>1, <1>2, <2>1 DEF BusTypes
  <1>10. SentInv'
    BY <1>1, <1>2, <1>6, <1>7 DEF SentInv
  <1>11. PipeInv'
    <2>1. ASSUME NEW t \in Subs
          PROVE  /\ InOrder(pipe'[t], NotifyOrder) /\ Range(pipe'[t]) \subseteq Range(sent) \cap Wants[t]
                 /\ \A g \in Box(t)', f \in Range(pipe'[t]) : <<g, f>> \in NotifyOrder
      <3>1. CASE t = s
        BY <1>2, <1>4, <1>5, <1>7, <1>8, <3>1 DEF PipeInv
      <3>2. CASE t # s
        BY <1>2, <1>7, <1>8, <3>2 DEF PipeInv
      <3> QED BY <3>1, <3>2
    <2> QED BY <1>1, <1>2, <2>1, Zenon DEF PipeInv
  <1>12. BusStep
    <2>1. UNCHANGED <<Published, Before>> /\ Published = Range(sent) /\ Before = NotifyOrder
      BY <1>1, <1>2 DEF Published, Before
    <2>2. CASE chan' = [chan EXCEPT ![s] = Append(@, e)]
      <3>1. \A f \in Box(s) : f # e /\ <<e, f>> \notin Before
        BY <1>2, <1>6, <2>1, NotifyStrict, Zenon DEF SentInv, BusTypes
      <3>2. e \in Published \cap Wants[s]
        BY <1>6, <2>1
      <3> QED BY <1>1, <1>2, <1>4, <2>1, <2>2, <3>1, <3>2, BusDeliver, Zenon
    <2>3. CASE chan' = chan
      BY <1>1, <2>1, <2>3, BusQuiet DEF Inbox
    <2> QED BY <1>1, <2>2, <2>3
  <1> QED BY <1>1, <1>2, <1>9, <1>10, <1>11, <1>12 DEF BusInv

----------------------------------------------------------------------------

LEMMA InitBusInv == BusesInit => BusInv /\ Bus!Init
  <1> SUFFICES ASSUME BusesInit PROVE BusInv /\ Bus!Init
    OBVIOUS
  <1> USE DEF BusesInit, Init
  <1>1. BusTypes
    BY DEF BusTypes, Stages
  <1>2. Range(<<>>) = {} /\ Distinct(<<>>) /\ InOrder(<<>>, NotifyOrder)
    BY DEF Range, Distinct, InOrder
  <1>3. \A s \in Subs : Box(s) = {}
    BY <1>2 DEF Box
  <1>4. GivingInv
    BY <1>2, <1>3 DEF GivingInv
  <1>5. SentInv
    BY <1>2, <1>3 DEF SentInv
  <1>6. PgInv /\ PipeInv
    BY <1>2, <1>3 DEF PgInv, PipeInv
  <1>7. Published = {} /\ Before = {} /\ Inbox = [s \in Subs |-> <<>>]
    <2>1. NotifyOrder = {} /\ earlier = {}
      BY DEF NotifyOrder
    <2>2. \A s \in Subs : got[s] \o chan[s] = <<>>
      OBVIOUS
    <2> QED BY <1>2, <2>1, <2>2 DEF Published, Before, Inbox
  <1> QED BY <1>1, <1>4, <1>5, <1>6, <1>7 DEF BusInv, Bus!Init

(* On PostgreSQL every step of the bus is one of the abstract bus, or none. *)
LEMMA PgNext ==
  ASSUME BusInv, Postgres(Next)
  PROVE  BusInv' /\ BusStep
  <1>1. backend = "postgres" /\ Next /\ UNCHANGED otherVars
    BY DEF Postgres
  <1>2. sub \in [Subs -> {"none", "start", "live", "cancelled", "removed"}]
    BY DEF BusInv, BusTypes
  <1>3. ASSUME NEW e \in Events, PublishInsert(e) \/ PublishNotify(e) \/ PublishFail(e)
        PROVE  BusInv' /\ BusStep
    BY <1>1, <1>3, PgPublish
  <1>4. ASSUME NEW s \in Subs, Subscribe(s) \/ StartListener(s) \/ Cancel(s) \/ RemoveSub(s)
        PROVE  BusInv' /\ BusStep
    <2>1. /\ UNCHANGED <<stage, sent, got, chan, cur, left, wire>>
          /\ \E x \in {"start", "live", "cancelled", "removed"} : sub' = [sub EXCEPT ![s] = x]
      BY <1>4 DEF Subscribe, StartListener, Cancel, RemoveSub, publishVars, connVars, deliverVars
    <2>2. sub' \in [Subs -> {"none", "start", "live", "cancelled", "removed"}]
      BY <1>2, <2>1
    <2> QED BY <1>1, <2>1, <2>2, PgRest
  <1>5. ASSUME NEW s \in Subs, Receive(s) PROVE BusInv' /\ BusStep
    BY <1>1, <1>5, ReadStep
  <1>6. CASE Connect \/ EndListener \/ Disconnect \/ Close \/ \E old \in SUBSET db : Cleanup(old)
    <2>1. UNCHANGED <<stage, sent, sub, got, chan, cur, left>> /\ wire' \in {wire, <<>>}
      BY <1>6 DEF Connect, EndListener, Disconnect, Close, Cleanup, publishVars, subVars,
                  connVars, deliverVars
    <2> QED BY <1>1, <1>2, <2>1, PgRest
  <1>7. CASE Take
    BY <1>1, <1>7, PgTake
  <1>8. ASSUME NEW s \in Subs, Offer(s) PROVE BusInv' /\ BusStep
    BY <1>1, <1>8, PgOffer
  <1> QED BY <1>1, <1>3, <1>4, <1>5, <1>6, <1>7, <1>8 DEF Next, Listener

LEMMA NextBusInv == BusInv /\ [BusesNext]_allVars => BusInv' /\ [Bus!Next]_(Bus!vars)
  <1> SUFFICES ASSUME BusInv, [BusesNext]_allVars PROVE BusInv' /\ BusStep
    BY DEF BusStep
  <1>1. CASE Postgres(Next)
    BY <1>1, PgNext
  <1>2. ASSUME NEW e \in Events, MemPublish(e) \/ MemOffer(e) \/ ValkeyPublish(e)
        PROVE  BusInv' /\ BusStep
    BY <1>2, MemPublishStep, MemOfferStep, ValkeyPublishStep
  <1>3. ASSUME NEW s \in Subs, Read(s) \/ MemSubscribe(s) \/ handler(s)
        PROVE  BusInv' /\ BusStep
    BY <1>3, ReadStep, MemSubscribeStep, HandlerStep DEF Read
  <1>4. ASSUME NEW s \in Subs,
               ValkeySubscribe(s) \/ ValkeyReceive(s) \/ ValkeyCancel(s) \/ ValkeyEnd(s)
        PROVE  BusInv' /\ BusStep
    BY <1>4, ValkeyRest
  <1>5. CASE UNCHANGED allVars
    <2>1. UNCHANGED <<stage, sent, sub, got, chan, cur, left, wire, backend, subscribers, giving,
                      pipe, earlier>>
      BY <1>5 DEF allVars, otherVars, vars, publishVars, subVars, connVars, deliverVars
    <2>2. BusStep /\ NotifyOrder' = NotifyOrder /\ \A s \in Subs : Box(s)' = Box(s)
      BY <2>1, StaysQuiet
    <2>3. BusTypes' /\ \A e \in Events : Range(giving[e]) \subseteq Subs
      <3>1. BusTypes
        BY DEF BusInv
      <3>2. BusTypes'
        BY <2>1, <3>1, Zenon DEF BusTypes
      <3> QED BY <3>1, <3>2, BoxTypes, Zenon
    <2>4. backend = "memory" => GivingInv'
      BY <2>1, <2>2, <2>3 DEF BusInv, GivingInv
    <2>5. backend # "memory" => SentInv'
      BY <2>1, <2>2 DEF BusInv, SentInv
    <2>6. backend = "postgres" => PgInv'
      BY <2>1, <2>2 DEF BusInv, PgInv, BusTypes
    <2>7. backend = "valkey" => PipeInv'
      BY <2>1, <2>2 DEF BusInv, PipeInv
    <2> QED BY <2>1, <2>2, <2>3, <2>4, <2>5, <2>6, <2>7 DEF BusInv
  <1> QED BY <1>1, <1>2, <1>3, <1>4, <1>5 DEF BusesNext

(* Whatever channel is full and whatever connection is lost, a subscriber of *)
(* any of the buses of events/bus.go, pg_bus.go and valkey_bus.go receives   *)
(* only events of its kinds, none of them twice, and none after one that was *)
(* published later: each bus implements EventBus.                            *)
THEOREM DeliversInOrder == BusesSpec => IsEventBus
  BY InitBusInv, NextBusInv, PTL DEF BusesSpec, IsEventBus, Bus!Spec

(* The box q holds published events that are wanted, each once and none      *)
(* after one that the order B puts behind it.                                *)
GoodBox(P, B, W, q) ==
  \A i \in DOMAIN q :
    /\ q[i] \in P \cap W
    /\ \A j \in 1 .. i - 1 : q[j] # q[i] /\ <<q[i], q[j]>> \notin B

Good(P, B, X) ==
  X \in [Subs -> Seq(Events)] /\ \A s \in Subs : GoodBox(P, B, Wants[s], X[s])

LEMMA BoxPublish ==
  ASSUME NEW P, NEW B, NEW W, NEW q \in Seq(Events), GoodBox(P, B, W, q),
         NEW e, e \notin P, NEW E, E \subseteq P
  PROVE  GoodBox(P \cup {e}, B \cup (E \X {e}), W, q)
  <1> SUFFICES ASSUME NEW i \in DOMAIN q
               PROVE  /\ q[i] \in (P \cup {e}) \cap W
                      /\ \A j \in 1 .. i - 1 : /\ q[j] # q[i]
                                               /\ <<q[i], q[j]>> \notin B \cup (E \X {e})
    BY DEF GoodBox
  <1>1. /\ q[i] \in P \cap W
        /\ \A j \in 1 .. i - 1 : q[j] # q[i] /\ <<q[i], q[j]>> \notin B
    BY DEF GoodBox
  <1>2. \A j \in 1 .. i - 1 : q[j] # e
    <2>1. \A j \in 1 .. i - 1 : j \in DOMAIN q
      OBVIOUS
    <2> QED BY <2>1 DEF GoodBox
  <1> QED BY <1>1, <1>2

LEMMA BoxDeliver ==
  ASSUME NEW P, NEW B, NEW W, NEW q \in Seq(Events), GoodBox(P, B, W, q),
         NEW e \in Events, e \in P \cap W, \A i \in DOMAIN q : q[i] # e /\ <<e, q[i]>> \notin B
  PROVE  GoodBox(P, B, W, Append(q, e))
  <1> DEFINE r == Append(q, e)
             n == Len(q)
  <1>1. /\ DOMAIN r = 1 .. n + 1 /\ DOMAIN q = 1 .. n /\ n \in Nat
        /\ r[n + 1] = e /\ \A i \in 1 .. n : r[i] = q[i]
    OBVIOUS
  <1> HIDE DEF r, n
  <1>2. ASSUME NEW i \in 1 .. n + 1, NEW j \in 1 .. i - 1
        PROVE  r[j] # r[i] /\ <<r[i], r[j]>> \notin B
    <2>1. j \in 1 .. n
      BY <1>1
    <2>2. CASE i = n + 1
      BY <1>1, <2>1, <2>2
    <2>3. CASE i # n + 1
      <3>1. i \in 1 .. n
        BY <1>1, <2>3
      <3>2. q[j] # q[i] /\ <<q[i], q[j]>> \notin B
        BY <1>1, <3>1, Zenon DEF GoodBox
      <3> QED BY <1>1, <2>1, <3>1, <3>2, Zenon
    <2> QED BY <2>2, <2>3
  <1>3. ASSUME NEW i \in 1 .. n + 1 PROVE r[i] \in P \cap W
    <2>1. i = n + 1 \/ i \in 1 .. n
      BY <1>1
    <2>2. \A k \in 1 .. n : q[k] \in P \cap W
      BY <1>1, Zenon DEF GoodBox
    <2> QED BY <1>1, <2>1, <2>2, Zenon
  <1>4. GoodBox(P, B, W, r)
    BY <1>1, <1>2, <1>3, Zenon DEF GoodBox
  <1> QED BY <1>4 DEF r

LEMMA GoodDeliver ==
  ASSUME NEW P, NEW B, NEW X, Good(P, B, X), NEW s \in Subs, NEW e \in Events,
         e \in P \cap Wants[s],
         \A i \in DOMAIN X[s] : X[s][i] # e /\ <<e, X[s][i]>> \notin B
  PROVE  Good(P, B, [X EXCEPT ![s] = Append(@, e)])
  <1> DEFINE Y == [X EXCEPT ![s] = Append(@, e)]
  <1>1. X \in [Subs -> Seq(Events)] /\ X[s] \in Seq(Events) /\ GoodBox(P, B, Wants[s], X[s])
    BY DEF Good
  <1>2. Append(X[s], e) \in Seq(Events)
    BY <1>1
  <1>3. Y \in [Subs -> Seq(Events)] /\ Y[s] = Append(X[s], e)
        /\ \A t \in Subs : t # s => Y[t] = X[t]
    BY <1>1, <1>2, Zenon
  <1> HIDE DEF Y
  <1>4. GoodBox(P, B, Wants[s], Y[s])
    BY <1>1, <1>3, BoxDeliver
  <1>5. Good(P, B, Y)
    BY <1>3, <1>4, Zenon DEF Good
  <1> QED BY <1>5 DEF Y

(* What the interface promises of the channels. *)
LEMMA GoodInbox == BusesSpec => [](BusTypes /\ Good(Published, Before, Inbox))
  <1>1. BusTypes /\ Bus!Init => Good(Published, Before, Inbox)
    BY DEF Bus!Init, Good, GoodBox
  <1>2. Good(Published, Before, Inbox) /\ [Bus!Next]_(Bus!vars)
          => Good(Published, Before, Inbox)'
    <2> SUFFICES ASSUME Good(Published, Before, Inbox), [Bus!Next]_(Bus!vars)
                 PROVE  Good(Published', Before', Inbox')
      BY Zenon DEF Good, GoodBox
    <2>1. ASSUME NEW e \in Events, Bus!Publish(e) PROVE Good(Published', Before', Inbox')
      <3>1. PICK E \in SUBSET Published : Before' = Before \cup (E \X {e})
        BY <2>1, Zenon DEF Bus!Publish
      <3>2. e \notin Published /\ Published' = Published \cup {e} /\ Inbox' = Inbox
        BY <2>1, Zenon DEF Bus!Publish
      <3>3. Good(Published \cup {e}, Before \cup (E \X {e}), Inbox)
        <4>1. ASSUME NEW s \in Subs
              PROVE  GoodBox(Published \cup {e}, Before \cup (E \X {e}), Wants[s], Inbox[s])
          <5>1. Inbox[s] \in Seq(Events) /\ GoodBox(Published, Before, Wants[s], Inbox[s])
            BY DEF Good
          <5> QED BY <3>1, <3>2, <5>1, BoxPublish
        <4> QED BY <4>1, Zenon DEF Good
      <3> QED BY <3>1, <3>2, <3>3
    <2>2. ASSUME NEW e \in Events, NEW s \in Subs, Bus!Deliver(s, e)
          PROVE  Good(Published', Before', Inbox')
      <3>1. Good(Published, Before, [Inbox EXCEPT ![s] = Append(@, e)])
        BY <2>2, GoodDeliver DEF Bus!Deliver
      <3>2. /\ Published' = Published /\ Before' = Before
            /\ Inbox' = [Inbox EXCEPT ![s] = Append(@, e)]
        BY <2>2, Zenon DEF Bus!Deliver
      <3> QED BY <3>1, <3>2
    <2>3. CASE UNCHANGED Bus!vars
      <3>1. Published' = Published /\ Before' = Before /\ Inbox' = Inbox
        BY <2>3, Zenon DEF Bus!vars
      <3> QED BY <3>1
    <2> QED BY <2>1, <2>2, <2>3 DEF Bus!Next
  <1>3. BusInv => BusTypes
    BY DEF BusInv
  <1> QED BY InitBusInv, NextBusInv, <1>1, <1>2, <1>3, PTL DEF BusesSpec

LEMMA PrefixIs ==
  ASSUME NEW g \in Seq(Events), NEW c \in Seq(Events), NEW i \in DOMAIN g
  PROVE  /\ i \in DOMAIN (g \o c) /\ (g \o c)[i] = g[i]
         /\ \A j \in 1 .. i - 1 : (g \o c)[j] = g[j]
  <1>1. Len(g) \in Nat /\ Len(c) \in Nat /\ DOMAIN g = 1 .. Len(g)
    OBVIOUS
  <1>2. DOMAIN (g \o c) = 1 .. Len(g) + Len(c)
    OBVIOUS
  <1>3. \A j \in 1 .. Len(g) : (g \o c)[j] = g[j]
    OBVIOUS
  <1> QED BY <1>1, <1>2, <1>3

(* What a subscriber has read from the channel that Subscribe gave it is of  *)
(* its kinds, has no event twice, and none after one published later.        *)
THEOREM ReadsInOrder ==
  BusesSpec => [](\A s \in Subs : \A i \in DOMAIN got[s] :
                    /\ got[s][i] \in Published \cap Wants[s]
                    /\ \A j \in 1 .. i - 1 : /\ got[s][j] # got[s][i]
                                             /\ <<got[s][i], got[s][j]>> \notin Before)
  <1> DEFINE Reads == \A s \in Subs : \A i \in DOMAIN got[s] :
               /\ got[s][i] \in Published \cap Wants[s]
               /\ \A j \in 1 .. i - 1 : /\ got[s][j] # got[s][i]
                                        /\ <<got[s][i], got[s][j]>> \notin Before
  <1>1. BusTypes /\ Good(Published, Before, Inbox) => Reads
    <2> SUFFICES ASSUME BusTypes, Good(Published, Before, Inbox),
                        NEW s \in Subs, NEW i \in DOMAIN got[s]
                 PROVE  /\ got[s][i] \in Published \cap Wants[s]
                        /\ \A j \in 1 .. i - 1 : /\ got[s][j] # got[s][i]
                                                 /\ <<got[s][i], got[s][j]>> \notin Before
      OBVIOUS
    <2>1. got[s] \in Seq(Events) /\ chan[s] \in Seq(Events)
      BY DEF BusTypes
    <2>2. Inbox[s] = got[s] \o chan[s]
      BY Zenon DEF Inbox
    <2>3. /\ i \in DOMAIN Inbox[s] /\ Inbox[s][i] = got[s][i]
          /\ \A j \in 1 .. i - 1 : Inbox[s][j] = got[s][j]
      <3>1. /\ i \in DOMAIN (got[s] \o chan[s]) /\ (got[s] \o chan[s])[i] = got[s][i]
            /\ \A j \in 1 .. i - 1 : (got[s] \o chan[s])[j] = got[s][j]
        BY <2>1, PrefixIs, Zenon
      <3> QED BY <2>2, <3>1, Zenon
    <2>4. /\ Inbox[s][i] \in Published \cap Wants[s]
          /\ \A j \in 1 .. i - 1 : /\ Inbox[s][j] # Inbox[s][i]
                                   /\ <<Inbox[s][i], Inbox[s][j]>> \notin Before
      BY <2>3, Zenon DEF Good, GoodBox
    <2> QED BY <2>3, <2>4
  <1> HIDE DEF Reads
  <1>2. BusesSpec => []Reads
    BY <1>1, GoodInbox, PTL
  <1> QED BY <1>2 DEF Reads

(* The listener of pg_bus.go runs only if the process was given that bus. *)
SafeInv == IF backend = "postgres" THEN IInv ELSE started = 0 /\ left = {}

LEMMA NextSafeInv == SafeInv /\ [BusesNext]_allVars => SafeInv'
  <1> SUFFICES ASSUME SafeInv, [BusesNext]_allVars PROVE SafeInv'
    OBVIOUS
  <1> USE DEF vars, publishVars, subVars, startVars, connVars, deliverVars, otherVars
  <1>1. CASE Postgres(Next)
    BY <1>1, NextIInv DEF Postgres, SafeInv
  <1>2. ASSUME NEW s \in Subs, Read(s) PROVE SafeInv'
    BY <1>2, SubscriberIInv, Zenon DEF Read, Receive, SafeInv
  <1>3. ASSUME NEW e \in Events, MemOffer(e) PROVE SafeInv'
    <2>1. UNCHANGED <<backend, sub, started, listening, wire, cur, left>>
      BY <1>3 DEF MemOffer
    <2> QED BY <2>1 DEF SafeInv, IInv, WireInv, StartInv, LeftInv, Registered
  <1>4. ASSUME NEW s \in Subs, handler(s) PROVE SafeInv'
    <2>1. UNCHANGED <<backend, sub, started, listening, wire, cur, left>>
      BY <1>4 DEF handler, valkeyRest
    <2> QED BY <2>1 DEF SafeInv, IInv, WireInv, StartInv, LeftInv, Registered
  <1>5. ASSUME NEW e \in Events, MemPublish(e) \/ ValkeyPublish(e) PROVE SafeInv'
    BY <1>5 DEF MemPublish, ValkeyPublish, valkeyRest, SafeInv
  <1>6. ASSUME NEW s \in Subs, \/ MemSubscribe(s) \/ ValkeySubscribe(s) \/ ValkeyReceive(s)
                               \/ ValkeyCancel(s) \/ ValkeyEnd(s)
        PROVE  SafeInv'
    BY <1>6 DEF MemSubscribe, ValkeySubscribe, ValkeyReceive, ValkeyCancel, ValkeyEnd, valkeyRest,
                SafeInv
  <1>7. CASE UNCHANGED allVars
    <2>1. UNCHANGED <<vars, backend>>
      BY <1>7 DEF allVars
    <2> QED BY <2>1, NextIInv DEF SafeInv
  <1> QED BY <1>1, <1>2, <1>3, <1>4, <1>5, <1>6, <1>7 DEF BusesNext

(* However many subscribers of the event bus come and go while events are    *)
(* delivered, pg_bus.go runs one listener, and it sends on no closed channel. *)
THEOREM Safe == BusesSpec => []DeliveryIsSafe
  <1>1. BusesInit => SafeInv
    BY InitIInv DEF BusesInit, Init, SafeInv
  <1>2. SafeInv => DeliveryIsSafe
    BY IInvSafe DEF SafeInv, DeliveryIsSafe
  <1> QED BY <1>1, <1>2, NextSafeInv, PTL DEF BusesSpec

=============================================================================
