-------------------------- MODULE ReactionsProofs --------------------------
(***************************************************************************)
(* Proofs about Handlers and Reactions, for any clients, requests, kinds   *)
(* of resources, faults and crashes: what clients are shown, what updates  *)
(* preserve, and that the identity provider and the failure counts of      *)
(* webhooks keep up with them.                                             *)
(*                                                                         *)
(* First every handler is shown to have one of a few effects (Effect); the *)
(* invariants are then proved of the effects.                              *)
(***************************************************************************)
EXTENDS Reactions, TLAPS

Statuses(k) == IF k = "webhook" THEN Nat ELSE {"Pending", "Active", "Failed", None}

(* What a resource of kind k holds. *)
Docs(k) ==
  [spec : Specs \cup {None}, data : Specs \cup {Mask, None}, fins : BOOLEAN, mark : BOOLEAN,
   status : Statuses(k), gone : BOOLEAN]

(* Some of the fields of one. *)
IsPart(k, b) ==
  /\ DOMAIN b \subseteq Fields
  /\ "spec" \in DOMAIN b => b["spec"] \in Specs \cup {None}
  /\ "data" \in DOMAIN b => b["data"] \in Specs \cup {Mask, None}
  /\ \A f \in DOMAIN b : f \in {"fins", "mark", "gone"} => b[f] \in BOOLEAN
  /\ "status" \in DOMAIN b => b["status"] \in Statuses(k)

(* All but the reveal of a secret show a resource this way. *)
Usual == IF kind = "secret" THEN "redacted" ELSE "plain"

Updating(c) == pc[c] = "update"

----------------------------------------------------------------------------
(* The inductive invariant *)

RowTypes ==
  /\ kind \in Kinds
  /\ row \in [state : {"none", "live", "gone"}, ver : Nat, doc : Docs(kind) \cup {NoBody}]
  /\ row.state = "none" => row.ver = 0
  /\ row.state # "none" => row.ver # 0 /\ row.doc \in Docs(kind)

ClientTypes ==
  /\ pc \in [Clients -> {"idle", "update", "reread"}]
  /\ shown \in [Clients -> [ver : Nat \ {0}, doc : Docs(kind)] \cup {None}]
  /\ DOMAIN req = Clients /\ DOMAIN read = Clients
  /\ \A c \in Clients :
       /\ Updating(c) => row.state # "none" /\ read[c] \in [ver : Nat, doc : Docs(kind)]
       /\ pc[c] = "reread" => kind = "grpc"

GoTypes ==
  /\ fired \in Seq({"post_create", "post_delete"}) /\ (kind # "organization" => fired = <<>>)
  /\ requests \in Nat /\ requests <= MaxRequests /\ Len(fired) <= requests
  /\ go \in [1 .. MaxRequests -> {"start", "ok", "err", "ended"}]
  /\ \A i \in 1 .. MaxRequests : i > Len(fired) => go[i] = "start"
  /\ delivery \in [Events -> {"none", "start", "ok", "err", "ended"}] /\ DOMAIN count = Events
  /\ UnderWay # {} => kind = "webhook"
  /\ streak \in Nat /\ failed \in Nat

Types == RowTypes /\ ClientTypes /\ GoTypes

(* What c was shown is d, but for the mark and the status. *)
Sees(c, d) ==
  /\ shown[c].doc.spec = d.spec /\ shown[c].doc.fins = d.fins
  /\ shown[c].doc.data = IF kind = "secret" /\ c \notin plain THEN Mask ELSE d.data

(* Who was shown the version of the row was shown the row. *)
Fits(r) ==
  \A c \in Clients : shown[c] # None =>
    /\ shown[c].ver <= r.ver
    /\ shown[c].ver = r.ver => Sees(c, r.doc)

VersionInv == Fits(row)

(* What a handler has read and decoded is what the body names and, if the    *)
(* version is that of the row still, the row in all that it does not name.   *)
ReadInv ==
  \A c \in Clients : Updating(c) =>
    /\ req[c].ver # None => shown[c] # None /\ req[c].ver = shown[c].ver /\ read[c].ver = req[c].ver
    /\ \A f \in DOMAIN req[c].doc : read[c].doc[f] = req[c].doc[f]
    /\ read[c].ver <= row.ver
    /\ read[c].ver = row.ver =>
         \A f \in Fields \ DOMAIN req[c].doc :
           read[c].doc[f] = row.doc[f] \/ (f \in {"status", "mark"} /\ c \in stale)

HandlersInv == VersionInv /\ ReadInv /\ ShownVersionsAgree /\ SecretsAreMasked

(* The statuses that a later write of the row may have, and that no client   *)
(* has chosen.                                                               *)
Held ==
  {row.doc.status : x \in {row.state} \ {"none"}}
    \cup {shown[c].doc.status : c \in {b \in Clients : shown[b] # None}}
    \cup {read[c].doc.status : c \in {b \in Clients : Updating(b) /\ ~Chooses(b)}}

(* One reaction follows the creation, and one the deletion. *)
FiredInv ==
  /\ row.state = "none" => fired = <<>>
  /\ row.state = "live" => fired = <<"post_create">>
  /\ row.state = "gone" =>
       \/ fired = <<"post_create", "post_delete">> /\ go[2] \in {"start", "ended"}
       \/ fired = <<"post_create">> /\ "dropped" \in excuses

(* What the reactions have done so far. *)
ActiveInv == (Live /\ ("Active" \in Held \/ go[1] = "ok")) => idp \/ chosen

ProvisionedInv ==
  (Live /\ go[1] = "ended") =>
    \/ row.doc.status \in {"Active", "Failed"} \/ astray
    \/ excuses \cap {"crashed", "unwritten"} # {}

ForgottenInv ==
  (row.state = "gone" /\ go[2] = "ended") =>
    ~idp \/ excuses \cap {"crashed", "kept", "overtaken", "dropped"} # {}

OrganizationInv ==
  kind = "organization" => FiredInv /\ ActiveInv /\ ProvisionedInv /\ ForgottenInv

(* Whoever has a failure count has one that was reached. *)
CountInv ==
  /\ \A s \in Held : s <= failed \/ chosen
  /\ \A e \in UnderWay :
       /\ count[e] \in Nat
       /\ count[e] <= failed \/ chosen
       /\ delivery[e] = "err" => count[e] + 1 <= failed \/ chosen

(* A delivery that nothing has come across will write the right count: n is  *)
(* that of the row.                                                          *)
StreakInv(n) ==
  /\ Posted = {} => n = streak \/ astray
  /\ \A e \in UnderWay \ crossed : count[e] = n \/ astray
  /\ \A e \in Posted \ crossed :
       /\ delivery[e] = "ok" => streak = 0
       /\ Posted = {e} /\ delivery[e] = "err" => streak = count[e] + 1 \/ astray

WebhookInv ==
  kind = "webhook" =>
    /\ row.state = "none" => streak = 0 /\ UnderWay = {}
    /\ CountInv
    /\ Live => StreakInv(row.doc.status)

Inv == Types /\ HandlersInv /\ OrganizationInv /\ WebhookInv

----------------------------------------------------------------------------
(* The effects of handlers *)

(* c's request is answered. *)
Settles(c) ==
  /\ pc' = [pc EXCEPT ![c] = "idle"]
  /\ req' = [req EXCEPT ![c] = NoBody] /\ read' = [read EXCEPT ![c] = NoBody]

Shows(c, v, d) ==
  \/ shown' = [shown EXCEPT ![c] = [ver |-> v, doc |-> d]] /\ plain' = plain \ {c}
  \/ UNCHANGED <<shown, plain>>

Counted == requests < MaxRequests /\ requests' = requests + 1

Refused(c) ==
  /\ Settles(c) /\ code' # "200" /\ stale' = stale \ {c}
  /\ Counted \/ UNCHANGED requests
  /\ UNCHANGED <<row, shown, plain, fired>>

Looked(c) ==
  /\ Live /\ pc[c] # "update"
  /\ Settles(c) /\ stale' = stale \ {c}
  /\ Shows(c, row.ver, View(Usual, row.doc))
  /\ Counted \/ UNCHANGED requests
  /\ UNCHANGED <<row, fired>>

Revealed(c) ==
  /\ Live /\ kind = "secret" /\ pc[c] = "idle" /\ Counted
  /\ shown' = [shown EXCEPT ![c] = [ver |-> row.ver, doc |-> row.doc]]
  /\ plain' = plain \cup {c}
  /\ UNCHANGED <<row, pc, req, read, stale, fired>>

Created(c) ==
  /\ row.state = "none" /\ pc[c] = "idle" /\ Counted
  /\ \E new \in Docs(kind), v \in Nat \ {0} :
       /\ kind = "organization" => new.status = "Pending"
       /\ kind = "webhook" => new.status = 0
       /\ row' = [state |-> State(new), ver |-> v, doc |-> new]
       /\ Shows(c, v, View(Usual, new))
  /\ fired' = IF kind = "organization" THEN Append(fired, "post_create") ELSE fired
  /\ Settles(c) /\ stale' = stale \ {c}

Fetched(c) ==
  /\ Live /\ pc[c] = "idle" /\ Counted
  /\ \E b \in Bodies(c) :
       req' = [req EXCEPT ![c] = b] /\ read' = [read EXCEPT ![c] = Decode(b, row)]
  /\ pc' = [pc EXCEPT ![c] = "update"]
  /\ UNCHANGED <<row, shown, plain, stale, fired>>

Written(c, new) ==
  /\ Live /\ row.ver = new.ver
  /\ row' = [state |-> State(new.doc), ver |-> new.ver + 1, doc |-> new.doc]
  /\ Shows(c, new.ver + 1, View(Usual, new.doc))
  /\ Settles(c) /\ stale' = stale \ {c}
  /\ Counted \/ UNCHANGED requests
  /\ UNCHANGED fired

(* The whole of an update, and one that replaces the resource. *)
Updated(c) == Updating(c) /\ Written(c, read[c])

Replaced(c) ==
  /\ kind \in {"crud", "grpc"} /\ pc[c] = "idle"
  /\ \E b \in Bodies(c) : Written(c, Alone(b))

Patched(c) ==
  /\ kind = "grpc" /\ pc[c] = "idle" /\ Live /\ shown[c] # None /\ row.ver = shown[c].ver /\ Counted
  /\ \E d \in Parts : LET new == Over(d, row.doc) IN
       row' = [state |-> State(new), ver |-> shown[c].ver + 1, doc |-> new]
  /\ pc' = [pc EXCEPT ![c] = "reread"]
  /\ UNCHANGED <<req, read, shown, plain, stale, fired>>

Marked(c) ==
  /\ Live /\ pc[c] = "idle" /\ Counted
  /\ row' = [row EXCEPT !.doc.mark = TRUE]
  /\ stale' = {b \in Clients : b # c /\ Updating(b)}
  /\ Settles(c)
  /\ UNCHANGED <<shown, plain, fired>>

Removed(c) ==
  /\ Live /\ pc[c] = "idle" /\ Counted
  /\ row' = [row EXCEPT !.state = "gone"]
  /\ fired' = IF kind = "organization" THEN Append(fired, "post_delete") ELSE fired
  /\ Settles(c) /\ stale' = stale \ {c}
  /\ UNCHANGED <<shown, plain>>

Effect(c) ==
  \/ Refused(c) \/ Looked(c) \/ Revealed(c) \/ Created(c) \/ Fetched(c) \/ Updated(c) \/ Replaced(c)
  \/ Patched(c) \/ Marked(c) \/ Removed(c)

----------------------------------------------------------------------------
(* Resources and bodies *)

LEMMA DocFields == ASSUME NEW k, NEW d \in Docs(k) PROVE DOMAIN d = Fields
  BY DEF Docs, Fields

LEMMA DocIsPart == ASSUME NEW k, NEW d \in Docs(k) PROVE IsPart(k, d)
  BY DEF Docs, Fields, IsPart

LEMMA DocGone == ASSUME NEW k, NEW d \in Docs(k) PROVE State(d) \in {"live", "gone"} /\ (State(d) = "gone" => d.gone)
  BY DEF Docs, State

LEMMA ViewFacts ==
  ASSUME NEW k, NEW d \in Docs(k), NEW v
  PROVE  /\ View(v, d) \in Docs(k)
         /\ View(v, d).spec = d.spec /\ View(v, d).fins = d.fins /\ View(v, d).status = d.status
         /\ View(v, d).data = IF v = "redacted" THEN Mask ELSE d.data
  BY DEF View, Redacted, Docs

LEMMA DocOf ==
  ASSUME NEW k, NEW o, o = [f \in Fields |-> o[f]],
         o["spec"] \in Specs \cup {None}, o["data"] \in Specs \cup {Mask, None},
         o["fins"] \in BOOLEAN, o["mark"] \in BOOLEAN, o["gone"] \in BOOLEAN,
         o["status"] \in Statuses(k)
  PROVE  o \in Docs(k)
  BY Zenon DEF Docs, Fields

(* What is decoded over a resource is one. *)
LEMMA OverFacts ==
  ASSUME NEW k, NEW b, IsPart(k, b), NEW d \in Docs(k)
  PROVE  /\ Over(b, d) \in Docs(k)
         /\ \A f \in DOMAIN b : Over(b, d)[f] = b[f]
         /\ \A f \in Fields \ DOMAIN b : Over(b, d)[f] = d[f]
  <1>1. DOMAIN d = Fields /\ DOMAIN b \subseteq Fields
    BY DocFields DEF IsPart
  <1>2. DOMAIN b \cup DOMAIN d = Fields
    BY <1>1
  <1> DEFINE o == Over(b, d)
  <1>3. o = [f \in Fields |-> IF f \in DOMAIN b THEN b[f] ELSE d[f]]
    BY <1>2, Zenon DEF Over
  <1> HIDE DEF o
  <1>4. \A f \in Fields : o[f] = IF f \in DOMAIN b THEN b[f] ELSE d[f]
    BY <1>3
  <1>5. o = [f \in Fields |-> o[f]]
    BY <1>3
  <1>6. o \in Docs(k)
    <2>1. /\ d["spec"] \in Specs \cup {None} /\ d["data"] \in Specs \cup {Mask, None}
          /\ d["fins"] \in BOOLEAN /\ d["mark"] \in BOOLEAN /\ d["gone"] \in BOOLEAN
          /\ d["status"] \in Statuses(k)
      BY DEF Docs
    <2>2. o["spec"] \in Specs \cup {None}
      BY <1>4, <2>1 DEF IsPart, Fields
    <2>3. o["data"] \in Specs \cup {Mask, None}
      BY <1>4, <2>1 DEF IsPart, Fields
    <2>4. o["fins"] \in BOOLEAN /\ o["mark"] \in BOOLEAN /\ o["gone"] \in BOOLEAN
      BY <1>4, <2>1, Zenon DEF IsPart, Fields
    <2>5. o["status"] \in Statuses(k)
      BY <1>4, <2>1 DEF IsPart, Fields
    <2> QED BY <1>5, <2>2, <2>3, <2>4, <2>5, DocOf
  <1> QED BY <1>1, <1>4, <1>6 DEF o

LEMMA PartFacts == ASSUME kind \in Kinds, NEW d \in Parts PROVE IsPart(kind, d)
  <1>1. PICK F \in Named[kind] :
          d \in {e \in [F -> UNION {Values(f) : f \in F}] : \A f \in F : e[f] \in Values(f)}
    BY DEF Parts
  <1>2. DOMAIN d = F /\ \A f \in F : d[f] \in Values(f)
    BY <1>1
  <1>3. F \subseteq Fields
    BY HandlersAssumption
  <1>4. /\ Values("spec") = Specs /\ Values("data") = Specs
        /\ \A f \in {"fins", "mark", "gone"} : Values(f) = BOOLEAN
        /\ Values("status") \subseteq Statuses(kind)
    BY HandlersAssumption DEF Values, Statuses
  <1> QED BY <1>2, <1>3, <1>4, Zenon DEF IsPart

(* What a POST creates; s is the status that its handler sets, if any. *)
LEMMA NewFacts ==
  ASSUME kind \in Kinds, NEW b \in NewBodies, NEW s \in Statuses(kind) \cup {None},
         kind = "webhook" => s # None
  PROVE  LET new == Over(IF s = None THEN NoBody ELSE [status |-> s], Alone(b).doc) IN
         /\ new \in Docs(kind) /\ (s # None => new.status = s)
         /\ BeforeCreate(Alone(b).ver) \in Nat \ {0}
  <1> DEFINE top == IF s = None THEN NoBody ELSE [status |-> s]
             new == Over(top, Alone(b).doc)
             zero == [spec |-> None, data |-> None, fins |-> FALSE, mark |-> FALSE,
                      status |-> None, gone |-> FALSE]
  <1>1. PICK n \in Firsts, d \in Parts, v \in Specs :
          b = [ver |-> n, doc |-> Over(d, [spec |-> v, data |-> v])]
    BY DEF NewBodies
  <1>2. BeforeCreate(Alone(b).ver) \in Nat \ {0}
    BY <1>1, HandlersAssumption DEF BeforeCreate, Alone
  <1>3. IsPart(kind, b.doc)
    <2>1. IsPart(kind, d)
      BY PartFacts
    <2>2. /\ DOMAIN b.doc = DOMAIN d \cup {"spec", "data"}
          /\ \A f \in DOMAIN b.doc : b.doc[f] = IF f \in DOMAIN d THEN d[f] ELSE v
      BY <1>1 DEF Over
    <2> QED BY <2>1, <2>2 DEF IsPart, Fields
  <1>4. DOMAIN top = IF s = None THEN {} ELSE {"status"}
    BY DEF NoBody
  <1>5. s # None => top["status"] = s
    OBVIOUS
  <1> HIDE DEF top
  <1>6. Alone(b).doc = [f \in Fields |-> IF f \in DOMAIN b.doc THEN b.doc[f] ELSE zero[f]]
    <2>1. DOMAIN b.doc \cup DOMAIN zero = Fields
      BY <1>3 DEF IsPart, Fields
    <2> QED BY <2>1 DEF Alone, Over
  <1>7. DOMAIN top \cup DOMAIN Alone(b).doc = Fields
    BY <1>4, <1>6 DEF Fields
  <1>8. new = [f \in Fields |-> IF f \in DOMAIN top THEN top[f] ELSE Alone(b).doc[f]]
    BY <1>7, Zenon DEF Over
  <1> HIDE DEF new
  <1>9. \A f \in Fields : new[f] = IF f \in DOMAIN top THEN top[f]
                                   ELSE IF f \in DOMAIN b.doc THEN b.doc[f] ELSE zero[f]
    BY <1>6, <1>8
  <1>10. new = [f \in Fields |-> new[f]]
    BY <1>8
  <1>11. s # None => new["status"] = s
    BY <1>4, <1>5, <1>9 DEF Fields
  <1>12. new["status"] \in Statuses(kind)
    <2>1. CASE s # None
      BY <1>11, <2>1
    <2>2. CASE s = None
      BY <1>3, <1>4, <1>9, <2>2 DEF IsPart, Fields, Statuses
    <2> QED BY <2>1, <2>2
  <1>13. new["spec"] \in Specs \cup {None}
    BY <1>3, <1>4, <1>9 DEF IsPart, Fields
  <1>14. new["data"] \in Specs \cup {Mask, None}
    BY <1>3, <1>4, <1>9 DEF IsPart, Fields
  <1>15. new["fins"] \in BOOLEAN /\ new["mark"] \in BOOLEAN /\ new["gone"] \in BOOLEAN
    <2>1. ASSUME NEW f \in {"fins", "mark", "gone"} PROVE new[f] \in BOOLEAN
      <3>0. zero[f] \in BOOLEAN
        <4>1. CASE f = "fins" BY <4>1
        <4>2. CASE f = "mark" BY <4>2
        <4>3. CASE f = "gone" BY <4>3
        <4> QED BY <4>1, <4>2, <4>3
      <3>1. f \notin DOMAIN top /\ f \in Fields
        BY <1>4 DEF Fields
      <3>2. new[f] = IF f \in DOMAIN b.doc THEN b.doc[f] ELSE zero[f]
        BY <1>9, <3>1
      <3>3. f \in DOMAIN b.doc => b.doc[f] \in BOOLEAN
        BY <1>3, Zenon DEF IsPart
      <3> HIDE DEF zero
      <3> QED BY <3>0, <3>1, <3>2, <3>3, Zenon
    <2> QED BY <2>1
  <1>16. new \in Docs(kind)
    BY <1>10, <1>12, <1>13, <1>14, <1>15, DocOf
  <1> QED BY <1>2, <1>11, <1>16 DEF new, top

LEMMA RefuseEffect ==
  ASSUME NEW c, NEW status, status # "200", Refuse(c, status) \/ StoreFails(c, status),
         Counted \/ UNCHANGED requests
  PROVE  Refused(c)
  BY DEF Refuse, StoreFails, Answer, Reply, Refused, Settles

LEMMA ShowEffect ==
  ASSUME NEW c, NEW k, NEW failure, failure # "200", NEW v,
         v = IF k = "secret" THEN "redacted" ELSE "plain", Show(c, k, v, failure)
  PROVE  Effect(c)
  <1>1. kind = k /\ pc[c] = "idle" /\ Counted /\ v = Usual
    BY DEF Show, Request, Counted, Usual
  <1>2. CASE Live /\ Answer(c, "200", row.ver, View(v, row.doc)) /\ UNCHANGED <<row, fired, faults>>
    BY <1>1, <1>2 DEF Answer, Reply, Effect, Looked, Shows, Settles
  <1>3. CASE Refuse(c, "404") \/ StoreFails(c, failure)
    BY <1>1, <1>3, RefuseEffect DEF Effect
  <1> QED BY <1>2, <1>3 DEF Show

LEMMA InsertEffect ==
  ASSUME kind \in Kinds, NEW c, NEW k, NEW failure, failure # "200", NEW v,
         v = IF k = "secret" THEN "redacted" ELSE "plain",
         NEW s \in Statuses(k) \cup {None}, k = "organization" => s = "Pending", k = "webhook" => s = 0,
         NEW event, IF k = "organization" THEN event = "post_create" ELSE event = None,
         Insert(c, k, s, v, failure, event)
  PROVE  Effect(c)
  <1>1. kind = k /\ pc[c] = "idle" /\ Counted /\ v = Usual
    BY DEF Insert, Request, Counted, Usual
  <1>2. CASE \E b \in NewBodies :
               LET ver == BeforeCreate(Alone(b).ver)
                   new == Over(IF s = None THEN NoBody ELSE [status |-> s], Alone(b).doc)
               IN  /\ row.state = "none"
                   /\ row' = [state |-> State(new), ver |-> ver, doc |-> new]
                   /\ FireAsync(event)
                   /\ Answer(c, "201", ver, View(v, new))
    <2> PICK b \in NewBodies :
               LET ver == BeforeCreate(Alone(b).ver)
                   new == Over(IF s = None THEN NoBody ELSE [status |-> s], Alone(b).doc)
               IN  /\ row.state = "none"
                   /\ row' = [state |-> State(new), ver |-> ver, doc |-> new]
                   /\ FireAsync(event)
                   /\ Answer(c, "201", ver, View(v, new))
      BY <1>2
    <2> DEFINE ver == BeforeCreate(Alone(b).ver)
               new == Over(IF s = None THEN NoBody ELSE [status |-> s], Alone(b).doc)
    <2>1. new \in Docs(kind) /\ (s # None => new.status = s) /\ ver \in Nat \ {0}
      BY <1>1, NewFacts, HandlersAssumption
    <2> HIDE DEF ver, new
    <2>2. /\ row.state = "none" /\ row' = [state |-> State(new), ver |-> ver, doc |-> new]
          /\ FireAsync(event) /\ Answer(c, "201", ver, View(v, new))
      BY DEF ver, new
    <2>3. Settles(c) /\ stale' = stale \ {c} /\ Shows(c, ver, View(Usual, new))
      BY <1>1, <2>2, Zenon DEF Answer, Reply, Shows, Settles
    <2>4. fired' = IF kind = "organization" THEN Append(fired, "post_create") ELSE fired
      BY <1>1, <2>2, HandlersAssumption DEF FireAsync
    <2>5. /\ kind = "organization" => new.status = "Pending"
          /\ kind = "webhook" => new.status = 0
      BY <1>1, <2>1, HandlersAssumption
    <2> QED BY <1>1, <2>1, <2>2, <2>3, <2>4, <2>5, Zenon DEF Effect, Created
  <1>3. CASE Refuse(c, "409") \/ Refuse(c, "400") \/ StoreFails(c, failure)
    BY <1>1, <1>3, RefuseEffect DEF Effect
  <1> QED BY <1>2, <1>3, Zenon DEF Insert

LEMMA WriteEffect ==
  ASSUME NEW c, NEW new, NEW gone, gone # "200", NEW v, v = Usual, Write(c, new, gone, v),
         Counted \/ UNCHANGED requests
  PROVE  Refused(c) \/ Written(c, new)
  <1>1. CASE /\ Live /\ SameVersion(new.ver)
             /\ row' = [state |-> State(new.doc), ver |-> NextVersion(new.ver), doc |-> new.doc]
             /\ Answer(c, "200", NextVersion(new.ver), View(v, new.doc))
             /\ UNCHANGED <<fired, faults>>
    BY <1>1 DEF SameVersion, NextVersion, Answer, Reply, Written, Shows, Settles
  <1>2. CASE Refuse(c, "409") \/ Refuse(c, gone) \/ StoreFails(c, "500")
    BY <1>2, RefuseEffect
  <1> QED BY <1>1, <1>2 DEF Write

LEMMA UpdateEffect ==
  ASSUME NEW c, NEW k, NEW failure, failure # "200", NEW v,
         v = IF k = "secret" THEN "redacted" ELSE "plain", Update(c, k, failure, v)
  PROVE  Effect(c)
  <1>1. CASE ReadForUpdate(c, k, failure)
    <2>1. pc[c] = "idle" /\ Counted
      BY <1>1 DEF ReadForUpdate, Request, Counted
    <2>2. CASE \E b \in Bodies(c) :
                 /\ Live
                 /\ pc' = [pc EXCEPT ![c] = "update"]
                 /\ req' = [req EXCEPT ![c] = b] /\ read' = [read EXCEPT ![c] = Decode(b, row)]
                 /\ UNCHANGED <<row, code, shown, plain, stale, fired, faults>>
      BY <2>1, <2>2, Zenon DEF Effect, Fetched
    <2>3. CASE Refuse(c, "404") \/ Refuse(c, "400") \/ StoreFails(c, failure)
      BY <2>1, <2>3, RefuseEffect DEF Effect
    <2> QED BY <1>1, <2>2, <2>3 DEF ReadForUpdate
  <1>2. CASE kind = k /\ pc[c] = "update" /\ Write(c, read[c], "500", v) /\ UNCHANGED requests
    <2>1. v = Usual
      BY <1>2 DEF Usual
    <2>2. Refused(c) \/ Written(c, read[c])
      BY <1>2, <2>1, WriteEffect
    <2> QED BY <1>2, <2>2 DEF Effect, Updated, Updating
  <1> QED BY <1>1, <1>2 DEF Update

LEMMA RemoveEffect ==
  ASSUME NEW c, NEW k, NEW pending, NEW missing, NEW failure,
         missing # "200", failure # "200", NEW event,
         IF k = "organization" THEN event = "post_delete" ELSE event = None,
         Remove(c, k, pending, missing, failure, event)
  PROVE  Effect(c)
  <1>1. kind = k /\ pc[c] = "idle" /\ Counted
    BY DEF Remove, Request, Counted
  <1>2. CASE Live /\ MarkWritten(c) /\ Reply(c, pending, None, None) /\ UNCHANGED <<fired, faults>>
    BY <1>1, <1>2 DEF MarkWritten, Reply, Effect, Marked, Updating, Settles
  <1>3. CASE /\ Live /\ row' = [row EXCEPT !.state = "gone"] /\ FireAsync(event)
             /\ Answer(c, "204", None, None)
    <2>1. fired' = IF kind = "organization" THEN Append(fired, "post_delete") ELSE fired
      BY <1>1, <1>3, HandlersAssumption DEF FireAsync
    <2> QED BY <1>1, <1>3, <2>1 DEF Answer, Reply, Effect, Removed, Settles
  <1>4. CASE Refuse(c, missing) \/ StoreFails(c, failure)
    BY <1>1, <1>4, RefuseEffect DEF Effect
  <1> QED BY <1>2, <1>3, <1>4 DEF Remove

LEMMA PartialEffect ==
  ASSUME NEW c, grpcPartialUpdate(c), kind = "grpc"
  PROVE  Effect(c)
  <1>1. CASE Request(c, "grpc") /\ shown[c] # None /\ \E d \in Parts : LET new == Over(d, row.doc) IN
               /\ Live /\ SameVersion(shown[c].ver)
               /\ row' = [state |-> State(new), ver |-> NextVersion(shown[c].ver), doc |-> new]
               /\ pc' = [pc EXCEPT ![c] = "reread"]
               /\ UNCHANGED <<req, read, code, shown, plain, stale, fired, faults>>
    BY <1>1, Zenon DEF Request, Counted, SameVersion, NextVersion, Effect, Patched
  <1>2. CASE /\ Request(c, "grpc")
             /\ Refuse(c, "409") \/ Refuse(c, "404") \/ StoreFails(c, "500")
    BY <1>2, RefuseEffect DEF Request, Counted, Effect
  <1>3. CASE /\ pc[c] = "reread" /\ Live /\ Answer(c, "200", row.ver, row.doc)
             /\ UNCHANGED <<row, fired, requests>>
    BY <1>3 DEF Answer, Reply, Effect, Looked, Shows, Settles, View, Usual
  <1>4. CASE /\ Answer(c, "404", None, None) \/ Answer(c, "500", None, None)
             /\ UNCHANGED <<row, fired, requests>>
    BY <1>4 DEF Answer, Reply, Effect, Refused, Settles
  <1> QED BY <1>1, <1>2, <1>3, <1>4, Zenon DEF grpcPartialUpdate

LEMMA RevealEffect ==
  ASSUME NEW c, revealSecret(c)
  PROVE  Effect(c)
  <1>1. kind = "secret" /\ pc[c] = "idle" /\ Counted
    BY DEF revealSecret, Request, Counted
  <1>2. CASE Refuse(c, "404") \/ StoreFails(c, "500")
    BY <1>1, <1>2, RefuseEffect DEF Effect
  <1> QED BY <1>1, <1>2 DEF revealSecret, Effect, Revealed

LEMMA ReplaceEffect ==
  ASSUME NEW c, crudUpdate(c) \/ grpcUpdate(c)
  PROVE  Effect(c)
  <1>1. kind \in {"crud", "grpc"} /\ pc[c] = "idle" /\ Counted /\ "plain" = Usual
    BY DEF crudUpdate, grpcUpdate, Request, Counted, Usual
  <1>2. CASE Refuse(c, "400")
    BY <1>1, <1>2, RefuseEffect DEF Effect
  <1>3. CASE \E b \in Bodies(c) : Write(c, Alone(b), "404", "plain")
    <2>1. PICK b \in Bodies(c) : Write(c, Alone(b), "404", "plain")
      BY <1>3
    <2>2. Refused(c) \/ Written(c, Alone(b))
      BY <1>1, <2>1, WriteEffect
    <2> QED BY <1>1, <2>2 DEF Effect, Replaced
  <1> QED BY <1>2, <1>3 DEF crudUpdate, grpcUpdate

(* Every handler has one of the effects. *)
LEMMA HandleEffect ==
  ASSUME NEW c, Handle(c), kind \in Kinds, pc[c] = "reread" => kind = "grpc"
  PROVE  Effect(c)
  <1> USE DEF Statuses
  <1>1. CASE SecretRoutes(c)
    BY <1>1, ShowEffect, InsertEffect, UpdateEffect, RemoveEffect, RevealEffect, Zenon
       DEF SecretRoutes, listSecrets, getSecret, createSecret, updateSecret, deleteSecret
  <1>2. CASE PolicyRoutes(c)
    BY <1>2, ShowEffect, InsertEffect, UpdateEffect, RemoveEffect, Zenon
       DEF PolicyRoutes, listPolicies, getPolicy, createPolicy, updatePolicy, deletePolicy
  <1>3. CASE CatalogRoutes(c)
    <2>1. CASE Request(c, "catalog") /\ Refuse(c, "500")
      BY <2>1, RefuseEffect DEF Request, Counted, Effect
    <2> QED BY <1>3, <2>1, ShowEffect, InsertEffect, UpdateEffect, RemoveEffect, Zenon
            DEF CatalogRoutes, listCatalogItems, getCatalogItem, createCatalogItem,
                updateCatalogItem, deleteCatalogItem
  <1>4. CASE TenantRoutes(c)
    BY <1>4, ShowEffect, InsertEffect, UpdateEffect, RemoveEffect, Zenon
       DEF TenantRoutes, listTenants, getTenant, createTenant, updateTenant, deleteTenant
  <1>5. CASE OrganizationRoutes(c)
    BY <1>5, ShowEffect, InsertEffect, UpdateEffect, RemoveEffect, Zenon
       DEF OrganizationRoutes, listOrganizations, getOrganization, createOrganization,
           updateOrganization, deleteOrganization
  <1>6. CASE WebhookRoutes(c)
    BY <1>6, ShowEffect, InsertEffect, UpdateEffect, RemoveEffect, Zenon
       DEF WebhookRoutes, listWebhooks, getWebhook, createWebhook, updateWebhook, deleteWebhook
  <1>7. CASE InventoryRoutes(c)
    BY <1>7, ShowEffect, InsertEffect, UpdateEffect, RemoveEffect, Zenon
       DEF InventoryRoutes, listMachines, getMachine, createMachine, updateMachine, deleteMachine
  <1>8. CASE CRUDRoutes(c)
    BY <1>8, ShowEffect, InsertEffect, ReplaceEffect, RemoveEffect, Zenon
       DEF CRUDRoutes, crudList, crudGet, crudCreate, crudDelete
  <1>9. CASE GenericService(c)
    <2>1. CASE grpcPartialUpdate(c)
      <3>1. kind = "grpc"
        BY <2>1, Zenon DEF grpcPartialUpdate, Request
      <3> QED BY <2>1, <3>1, PartialEffect
    <2> QED BY <1>9, <2>1, ShowEffect, InsertEffect, ReplaceEffect, RemoveEffect, Zenon
            DEF GenericService, grpcList, grpcGet, grpcCreate, grpcDelete
  <1> QED BY <1>1, <1>2, <1>3, <1>4, <1>5, <1>6, <1>7, <1>8, <1>9 DEF Handle

----------------------------------------------------------------------------
(* The bodies of updates *)

LEMMA BodyFacts ==
  ASSUME kind \in Kinds, ClientTypes, NEW c \in Clients, NEW b \in Bodies(c)
  PROVE  /\ IsPart(kind, b.doc)
         /\ b.ver # None => shown[c] # None /\ b.ver = shown[c].ver
  <1>1. CASE b \in [ver : Versions(c), doc : Parts]
    <2>1. b.doc \in Parts /\ b.ver \in Versions(c)
      BY <1>1
    <2>2. b.ver # None => shown[c] # None /\ b.ver = shown[c].ver
      BY <2>1 DEF Versions
    <2> QED BY <2>1, <2>2, PartFacts
  <1>2. CASE b \in Edits(c)
    <2>1. shown[c] # None
      BY <1>2 DEF Edits
    <2>2. PICK v \in Specs :
            b = [ver |-> shown[c].ver, doc |-> Over([spec |-> v], Encode(shown[c].doc))]
      BY <1>2, <2>1 DEF Edits
    <2> DEFINE d == shown[c].doc
    <2>3. IsPart(kind, d) /\ DOMAIN d = Fields
      BY <2>1, DocIsPart, DocFields DEF ClientTypes
    <2> HIDE DEF d
    <2>4. DOMAIN Encode(d) \subseteq Fields /\ \A f \in DOMAIN Encode(d) : Encode(d)[f] = d[f]
      BY <2>3 DEF Encode
    <2>5. /\ DOMAIN b.doc \subseteq Fields
          /\ \A f \in DOMAIN b.doc : b.doc[f] = IF f = "spec" THEN v ELSE d[f]
      BY <2>2, <2>4 DEF Over, d, Fields
    <2>6. IsPart(kind, b.doc)
      BY <2>3, <2>5 DEF IsPart
    <2> QED BY <2>1, <2>2, <2>6
  <1> QED BY <1>1, <1>2, Zenon DEF Bodies

LEMMA DecodeFacts ==
  ASSUME Types, Live, NEW c \in Clients, NEW b \in Bodies(c)
  PROVE  LET r == Decode(b, row) IN
         /\ r \in [ver : Nat, doc : Docs(kind)]
         /\ b.ver = None => r.ver = row.ver
         /\ b.ver # None => shown[c] # None /\ b.ver = shown[c].ver /\ r.ver = b.ver
         /\ \A f \in DOMAIN b.doc : r.doc[f] = b.doc[f]
         /\ \A f \in Fields \ DOMAIN b.doc : r.doc[f] = row.doc[f]
  <1>1. ClientTypes /\ kind \in Kinds /\ row.doc \in Docs(kind) /\ row.ver \in Nat
    BY DEF Types, RowTypes, Live
  <1>2. /\ Decode(b, row).doc = Over(b.doc, row.doc)
        /\ Decode(b, row).ver = IF b.ver = None THEN row.ver ELSE b.ver
    BY DEF Decode
  <1>3. IsPart(kind, b.doc) /\ (b.ver # None => shown[c] # None /\ b.ver = shown[c].ver)
    BY <1>1, BodyFacts, Zenon
  <1>4. Decode(b, row).ver \in Nat
    BY <1>1, <1>2, <1>3 DEF ClientTypes
  <1>5. Decode(b, row) \in [ver : Nat, doc : Docs(kind)]
    BY <1>1, <1>2, <1>3, <1>4, OverFacts DEF Decode
  <1> QED BY <1>1, <1>2, <1>3, <1>5, OverFacts

LEMMA AloneFacts ==
  ASSUME kind \in Kinds, ClientTypes, kind \in {"crud", "grpc"}, NEW c \in Clients, NEW b \in Bodies(c)
  PROVE  Alone(b) \in [ver : Nat, doc : Docs(kind)]
  <1> DEFINE d == [spec |-> None, data |-> None, fins |-> FALSE, mark |-> FALSE, status |-> None,
                   gone |-> FALSE]
  <1>1. d \in Docs(kind)
    BY DEF Docs, Statuses
  <1>2. IsPart(kind, b.doc) /\ (b.ver # None => shown[c] # None /\ b.ver = shown[c].ver)
    BY BodyFacts, Zenon
  <1>3. Over(b.doc, d) \in Docs(kind)
    BY <1>1, <1>2, OverFacts
  <1>4. b.ver # None => b.ver \in Nat
    BY <1>2 DEF ClientTypes
  <1> QED BY <1>3, <1>4 DEF Alone

----------------------------------------------------------------------------
(* What clients are shown *)

LEMMA ShownKept ==
  ASSUME ClientTypes, ShownVersionsAgree, SecretsAreMasked, Fits(row'), UNCHANGED <<kind, shown, plain>>
  PROVE  VersionInv' /\ ShownVersionsAgree' /\ SecretsAreMasked'
  <1>1. VersionInv'
    BY DEF VersionInv, Fits, Sees
  <1>2. ShownVersionsAgree'
    BY DEF ShownVersionsAgree
  <1>3. SecretsAreMasked'
    BY DEF SecretsAreMasked
  <1> QED BY <1>1, <1>2, <1>3

(* c is shown the row, masked unless it is in plain. *)
LEMMA ShownNow ==
  ASSUME ClientTypes, ShownVersionsAgree, SecretsAreMasked, Fits(row'), UNCHANGED kind,
         row'.ver \in Nat \ {0}, row'.doc \in Docs(kind), NEW c \in Clients, NEW d \in Docs(kind),
         shown' = [shown EXCEPT ![c] = [ver |-> row'.ver, doc |-> d]],
         \A b \in Clients : b # c => (b \in plain' <=> b \in plain),
         d.spec = row'.doc.spec, d.fins = row'.doc.fins,
         d.data = IF kind = "secret" /\ c \notin plain' THEN Mask ELSE row'.doc.data
  PROVE  /\ VersionInv' /\ ShownVersionsAgree' /\ SecretsAreMasked'
         /\ shown' \in [Clients -> [ver : Nat \ {0}, doc : Docs(kind)] \cup {None}]
  <1>1. /\ shown'[c] = [ver |-> row'.ver, doc |-> d]
        /\ \A b \in Clients : b # c => shown'[b] = shown[b]
        /\ shown' \in [Clients -> [ver : Nat \ {0}, doc : Docs(kind)] \cup {None}]
    BY DEF ClientTypes
  <1>2. shown'[c].ver = row'.ver /\ shown'[c].doc = d
    BY <1>1
  <1>3. Sees(c, row.doc)'
    BY <1>2 DEF Sees
  <1>4. \A b \in Clients : b # c =>
          /\ shown'[b] # None => shown'[b].ver <= row'.ver
          /\ shown'[b] # None /\ shown'[b].ver = row'.ver => Sees(b, row.doc)'
    BY <1>1 DEF Fits, Sees
  <1>5. VersionInv'
    BY <1>2, <1>3, <1>4 DEF VersionInv, Fits
  <1>6. ShownVersionsAgree'
    <2> SUFFICES ASSUME NEW a \in Clients, NEW b \in Clients,
                        shown'[a] # None, shown'[b] # None, shown'[a].ver = shown'[b].ver,
                        a \in plain' <=> b \in plain'
                 PROVE  \A f \in {"spec", "data", "fins"} : shown'[a].doc[f] = shown'[b].doc[f]
      BY DEF ShownVersionsAgree
    <2>1. CASE a = c \/ b = c
      <3>1. Sees(a, row.doc)' /\ Sees(b, row.doc)'
        BY <1>2, <1>3, <1>4, <2>1
      <3> QED BY <3>1 DEF Sees
    <2>2. CASE a # c /\ b # c
      BY <1>1, <2>2 DEF ShownVersionsAgree
    <2> QED BY <2>1, <2>2
  <1>7. SecretsAreMasked'
    <2> SUFFICES ASSUME kind = "secret", NEW b \in Clients, shown'[b] # None, b \notin plain'
                 PROVE  shown'[b].doc.data = Mask
      BY DEF SecretsAreMasked
    <2>1. CASE b = c
      BY <1>2, <2>1
    <2>2. CASE b # c
      BY <1>1, <2>2 DEF SecretsAreMasked
    <2> QED BY <2>1, <2>2
  <1> QED BY <1>1, <1>5, <1>6, <1>7

LEMMA ShowsKeeps ==
  ASSUME ClientTypes, ShownVersionsAgree, SecretsAreMasked, Fits(row'), UNCHANGED kind,
         row'.ver \in Nat \ {0}, row'.doc \in Docs(kind), NEW c \in Clients,
         Shows(c, row'.ver, View(Usual, row'.doc))
  PROVE  /\ VersionInv' /\ ShownVersionsAgree' /\ SecretsAreMasked'
         /\ shown' \in [Clients -> [ver : Nat \ {0}, doc : Docs(kind)] \cup {None}]
  <1> DEFINE d == View(Usual, row'.doc)
  <1>1. /\ d \in Docs(kind) /\ d.spec = row'.doc.spec /\ d.fins = row'.doc.fins
        /\ d.data = IF kind = "secret" THEN Mask ELSE row'.doc.data
    BY ViewFacts DEF Usual
  <1>2. CASE UNCHANGED <<shown, plain>>
    BY <1>2, ShownKept DEF ClientTypes
  <1> HIDE DEF d
  <1>3. CASE shown' = [shown EXCEPT ![c] = [ver |-> row'.ver, doc |-> d]] /\ plain' = plain \ {c}
    <2>1. c \notin plain' /\ \A b \in Clients : b # c => (b \in plain' <=> b \in plain)
      BY <1>3
    <2> QED BY <1>1, <1>3, <2>1, ShownNow, Zenon
  <1> QED BY <1>2, <1>3 DEF Shows, d

(* The row keeps its version, and all that a version stands for, or gets a   *)
(* new one.                                                                  *)
LEMMA FitsKept ==
  ASSUME RowTypes, ClientTypes, VersionInv,
         \/ /\ row'.ver = row.ver
            /\ \A f \in {"spec", "data", "fins"} : row'.doc[f] = row.doc[f]
         \/ row'.ver \in Nat /\ row'.ver > row.ver
  PROVE  Fits(row')
  <1> SUFFICES ASSUME NEW c \in Clients, shown[c] # None
               PROVE  /\ shown[c].ver <= row'.ver
                      /\ shown[c].ver = row'.ver => Sees(c, row'.doc)
    BY DEF Fits
  <1>1. /\ shown[c].ver <= row.ver /\ (shown[c].ver = row.ver => Sees(c, row.doc))
        /\ shown[c].ver \in Nat /\ row.ver \in Nat
    BY DEF VersionInv, Fits, ClientTypes, RowTypes
  <1>2. CASE /\ row'.ver = row.ver
             /\ \A f \in {"spec", "data", "fins"} : row'.doc[f] = row.doc[f]
    BY <1>1, <1>2 DEF Sees
  <1>3. CASE row'.ver \in Nat /\ row'.ver > row.ver
    BY <1>1, <1>3
  <1> QED BY <1>2, <1>3

----------------------------------------------------------------------------
(* What handlers have read *)

LEMMA ReadKept ==
  ASSUME RowTypes, ClientTypes, ReadInv,
         \A b \in Clients : Updating(b)' =>
           /\ Updating(b) /\ req'[b] = req[b] /\ read'[b] = read[b] /\ shown'[b] = shown[b]
           /\ b \in stale => b \in stale',
         row'.ver \in Nat, row'.ver >= row.ver,
         row'.ver = row.ver =>
           \A f \in Fields : \/ row'.doc[f] = row.doc[f]
                             \/ /\ f \in {"status", "mark"}
                                /\ \A b \in Clients : Updating(b)' => b \in stale'
  PROVE  ReadInv'
  <1> SUFFICES ASSUME NEW c \in Clients, Updating(c)'
               PROVE  /\ req'[c].ver # None => shown'[c] # None /\ req'[c].ver = shown'[c].ver
                                              /\ read'[c].ver = req'[c].ver
                      /\ \A f \in DOMAIN req'[c].doc : read'[c].doc[f] = req'[c].doc[f]
                      /\ read'[c].ver <= row'.ver
                      /\ read'[c].ver = row'.ver =>
                           \A f \in Fields \ DOMAIN req'[c].doc :
                             \/ read'[c].doc[f] = row'.doc[f]
                             \/ f \in {"status", "mark"} /\ c \in stale'
    BY Zenon DEF ReadInv
  <1>1. /\ Updating(c) /\ (c \in stale => c \in stale')
        /\ req'[c] = req[c] /\ read'[c] = read[c] /\ shown'[c] = shown[c]
    BY Zenon
  <1>2. /\ req[c].ver # None =>
             shown[c] # None /\ req[c].ver = shown[c].ver /\ read[c].ver = req[c].ver
        /\ \A f \in DOMAIN req[c].doc : read[c].doc[f] = req[c].doc[f]
        /\ read[c].ver <= row.ver
        /\ read[c].ver = row.ver =>
             \A f \in Fields \ DOMAIN req[c].doc :
               read[c].doc[f] = row.doc[f] \/ (f \in {"status", "mark"} /\ c \in stale)
    BY <1>1, Zenon DEF ReadInv
  <1>3. read[c] \in [ver : Nat, doc : Docs(kind)]
    BY <1>1, Zenon DEF ClientTypes
  <1>4. row \in [state : {"none", "live", "gone"}, ver : Nat, doc : Docs(kind) \cup {NoBody}]
    BY Zenon DEF RowTypes
  <1>5. read[c].ver \in Nat /\ row.ver \in Nat
    BY <1>3, <1>4
  <1>6. read[c].ver <= row.ver
    BY <1>2, Zenon
  <1>7. read[c].ver <= row'.ver /\ (read[c].ver = row'.ver => row'.ver = row.ver)
    BY <1>5, <1>6, SMT
  <1>8. read[c].ver = row'.ver =>
          \A f \in Fields \ DOMAIN req[c].doc :
            read[c].doc[f] = row'.doc[f] \/ (f \in {"status", "mark"} /\ c \in stale')
    BY <1>1, <1>2, <1>7, Zenon
  <1> QED BY <1>1, <1>2, <1>7, <1>8, Zenon

----------------------------------------------------------------------------
(* Rows, clients and what they have seen, over a request *)

Core == RowTypes /\ ClientTypes /\ HandlersInv

LEMMA ShowsOthers ==
  ASSUME ClientTypes, NEW c \in Clients, NEW v, NEW d, Shows(c, v, d)
  PROVE  \A b \in Clients : b # c => shown'[b] = shown[b]
  BY DEF ClientTypes, Shows

(* c's handler has ended; the row and what c is shown are as they should be. *)
LEMMA SettlesKeeps ==
  ASSUME Core, UNCHANGED kind, NEW c \in Clients, Settles(c), RowTypes',
         row.state # "none" => row'.state # "none",
         row'.ver >= row.ver,
         row'.ver = row.ver =>
           \A f \in Fields : \/ row'.doc[f] = row.doc[f]
                             \/ /\ f \in {"status", "mark"}
                                /\ \A b \in Clients : b # c /\ Updating(b) => b \in stale',
         \A b \in Clients : b # c /\ Updating(b) /\ b \in stale => b \in stale',
         VersionInv', ShownVersionsAgree', SecretsAreMasked',
         shown' \in [Clients -> [ver : Nat \ {0}, doc : Docs(kind)] \cup {None}],
         \A b \in Clients : b # c => shown'[b] = shown[b]
  PROVE  Core'
  <1>1. /\ pc' \in [Clients -> {"idle", "update", "reread"}]
        /\ DOMAIN req' = Clients /\ DOMAIN read' = Clients /\ pc'[c] = "idle"
        /\ \A b \in Clients : b # c => pc'[b] = pc[b] /\ req'[b] = req[b] /\ read'[b] = read[b]
    BY DEF Core, ClientTypes, Settles
  <1>2. \A b \in Clients : Updating(b)' => b # c /\ Updating(b)
    BY <1>1 DEF Updating
  <1>3. ClientTypes'
    <2>1. \A b \in Clients : Updating(b)' => row'.state # "none" /\ read'[b] \in [ver : Nat, doc : Docs(kind)]
      BY <1>1, <1>2 DEF Core, ClientTypes
    <2>2. \A b \in Clients : pc'[b] = "reread" => kind = "grpc"
      BY <1>1 DEF Core, ClientTypes
    <2> QED BY <1>1, <2>1, <2>2 DEF ClientTypes
  <1>4. ReadInv'
    <2>1. \A b \in Clients : Updating(b)' =>
            /\ Updating(b) /\ req'[b] = req[b] /\ read'[b] = read[b] /\ shown'[b] = shown[b]
            /\ b \in stale => b \in stale'
      BY <1>1, <1>2
    <2>2. row'.ver = row.ver =>
            \A f \in Fields : \/ row'.doc[f] = row.doc[f]
                              \/ /\ f \in {"status", "mark"}
                                 /\ \A b \in Clients : Updating(b)' => b \in stale'
      BY <1>2
    <2>3. row'.ver \in Nat
      BY DEF RowTypes
    <2> QED BY <2>1, <2>2, <2>3, ReadKept DEF Core, HandlersInv
  <1> QED BY <1>3, <1>4 DEF Core, HandlersInv

LEMMA RefusedKeeps ==
  ASSUME Core, UNCHANGED kind, NEW c \in Clients, Refused(c)
  PROVE  Core'
  <1> USE DEF Core, HandlersInv
  <1>1. Settles(c) /\ stale' = stale \ {c} /\ UNCHANGED <<row, shown, plain>>
    BY DEF Refused
  <1>2. RowTypes'
    BY <1>1 DEF RowTypes
  <1>3. Fits(row')
    BY <1>1 DEF VersionInv
  <1>4. VersionInv' /\ ShownVersionsAgree' /\ SecretsAreMasked'
    BY <1>1, <1>3, ShownKept
  <1>5. shown' \in [Clients -> [ver : Nat \ {0}, doc : Docs(kind)] \cup {None}]
    BY <1>1 DEF ClientTypes
  <1>6. row'.ver >= row.ver
    BY <1>1 DEF RowTypes
  <1> QED BY <1>1, <1>2, <1>4, <1>5, <1>6, SettlesKeeps

LEMMA LookedKeeps ==
  ASSUME Core, UNCHANGED kind, NEW c \in Clients, Looked(c)
  PROVE  Core'
  <1> USE DEF Core, HandlersInv
  <1>1. /\ Settles(c) /\ stale' = stale \ {c} /\ UNCHANGED row
        /\ Shows(c, row'.ver, View(Usual, row'.doc))
    BY DEF Looked
  <1>2. RowTypes'
    BY <1>1 DEF RowTypes
  <1>3. Fits(row') /\ row'.ver \in Nat \ {0} /\ row'.doc \in Docs(kind)
    BY <1>1 DEF VersionInv, RowTypes, Looked, Live
  <1>4. /\ VersionInv' /\ ShownVersionsAgree' /\ SecretsAreMasked'
        /\ shown' \in [Clients -> [ver : Nat \ {0}, doc : Docs(kind)] \cup {None}]
    BY <1>1, <1>3, ShowsKeeps
  <1>5. \A b \in Clients : b # c => shown'[b] = shown[b]
    BY <1>1, ShowsOthers
  <1>6. row'.ver >= row.ver
    BY <1>1, <1>3
  <1> QED BY <1>1, <1>2, <1>4, <1>5, <1>6, SettlesKeeps

LEMMA RevealedKeeps ==
  ASSUME Core, UNCHANGED kind, NEW c \in Clients, Revealed(c)
  PROVE  Core'
  <1> USE DEF Core, HandlersInv
  <1>1. /\ UNCHANGED <<row, pc, req, read, stale>> /\ pc[c] = "idle"
        /\ shown' = [shown EXCEPT ![c] = [ver |-> row'.ver, doc |-> row'.doc]]
        /\ c \in plain' /\ \A b \in Clients : b # c => (b \in plain' <=> b \in plain)
    BY DEF Revealed
  <1>2. RowTypes'
    BY <1>1 DEF RowTypes
  <1>3. Fits(row') /\ row'.ver \in Nat \ {0} /\ row'.doc \in Docs(kind)
    BY <1>1 DEF VersionInv, RowTypes, Revealed, Live
  <1>4. /\ VersionInv' /\ ShownVersionsAgree' /\ SecretsAreMasked'
        /\ shown' \in [Clients -> [ver : Nat \ {0}, doc : Docs(kind)] \cup {None}]
    BY <1>1, <1>3, ShownNow, Zenon
  <1>5. ClientTypes'
    BY <1>1, <1>4 DEF ClientTypes, Updating
  <1>6. ReadInv'
    <2>1. \A b \in Clients : Updating(b)' => b # c /\ Updating(b) /\ shown'[b] = shown[b]
      BY <1>1 DEF Updating, ClientTypes
    <2>2. row'.ver \in Nat /\ row'.ver >= row.ver
      BY <1>1 DEF RowTypes
    <2> QED BY <1>1, <2>1, <2>2, ReadKept
  <1> QED BY <1>2, <1>4, <1>5, <1>6

LEMMA CreatedKeeps ==
  ASSUME Core, UNCHANGED kind, NEW c \in Clients, Created(c)
  PROVE  Core'
  <1> USE DEF Core, HandlersInv
  <1>1. PICK new \in Docs(kind), v \in Nat \ {0} :
          /\ row' = [state |-> State(new), ver |-> v, doc |-> new]
          /\ Shows(c, v, View(Usual, new))
    BY Zenon DEF Created
  <1>2. row.ver = 0 /\ row.state = "none" /\ Settles(c) /\ stale' = stale \ {c} /\ kind \in Kinds
    BY DEF Created, RowTypes
  <1>3. /\ RowTypes' /\ row'.ver > row.ver /\ row'.ver = v /\ row'.doc = new
        /\ row'.ver \in Nat \ {0} /\ row'.ver >= row.ver /\ row'.ver # row.ver
    BY <1>1, <1>2, DocGone DEF RowTypes
  <1>4. Fits(row')
    BY <1>3, FitsKept
  <1>5. /\ VersionInv' /\ ShownVersionsAgree' /\ SecretsAreMasked'
        /\ shown' \in [Clients -> [ver : Nat \ {0}, doc : Docs(kind)] \cup {None}]
    BY <1>1, <1>3, <1>4, ShowsKeeps
  <1>6. \A b \in Clients : b # c => shown'[b] = shown[b]
    BY <1>1, ShowsOthers
  <1> QED BY <1>2, <1>3, <1>5, <1>6, SettlesKeeps

LEMMA WrittenKeeps ==
  ASSUME Core, UNCHANGED kind, NEW c \in Clients, NEW new \in [ver : Nat, doc : Docs(kind)],
         Written(c, new)
  PROVE  Core'
  <1> USE DEF Core, HandlersInv
  <1>1. /\ row.ver = new.ver /\ row' = [state |-> State(new.doc), ver |-> row.ver + 1, doc |-> new.doc]
        /\ Shows(c, row.ver + 1, View(Usual, new.doc))
        /\ Settles(c) /\ stale' = stale \ {c}
    BY DEF Written
  <1>2. new.doc \in Docs(kind) /\ row.ver \in Nat
    BY DEF RowTypes
  <1>3. /\ RowTypes' /\ row'.ver = row.ver + 1 /\ row'.state # "none"
        /\ row'.doc = new.doc /\ row'.ver \in Nat \ {0} /\ row'.ver # row.ver /\ row'.ver > row.ver
    BY <1>1, <1>2, DocGone DEF RowTypes
  <1>4. Fits(row')
    BY <1>3, FitsKept
  <1>5. /\ VersionInv' /\ ShownVersionsAgree' /\ SecretsAreMasked'
        /\ shown' \in [Clients -> [ver : Nat \ {0}, doc : Docs(kind)] \cup {None}]
    BY <1>1, <1>2, <1>3, <1>4, ShowsKeeps
  <1>6. \A b \in Clients : b # c => shown'[b] = shown[b]
    BY <1>1, ShowsOthers
  <1>7. row'.ver >= row.ver
    BY <1>2, <1>3
  <1>8. \A b \in Clients : b # c /\ Updating(b) /\ b \in stale => b \in stale'
    BY <1>1
  <1> HIDE DEF Core, HandlersInv
  <1> QED BY <1>1, <1>3, <1>5, <1>6, <1>7, <1>8, SettlesKeeps, Zenon

LEMMA FetchedKeeps ==
  ASSUME Types, HandlersInv, UNCHANGED kind, NEW c \in Clients, Fetched(c)
  PROVE  Core'
  <1> USE DEF Types, HandlersInv
  <1>1. PICK b \in Bodies(c) :
          req' = [req EXCEPT ![c] = b] /\ read' = [read EXCEPT ![c] = Decode(b, row)]
    BY Zenon DEF Fetched
  <1>2. /\ Live /\ pc' = [pc EXCEPT ![c] = "update"]
        /\ UNCHANGED <<row, shown, plain, stale>>
    BY DEF Fetched
  <1> DEFINE r == Decode(b, row)
  <1>3. /\ r \in [ver : Nat, doc : Docs(kind)]
        /\ b.ver = None => r.ver = row.ver
        /\ b.ver # None => shown[c] # None /\ b.ver = shown[c].ver /\ r.ver = b.ver
        /\ \A f \in DOMAIN b.doc : r.doc[f] = b.doc[f]
        /\ \A f \in Fields \ DOMAIN b.doc : r.doc[f] = row.doc[f]
    BY <1>2, DecodeFacts
  <1> HIDE DEF r
  <1>4. /\ pc' \in [Clients -> {"idle", "update", "reread"}]
        /\ DOMAIN req' = Clients /\ DOMAIN read' = Clients
        /\ pc'[c] = "update" /\ req'[c] = b /\ read'[c] = r
        /\ \A a \in Clients : a # c => pc'[a] = pc[a] /\ req'[a] = req[a] /\ read'[a] = read[a]
    BY <1>1, <1>2 DEF ClientTypes, r
  <1>5. RowTypes'
    BY <1>2 DEF RowTypes
  <1>6. VersionInv' /\ ShownVersionsAgree' /\ SecretsAreMasked'
    <2>1. Fits(row')
      BY <1>2 DEF VersionInv
    <2> QED BY <1>2, <2>1, ShownKept
  <1>7. ClientTypes'
    <2>1. \A a \in Clients :
            /\ Updating(a)' => row'.state # "none" /\ read'[a] \in [ver : Nat, doc : Docs(kind)]
            /\ pc'[a] = "reread" => kind = "grpc"
      <3> TAKE a \in Clients
      <3>1. CASE a = c
        BY <1>2, <1>3, <1>4, <3>1 DEF Live
      <3>2. CASE a # c
        BY <1>2, <1>4, <3>2 DEF ClientTypes, Updating
      <3> QED BY <3>1, <3>2
    <2> QED BY <1>2, <1>4, <2>1 DEF ClientTypes
  <1>8. ReadInv'
    <2> SUFFICES ASSUME NEW a \in Clients, Updating(a)'
                 PROVE  /\ req'[a].ver # None =>
                             /\ shown[a] # None /\ req'[a].ver = shown[a].ver
                             /\ read'[a].ver = req'[a].ver
                        /\ \A f \in DOMAIN req'[a].doc : read'[a].doc[f] = req'[a].doc[f]
                        /\ read'[a].ver <= row.ver
                        /\ read'[a].ver = row.ver =>
                             \A f \in Fields \ DOMAIN req'[a].doc :
                               \/ read'[a].doc[f] = row.doc[f]
                               \/ f \in {"status", "mark"} /\ a \in stale
      BY <1>2 DEF ReadInv
    <2>1. CASE a = c
      <3>1. row.ver \in Nat /\ row.ver <= row.ver
        BY DEF RowTypes
      <3>2. shown[c] # None => shown[c].ver <= row.ver
        BY DEF VersionInv, Fits
      <3> QED BY <1>3, <1>4, <2>1, <3>1, <3>2
    <2>2. CASE a # c
      <3>1. Updating(a) /\ req'[a] = req[a] /\ read'[a] = read[a]
        BY <1>4, <2>2 DEF Updating
      <3> QED BY <3>1 DEF ReadInv
    <2> QED BY <2>1, <2>2
  <1> QED BY <1>5, <1>6, <1>7, <1>8 DEF Core

LEMMA PatchedKeeps ==
  ASSUME Core, UNCHANGED kind, NEW c \in Clients, Patched(c)
  PROVE  Core'
  <1> USE DEF Core, HandlersInv
  <1>1. PICK d \in Parts : row' = [state |-> State(Over(d, row.doc)), ver |-> row.ver + 1,
                                  doc |-> Over(d, row.doc)]
    BY Zenon DEF Patched
  <1>2. /\ Live /\ pc' = [pc EXCEPT ![c] = "reread"] /\ kind = "grpc"
        /\ UNCHANGED <<req, read, shown, plain, stale>>
    BY DEF Patched
  <1>3. row.doc \in Docs(kind) /\ row.ver \in Nat /\ row.state = "live" /\ kind \in Kinds
    BY <1>2 DEF RowTypes, Live
  <1> DEFINE new == Over(d, row.doc)
  <1>4. new \in Docs(kind)
    BY <1>3, OverFacts, PartFacts
  <1> HIDE DEF new
  <1>5. row' = [state |-> State(new), ver |-> row.ver + 1, doc |-> new]
    BY <1>1 DEF new
  <1>6. /\ RowTypes' /\ row'.ver = row.ver + 1 /\ row'.state # "none"
        /\ row'.ver \in Nat /\ row'.ver > row.ver /\ row'.ver # row.ver
    BY <1>3, <1>4, <1>5, DocGone DEF RowTypes
  <1>7. Fits(row')
    BY <1>6, FitsKept
  <1>8. VersionInv' /\ ShownVersionsAgree' /\ SecretsAreMasked'
    BY <1>2, <1>7, ShownKept
  <1>9. /\ pc' \in [Clients -> {"idle", "update", "reread"}]
        /\ \A b \in Clients : Updating(b)' => Updating(b)
    BY <1>2 DEF ClientTypes, Updating
  <1>10. ClientTypes'
    BY <1>2, <1>6, <1>9 DEF ClientTypes
  <1>11. ReadInv'
    <2>1. \A b \in Clients : Updating(b)' =>
            /\ Updating(b) /\ req'[b] = req[b] /\ read'[b] = read[b] /\ shown'[b] = shown[b]
            /\ b \in stale => b \in stale'
      BY <1>2, <1>9, Zenon
    <2>2. row'.ver >= row.ver
      BY <1>3, <1>6
    <2> QED BY <1>6, <2>1, <2>2, ReadKept, Zenon
  <1> QED BY <1>6, <1>8, <1>10, <1>11

LEMMA MarkedKeeps ==
  ASSUME Core, UNCHANGED kind, NEW c \in Clients, Marked(c)
  PROVE  Core'
  <1> USE DEF Core, HandlersInv
  <1>1. /\ Live /\ row' = [row EXCEPT !.doc.mark = TRUE] /\ Settles(c)
        /\ stale' = {b \in Clients : b # c /\ Updating(b)} /\ UNCHANGED <<shown, plain>>
    BY DEF Marked
  <1>2. row.doc \in Docs(kind) /\ row.ver \in Nat /\ row.state = "live" /\ row.ver # 0
    BY <1>1 DEF RowTypes, Live
  <1>3. /\ row'.ver = row.ver /\ row'.state = "live" /\ row'.doc = [row.doc EXCEPT !.mark = TRUE]
        /\ row'.doc \in Docs(kind)
        /\ row' \in [state : {"none", "live", "gone"}, ver : Nat, doc : Docs(kind) \cup {NoBody}]
    <2>1. [row.doc EXCEPT !.mark = TRUE] \in Docs(kind)
      BY <1>2, Zenon DEF Docs
    <2> QED BY <1>1, <1>2, <2>1, Zenon DEF RowTypes
  <1>4. RowTypes'
    BY <1>2, <1>3 DEF RowTypes
  <1>5. \A f \in Fields : row'.doc[f] = row.doc[f] \/ f = "mark"
    BY <1>2, <1>3 DEF Docs, Fields
  <1>6. \A f \in {"spec", "data", "fins"} : row'.doc[f] = row.doc[f]
    BY <1>5 DEF Fields
  <1>7. Fits(row')
    BY <1>3, <1>6, FitsKept
  <1>8. VersionInv' /\ ShownVersionsAgree' /\ SecretsAreMasked'
    BY <1>1, <1>7, ShownKept
  <1>9. /\ \A b \in Clients : b # c /\ Updating(b) => b \in stale'
        /\ shown' \in [Clients -> [ver : Nat \ {0}, doc : Docs(kind)] \cup {None}]
    BY <1>1 DEF ClientTypes
  <1>10. row'.ver >= row.ver
    BY <1>2, <1>3
  <1> QED BY <1>1, <1>3, <1>4, <1>5, <1>8, <1>9, <1>10, SettlesKeeps, Zenon

LEMMA RemovedKeeps ==
  ASSUME Core, UNCHANGED kind, NEW c \in Clients, Removed(c)
  PROVE  Core'
  <1> USE DEF Core, HandlersInv
  <1>1. /\ Live /\ row' = [row EXCEPT !.state = "gone"] /\ Settles(c)
        /\ stale' = stale \ {c} /\ UNCHANGED <<shown, plain>>
    BY DEF Removed
  <1>2. /\ row'.ver = row.ver /\ row'.state = "gone" /\ row'.doc = row.doc
        /\ row' \in [state : {"none", "live", "gone"}, ver : Nat, doc : Docs(kind) \cup {NoBody}]
    BY <1>1 DEF RowTypes
  <1>3. RowTypes'
    BY <1>1, <1>2 DEF RowTypes, Live
  <1>4. Fits(row')
    BY <1>2, FitsKept
  <1>5. VersionInv' /\ ShownVersionsAgree' /\ SecretsAreMasked'
    BY <1>1, <1>4, ShownKept
  <1>6. shown' \in [Clients -> [ver : Nat \ {0}, doc : Docs(kind)] \cup {None}]
    BY <1>1 DEF ClientTypes
  <1> QED BY <1>1, <1>2, <1>3, <1>5, <1>6, SettlesKeeps

LEMMA EffectKeeps ==
  ASSUME Types, HandlersInv, UNCHANGED kind, NEW c \in Clients, Effect(c)
  PROVE  Core'
  <1>1. Core
    BY DEF Types, Core
  <1>2. CASE Updated(c)
    BY <1>1, <1>2, WrittenKeeps DEF Updated, Core, ClientTypes
  <1>3. CASE Replaced(c)
    <2>1. PICK b \in Bodies(c) : Written(c, Alone(b))
      BY <1>3 DEF Replaced
    <2>2. Alone(b) \in [ver : Nat, doc : Docs(kind)]
      BY <1>3, AloneFacts DEF Replaced, Types, RowTypes
    <2> QED BY <1>1, <2>1, <2>2, WrittenKeeps
  <1> QED BY <1>1, <1>2, <1>3, RefusedKeeps, LookedKeeps, RevealedKeeps, CreatedKeeps,
             FetchedKeeps, PatchedKeeps, MarkedKeeps, RemovedKeeps DEF Effect

(* A reaction or a delivery writes the status. *)
LEMMA StatusKeeps ==
  ASSUME Core, NEW s \in Statuses(kind), WriteStatus(s)
  PROVE  Core'
  <1> USE DEF Core, HandlersInv
  <1>1. UNCHANGED <<kind, pc, req, read, shown, plain>>
    BY DEF WriteStatus
  <1>2. CASE ~Live
    <2>1. UNCHANGED <<row, stale>>
      BY <1>2 DEF WriteStatus
    <2>2. RowTypes' /\ ClientTypes'
      BY <1>1, <2>1 DEF RowTypes, ClientTypes, Updating
    <2>3. Fits(row')
      BY <2>1 DEF VersionInv
    <2>4. VersionInv' /\ ShownVersionsAgree' /\ SecretsAreMasked'
      BY <1>1, <2>3, ShownKept
    <2>5. ReadInv'
      BY <1>1, <2>1 DEF ReadInv, Updating
    <2> QED BY <2>2, <2>4, <2>5
  <1>3. CASE Live
    <2>1. row' = [row EXCEPT !.doc.status = s] /\ stale' = {c \in Clients : pc[c] = "update"}
      BY <1>3 DEF WriteStatus
    <2>2. row.doc \in Docs(kind) /\ row.ver \in Nat /\ row.state = "live" /\ row.ver # 0
      BY <1>3 DEF RowTypes, Live
    <2>3. /\ row'.ver = row.ver /\ row'.state = "live" /\ row'.doc = [row.doc EXCEPT !.status = s]
          /\ row'.doc \in Docs(kind)
          /\ row' \in [state : {"none", "live", "gone"}, ver : Nat, doc : Docs(kind) \cup {NoBody}]
      <3>1. [row.doc EXCEPT !.status = s] \in Docs(kind)
        BY <2>2 DEF Docs
      <3> QED BY <2>1, <2>2, <3>1 DEF RowTypes
    <2>4. RowTypes'
      BY <1>1, <2>2, <2>3 DEF RowTypes
    <2>5. \A f \in Fields : row'.doc[f] = row.doc[f] \/ f = "status"
      BY <2>2, <2>3 DEF Docs, Fields
    <2>6. \A f \in {"spec", "data", "fins"} : row'.doc[f] = row.doc[f]
      BY <2>5 DEF Fields
    <2>7. Fits(row')
      BY <2>3, <2>6, FitsKept
    <2>8. VersionInv' /\ ShownVersionsAgree' /\ SecretsAreMasked'
      BY <1>1, <2>7, ShownKept
    <2>9. ClientTypes'
      BY <1>1, <2>3 DEF ClientTypes, Updating
    <2>10. \A b \in Clients : Updating(b)' => Updating(b) /\ b \in stale'
      BY <1>1, <2>1 DEF Updating
    <2>11. ReadInv'
      BY <1>1, <2>3, <2>5, <2>10, ReadKept
    <2> QED BY <2>4, <2>8, <2>9, <2>11
  <1> QED BY <1>2, <1>3

LEMMA CoreKept ==
  ASSUME Core, UNCHANGED <<kind, row, shown, plain>>,
         \/ UNCHANGED <<pc, req, read, stale>>
         \/ /\ pc' = [c \in Clients |-> "idle"]
            /\ req' = [c \in Clients |-> NoBody] /\ read' = [c \in Clients |-> NoBody]
  PROVE  Core'
  <1> USE DEF Core, HandlersInv
  <1>1. RowTypes'
    BY DEF RowTypes
  <1>2. ClientTypes' /\ ReadInv'
    <2>1. CASE UNCHANGED <<pc, req, read, stale>>
      <3>1. ClientTypes'
        BY <2>1 DEF ClientTypes, Updating
      <3>2. ReadInv'
        BY <2>1 DEF ReadInv, Updating
      <3> QED BY <3>1, <3>2
    <2>2. CASE /\ pc' = [c \in Clients |-> "idle"]
               /\ req' = [c \in Clients |-> NoBody] /\ read' = [c \in Clients |-> NoBody]
      BY <2>2 DEF ClientTypes, ReadInv, Updating
    <2> QED BY <2>1, <2>2
  <1>3. Fits(row')
    BY DEF VersionInv
  <1>4. VersionInv' /\ ShownVersionsAgree' /\ SecretsAreMasked'
    BY <1>3, ShownKept
  <1> QED BY <1>1, <1>2, <1>4

----------------------------------------------------------------------------
(* The statuses that are held *)

LEMMA HeldHas ==
  /\ row.state # "none" => row.doc.status \in Held
  /\ \A b \in Clients : shown[b] # None => shown[b].doc.status \in Held
  /\ \A b \in Clients : Updating(b) /\ ~Chooses(b) => read[b].doc.status \in Held
  <1>1. row.state # "none" => row.doc.status \in Held
    BY DEF Held
  <1>2. \A b \in Clients : shown[b] # None => shown[b].doc.status \in Held
    BY Zenon DEF Held
  <1>3. \A b \in Clients : Updating(b) /\ ~Chooses(b) => read[b].doc.status \in Held
    BY Zenon DEF Held
  <1> QED BY <1>1, <1>2, <1>3, Zenon

LEMMA HeldOf ==
  ASSUME NEW S, row'.state # "none" => row'.doc.status \in S,
         \A b \in Clients : shown'[b] # None => shown'[b].doc.status \in S,
         \A b \in Clients : pc'[b] = "update" /\ ~Chooses(b)' => read'[b].doc.status \in S
  PROVE  Held' \subseteq S
  BY DEF Held, Updating

LEMMA HeldKept ==
  ASSUME UNCHANGED <<row, shown>>,
         UNCHANGED <<pc, req, read>> \/ pc' = [c \in Clients |-> "idle"]
  PROVE  Held' \subseteq Held
  <1>1. CASE UNCHANGED <<pc, req, read>>
    BY <1>1 DEF Held, Updating, Chooses
  <1>2. CASE pc' = [c \in Clients |-> "idle"]
    <2>1. \A b \in Clients : pc'[b] # "update"
      BY <1>2
    <2> QED BY <2>1, HeldHas, HeldOf
  <1> QED BY <1>1, <1>2

LEMMA SettlesHeld ==
  ASSUME Types, NEW c \in Clients, Settles(c), NEW S, Held \subseteq S,
         row'.state # "none" => row'.doc.status \in S,
         \A b \in Clients : shown'[b] # None => shown'[b].doc.status \in S,
         \A b \in Clients : b # c => shown'[b] = shown[b]
  PROVE  Held' \subseteq S
  <1>1. /\ pc'[c] = "idle"
        /\ \A b \in Clients : b # c => pc'[b] = pc[b] /\ req'[b] = req[b] /\ read'[b] = read[b]
    BY DEF Types, ClientTypes, Settles
  <1>2. \A b \in Clients : pc'[b] = "update" /\ ~Chooses(b)' => read'[b].doc.status \in S
    <2> SUFFICES ASSUME NEW b \in Clients, pc'[b] = "update", ~Chooses(b)'
                 PROVE  read'[b].doc.status \in S
      BY Zenon
    <2>1. b # c /\ pc[b] = "update" /\ read'[b] = read[b] /\ req'[b] = req[b] /\ shown'[b] = shown[b]
      BY <1>1
    <2>2. ~Chooses(b)
      BY <2>1 DEF Chooses
    <2> QED BY <2>1, <2>2, HeldHas DEF Updating
  <1> QED BY <1>2, HeldOf

LEMMA ShowsHeld ==
  ASSUME Types, NEW c \in Clients, NEW v, NEW d, Shows(c, v, d), NEW S, Held \subseteq S,
         d.status \in S
  PROVE  \A b \in Clients : shown'[b] # None => shown'[b].doc.status \in S
  <1>1. \A b \in Clients : shown[b] # None => shown[b].doc.status \in S
    BY HeldHas
  <1>2. CASE shown' = [shown EXCEPT ![c] = [ver |-> v, doc |-> d]]
    BY <1>1, <1>2 DEF Types, ClientTypes
  <1>3. CASE UNCHANGED shown
    BY <1>1, <1>3, Zenon
  <1> QED BY <1>2, <1>3, Zenon DEF Shows

(* A handler puts nothing back but what was read or shown, unless its client *)
(* chose a status.                                                           *)
LEMMA EffectHeld ==
  ASSUME Types, UNCHANGED kind, NEW c \in Clients, Effect(c), kind \in {"organization", "webhook"},
         ~(Live /\ row'.doc.status # row.doc.status /\ Updating(c) /\ Chooses(c))
  PROVE  Held' \subseteq Held \cup {IF kind = "webhook" THEN 0 ELSE "Pending"}
  <1> DEFINE S == Held \cup {IF kind = "webhook" THEN 0 ELSE "Pending"}
  <1> HIDE DEF S
  <1>0. Held \subseteq S /\ (IF kind = "webhook" THEN 0 ELSE "Pending") \in S
    BY DEF S
  <1>a. /\ row.state # "none" => row.doc.status \in S
        /\ \A b \in Clients : shown[b] # None => shown[b].doc.status \in S
        /\ \A b \in Clients : Updating(b) /\ ~Chooses(b) => read[b].doc.status \in S
    BY <1>0, HeldHas
  <1>b. Live => row.doc \in Docs(kind)
    BY DEF Types, RowTypes, Live
  <1>c. ClientTypes
    BY DEF Types
  <1>1. CASE Refused(c)
    BY <1>0, <1>1, <1>a, SettlesHeld, Zenon DEF Refused, S
  <1>2. CASE Looked(c)
    <2>1. View(Usual, row.doc).status \in S
      <3>1. row.doc \in Docs(kind) /\ row.doc.status \in S
        BY <1>2, <1>a, <1>b DEF Looked, Live
      <3> QED BY <3>1, ViewFacts
    <2>2. \A b \in Clients : shown'[b] # None => shown'[b].doc.status \in S
      BY <1>0, <1>2, <2>1, ShowsHeld DEF Looked
    <2>3. \A b \in Clients : b # c => shown'[b] = shown[b]
      BY <1>2, <1>c, ShowsOthers, Zenon DEF Looked
    <2> QED BY <1>0, <1>2, <1>a, <2>2, <2>3, SettlesHeld, Zenon DEF Looked, S
  <1>3. CASE Revealed(c) \/ Replaced(c) \/ Patched(c)
    BY <1>3, Zenon DEF Revealed, Replaced, Patched
  <1>4. CASE Created(c)
    <2>1. PICK new \in Docs(kind), v \in Nat \ {0} :
            /\ new.status = IF kind = "webhook" THEN 0 ELSE "Pending"
            /\ row' = [state |-> State(new), ver |-> v, doc |-> new]
            /\ Shows(c, v, View(Usual, new))
      BY <1>4, Zenon DEF Created
    <2>2. new.status \in S
      BY <1>0, <2>1
    <2>3. View(Usual, new).status \in S
      BY <2>2, ViewFacts
    <2>4. \A b \in Clients : shown'[b] # None => shown'[b].doc.status \in S
      BY <1>0, <2>1, <2>3, ShowsHeld, Zenon
    <2>5. \A b \in Clients : b # c => shown'[b] = shown[b]
      BY <1>c, <2>1, ShowsOthers, Zenon
    <2>6. row'.doc.status \in S
      BY <2>1, <2>2
    <2> QED BY <1>0, <1>4, <2>4, <2>5, <2>6, SettlesHeld, Zenon DEF Created, S
  <1>5. CASE Fetched(c)
    <2>1. PICK b \in Bodies(c) :
            req' = [req EXCEPT ![c] = b] /\ read' = [read EXCEPT ![c] = Decode(b, row)]
      BY <1>5, Zenon DEF Fetched
    <2>2. UNCHANGED <<row, shown>> /\ Live /\ pc' = [pc EXCEPT ![c] = "update"]
      BY <1>5 DEF Fetched
    <2> DEFINE r == Decode(b, row)
    <2>3. "status" \in DOMAIN b.doc => r.doc.status = b.doc.status
      BY <2>2, DecodeFacts
    <2>f. "status" \in Fields
      BY DEF Fields
    <2>4. "status" \notin DOMAIN b.doc => r.doc.status = row.doc.status
      BY <2>2, <2>f, DecodeFacts
    <2> HIDE DEF r
    <2>5. /\ req'[c] = b /\ read'[c] = r
          /\ \A a \in Clients : a # c => pc'[a] = pc[a] /\ req'[a] = req[a] /\ read'[a] = read[a]
      BY <1>c, <2>1, <2>2 DEF ClientTypes, r
    <2>6. \A a \in Clients : pc'[a] = "update" /\ ~Chooses(a)' => read'[a].doc.status \in S
      <3> SUFFICES ASSUME NEW a \in Clients, pc'[a] = "update", ~Chooses(a)'
                   PROVE  read'[a].doc.status \in S
        BY Zenon
      <3>1. CASE a # c
        <4>1. pc[a] = "update" /\ read'[a] = read[a] /\ req'[a] = req[a] /\ shown'[a] = shown[a]
          BY <2>2, <2>5, <3>1
        <4>2. ~Chooses(a)
          BY <4>1 DEF Chooses
        <4> QED BY <1>a, <4>1, <4>2 DEF Updating
      <3>2. CASE a = c
        <4>1. "status" \in DOMAIN b.doc => shown[c] # None /\ shown[c].doc.status = b.doc.status
          BY <2>2, <2>5, <3>2 DEF Chooses
        <4>2. row.doc.status \in S
          BY <1>a, <2>2 DEF Live
        <4> QED BY <1>a, <2>3, <2>4, <2>5, <3>2, <4>1, <4>2
      <3> QED BY <3>1, <3>2
    <2> QED BY <1>a, <2>2, <2>6, HeldOf, Zenon DEF S
  <1>6. CASE Updated(c)
    <2>1. read[c] \in [ver : Nat, doc : Docs(kind)] /\ row'.doc = read[c].doc /\ Live
      BY <1>6, <1>c, Zenon DEF Updated, Written, ClientTypes
    <2>2. read[c].doc.status \in S
      <3>1. CASE Chooses(c)
        BY <1>6, <1>a, <2>1, <3>1 DEF Updated, Live
      <3>2. CASE ~Chooses(c)
        BY <1>6, <1>a, <3>2 DEF Updated
      <3> QED BY <3>1, <3>2
    <2>3. View(Usual, read[c].doc).status \in S
      BY <2>1, <2>2, ViewFacts
    <2>4. \A b \in Clients : shown'[b] # None => shown'[b].doc.status \in S
      BY <1>0, <1>6, <2>3, ShowsHeld, Zenon DEF Updated, Written
    <2>5. \A b \in Clients : b # c => shown'[b] = shown[b]
      BY <1>6, <1>c, ShowsOthers, Zenon DEF Updated, Written
    <2>6. row'.doc.status \in S
      BY <2>1, <2>2, Zenon
    <2> QED BY <1>0, <1>6, <2>4, <2>5, <2>6, SettlesHeld, Zenon DEF Updated, Written, S
  <1>7. CASE Marked(c)
    <2>1. row'.doc.status = row.doc.status /\ row.state # "none"
      BY <1>7, <1>b DEF Marked, Live, Types, RowTypes, Docs
    <2>2. Settles(c) /\ UNCHANGED shown
      BY <1>7 DEF Marked
    <2> QED BY <1>0, <1>a, <2>1, <2>2, SettlesHeld, Zenon DEF S
  <1>8. CASE Removed(c)
    <2>1. row'.doc = row.doc /\ row.state # "none"
      BY <1>8 DEF Removed, Live, Types, RowTypes
    <2>2. Settles(c) /\ UNCHANGED shown
      BY <1>8 DEF Removed
    <2> QED BY <1>0, <1>a, <2>1, <2>2, SettlesHeld, Zenon DEF S
  <1> QED BY <1>1, <1>2, <1>3, <1>4, <1>5, <1>6, <1>7, <1>8 DEF Effect

LEMMA CountsHeld ==
  ASSUME Types, kind = "webhook"
  PROVE  \A s \in Held : s \in Nat
  <1>1. \A d \in Docs(kind) : d.status \in Nat
    BY DEF Docs, Statuses
  <1>2. row.state # "none" => row.doc \in Docs(kind)
    BY DEF Types, RowTypes
  <1>3. \A c \in Clients : shown[c] # None => shown[c].doc \in Docs(kind)
    BY DEF Types, ClientTypes
  <1>4. \A c \in Clients : Updating(c) => read[c].doc \in Docs(kind)
    BY DEF Types, ClientTypes
  <1> QED BY <1>1, <1>2, <1>3, <1>4, Zenon DEF Held

(* A status that is written is held in place of that of the row. *)
LEMMA StatusHeld ==
  ASSUME Types, NEW s, WriteStatus(s)
  PROVE  Held' \subseteq Held \cup {s} /\ (Live => row'.state = "live" /\ row'.doc.status = s)
  <1>1. CASE Live
    <2>1. row'.doc.status = s /\ row'.state = "live"
      BY <1>1 DEF WriteStatus, Types, RowTypes, Docs, Live
    <2>2. UNCHANGED <<shown, pc, req, read>>
      BY DEF WriteStatus
    <2>3. \A b \in Clients : Updating(b)' = Updating(b) /\ Chooses(b)' = Chooses(b)
      BY <2>2 DEF Updating, Chooses
    <2>4. \A b \in Clients : shown'[b] # None => shown'[b].doc.status \in Held \cup {s}
      BY <2>2, HeldHas
    <2>5. \A b \in Clients : pc'[b] = "update" /\ ~Chooses(b)' =>
            read'[b].doc.status \in Held \cup {s}
      BY <2>2, <2>3, HeldHas DEF Updating
    <2>6. row'.doc.status \in Held \cup {s}
      BY <2>1
    <2>7. Held' \subseteq Held \cup {s}
      BY <2>4, <2>5, <2>6, HeldOf, Zenon
    <2> QED BY <2>1, <2>7
  <1>2. CASE ~Live
    BY <1>2, HeldKept DEF WriteStatus
  <1> QED BY <1>1, <1>2

----------------------------------------------------------------------------
(* A request keeps the invariants of what runs behind it. *)

LEMMA CreatedFacts ==
  ASSUME NEW c, Created(c)
  PROVE  /\ row.state = "none" /\ row'.state \in {"live", "gone"} /\ Counted
         /\ row'.state = "gone" => row'.doc.gone
         /\ fired' = IF kind = "organization" THEN Append(fired, "post_create") ELSE fired
         /\ kind = "webhook" => row'.doc.status = 0
  <1>1. PICK new \in Docs(kind), v \in Nat \ {0} :
          /\ kind = "webhook" => new.status = 0
          /\ row' = [state |-> State(new), ver |-> v, doc |-> new]
    BY Zenon DEF Created
  <1>2. row'.state \in {"live", "gone"} /\ (row'.state = "gone" => row'.doc.gone)
    BY <1>1, DocGone
  <1>3. kind = "webhook" => row'.doc.status = 0
    BY <1>1
  <1> QED BY <1>2, <1>3, Zenon DEF Created

(* The row is softly deleted by the body of an update. *)
Dropped == Live /\ row'.state = "gone" /\ row'.doc.gone

LEMMA EffectState ==
  ASSUME Types, NEW c \in Clients, Effect(c)
  PROVE  /\ Counted \/ UNCHANGED requests
         /\ \/ Created(c) \/ Removed(c)
            \/ UNCHANGED fired /\ (row'.state = row.state \/ Dropped)
  <1> USE DEF Live
  <1>1. CASE Refused(c) \/ Looked(c) \/ Revealed(c) \/ Fetched(c)
    BY <1>1, Zenon DEF Refused, Looked, Revealed, Fetched
  <1>2. CASE Updated(c) \/ Replaced(c)
    <2>1. PICK new \in [ver : Nat, doc : Docs(kind)] : Written(c, new)
      <3>1. CASE Updated(c)
        BY <3>1, Zenon DEF Updated, Types, ClientTypes
      <3>2. CASE Replaced(c)
        BY <3>2, AloneFacts DEF Replaced, Types, RowTypes
      <3> QED BY <1>2, <3>1, <3>2
    <2>2. State(new.doc) \in {"live", "gone"} /\ (State(new.doc) = "gone" => new.doc.gone)
      BY <2>1, DocGone
    <2> QED BY <2>1, <2>2 DEF Written, Dropped
  <1>3. CASE Patched(c)
    <2>1. PICK d \in Parts : row' = [state |-> State(Over(d, row.doc)), ver |-> shown[c].ver + 1,
                                    doc |-> Over(d, row.doc)]
      BY <1>3, Zenon DEF Patched
    <2> DEFINE new == Over(d, row.doc)
    <2>2. new \in Docs(kind)
      BY <1>3, OverFacts, PartFacts DEF Patched, Types, RowTypes
    <2> HIDE DEF new
    <2>3. row'.state = State(new) /\ row'.doc = new
      BY <2>1 DEF new
    <2>4. State(new) \in {"live", "gone"} /\ (State(new) = "gone" => new.gone)
      BY <2>2, DocGone
    <2> QED BY <1>3, <2>3, <2>4 DEF Patched, Dropped
  <1>4. CASE Marked(c)
    BY <1>4 DEF Marked, Types, RowTypes
  <1>5. CASE Created(c) \/ Removed(c)
    BY <1>5, Zenon DEF Created, Removed
  <1> QED BY <1>1, <1>2, <1>3, <1>4, <1>5, Zenon DEF Effect

LEMMA EffectGo ==
  ASSUME Types, NEW c \in Clients, Effect(c), UNCHANGED <<kind, go, delivery, count, streak, failed>>
  PROVE  GoTypes'
  <1> USE HandlersAssumption DEF UnderWay
  <1>1. (Counted \/ UNCHANGED requests) /\ (Created(c) \/ Removed(c) \/ UNCHANGED fired)
    BY EffectState
  <1>2. requests' \in Nat /\ requests' <= MaxRequests /\ requests' >= requests
    BY <1>1 DEF Types, GoTypes, Counted
  <1>3. CASE UNCHANGED fired
    BY <1>2, <1>3 DEF Types, GoTypes
  <1>4. CASE kind = "organization" /\ \E v \in {"post_create", "post_delete"} :
               fired' = Append(fired, v) /\ requests' = requests + 1
    <2>1. fired' \in Seq({"post_create", "post_delete"}) /\ Len(fired') = Len(fired) + 1
      BY <1>4 DEF Types, GoTypes
    <2>2. Len(fired) \in Nat /\ Len(fired) <= requests /\ requests \in Nat
      BY DEF Types, GoTypes
    <2>3. Len(fired') <= requests'
      BY <1>4, <2>1, <2>2
    <2>4. \A i \in 1 .. MaxRequests : i > Len(fired') => go'[i] = "start"
      BY <2>1, <2>2 DEF Types, GoTypes
    <2> QED BY <1>2, <1>4, <2>1, <2>3, <2>4 DEF Types, GoTypes
  <1> QED BY <1>1, <1>3, <1>4 DEF Created, Removed, Counted

(* Before the creation nobody has a status. *)
LEMMA NothingHeld ==
  ASSUME Types, HandlersInv, row.state = "none"
  PROVE  Held = {}
  <1>1. \A b \in Clients : shown[b] = None
    <2>1. row.ver = 0
      BY DEF Types, RowTypes
    <2>2. \A b \in Clients : shown[b] # None => shown[b].ver <= 0
      BY <2>1, Zenon DEF HandlersInv, VersionInv, Fits
    <2>3. \A b \in Clients : shown[b] # None => shown[b].ver \in Nat \ {0}
      BY DEF Types, ClientTypes
    <2> QED BY <2>2, <2>3
  <1>2. \A b \in Clients : ~Updating(b)
    BY Zenon DEF Types, ClientTypes
  <1> QED BY <1>1, <1>2 DEF Held

LEMMA AppendsSecond == \A a, b : Append(<<a>>, b) = <<a, b>>
  <1> SUFFICES ASSUME NEW a, NEW b PROVE Append(<<a>>, b) = <<a, b>>
    BY Zenon
  <1> DEFINE s == Append(<<a>>, b) t == <<a, b>>
  <1>1. <<a>> \in Seq({a, b}) /\ b \in {a, b} /\ t \in Seq({a, b})
    OBVIOUS
  <1>2. s \in Seq({a, b}) /\ Len(s) = 2 /\ s[1] = a /\ s[2] = b
    BY <1>1
  <1>3. Len(t) = 2 /\ t[1] = a /\ t[2] = b
    OBVIOUS
  <1> HIDE DEF s, t
  <1>4. s = [i \in 1 .. 2 |-> s[i]] /\ t = [i \in 1 .. 2 |-> t[i]]
    BY <1>1, <1>2, <1>3
  <1>5. \A i \in 1 .. 2 : s[i] = t[i]
    BY <1>2, <1>3
  <1>6. s = t
    BY <1>4, <1>5
  <1> QED BY <1>6 DEF s, t

(* What a request does to the histories. *)
LEMMA ServeFacts ==
  ASSUME NEW c, Serve(c)
  PROVE  /\ UNCHANGED <<kind, go, idp, delivery, count, streak, failed>>
         /\ astray => astray'
         /\ chosen => chosen'
         /\ excuses \subseteq excuses'
         /\ (row'.state = "gone" /\ row'.doc.gone) => "dropped" \in excuses'
         /\ (Live /\ row'.doc.status # row.doc.status) =>
              astray' /\ crossed' = crossed \cup UnderWay /\ (Updating(c) /\ Chooses(c) => chosen')
         /\ ~(Live /\ row'.doc.status # row.doc.status) => crossed' = crossed
  <1>1. UNCHANGED <<kind, go, idp, delivery, count, streak, failed>>
    BY DEF Serve
  <1>2. excuses \subseteq excuses' /\ ((row'.state = "gone" /\ row'.doc.gone) => "dropped" \in excuses')
    BY Zenon DEF Serve
  <1>3. /\ astray => astray'
        /\ (Live /\ row'.doc.status # row.doc.status) => astray'
    BY Zenon DEF Serve
  <1>4. /\ chosen => chosen'
        /\ (Live /\ row'.doc.status # row.doc.status) => (Updating(c) /\ Chooses(c) => chosen')
    BY Zenon DEF Serve, Updating
  <1>5. /\ (Live /\ row'.doc.status # row.doc.status) => crossed' = crossed \cup UnderWay
        /\ ~(Live /\ row'.doc.status # row.doc.status) => crossed' = crossed
    BY Zenon DEF Serve
  <1> QED BY <1>1, <1>2, <1>3, <1>4, <1>5, Zenon

LEMMA ServeHeld ==
  ASSUME Types, NEW c \in Clients, Effect(c), Serve(c), kind \in {"organization", "webhook"}
  PROVE  chosen' \/ Held' \subseteq Held \cup {IF kind = "webhook" THEN 0 ELSE "Pending"}
  <1>1. CASE Live /\ row'.doc.status # row.doc.status /\ Updating(c) /\ Chooses(c)
    BY <1>1, ServeFacts, Zenon
  <1>2. CASE ~(Live /\ row'.doc.status # row.doc.status /\ Updating(c) /\ Chooses(c))
    BY <1>2, ServeFacts, EffectHeld, Zenon
  <1> QED BY <1>1, <1>2, Zenon

LEMMA ServeOrganization ==
  ASSUME Inv, NEW c \in Clients, Effect(c), Serve(c), kind = "organization"
  PROVE  OrganizationInv'
  <1> USE HandlersAssumption
  <1>1. UNCHANGED <<kind, go, idp>> /\ excuses \subseteq excuses'
    BY ServeFacts
  <1>a. (astray => astray') /\ (chosen => chosen')
    BY ServeFacts, Zenon
  <1>b. (row'.state = "gone" /\ row'.doc.gone) => "dropped" \in excuses'
    BY ServeFacts, Zenon
  <1>2. FiredInv /\ ActiveInv /\ ProvisionedInv /\ ForgottenInv
    BY DEF Inv, OrganizationInv
  <1>3. chosen' \/ Held' \subseteq Held \cup {"Pending"}
    <2>1. Types
      BY Zenon DEF Inv
    <2> QED BY <2>1, ServeHeld
  <1>4. CASE Created(c)
    <2>1. fired' = <<"post_create">> /\ row'.state \in {"live", "gone"}
      <3>1. fired = <<>> /\ fired' = Append(fired, "post_create") /\ row'.state \in {"live", "gone"}
        BY <1>2, <1>4, CreatedFacts, Zenon DEF FiredInv
      <3> QED BY <3>1
    <2>2. "Active" \notin Held' \/ chosen'
      <3>1. Held = {}
        BY <1>4, CreatedFacts, NothingHeld, Zenon DEF Inv
      <3>2. CASE Held' \subseteq Held \cup {"Pending"}
        BY <3>1, <3>2
      <3> QED BY <1>3, <3>2, Zenon
    <2>3. go[1] = "start"
      <3>1. Len(fired) = 0 /\ Counted
        BY <1>2, <1>4, CreatedFacts DEF FiredInv
      <3>2. 1 \in 1 .. MaxRequests /\ 1 > Len(fired)
        BY <3>1 DEF Counted, Inv, Types, GoTypes
      <3> QED BY <3>2 DEF Inv, Types, GoTypes
    <2>4. row'.state = "gone" => "dropped" \in excuses'
      BY <1>4, <1>b, CreatedFacts, Zenon
    <2>5. FiredInv' /\ ForgottenInv' /\ ProvisionedInv'
      BY <1>1, <2>1, <2>3, <2>4 DEF FiredInv, ProvisionedInv, ForgottenInv, Live
    <2>6. ActiveInv'
      <3>1. go'[1] # "ok"
        BY <1>1, <2>3
      <3> QED BY <2>2, <3>1, Zenon DEF ActiveInv
    <2> QED BY <2>5, <2>6 DEF OrganizationInv
  <1>5. CASE Removed(c)
    <2>1. row'.state = "gone" /\ fired = <<"post_create">> /\ fired' = Append(fired, "post_delete")
      BY <1>2, <1>5 DEF Removed, FiredInv, Live, Inv, Types, RowTypes
    <2>2. fired' = <<"post_create", "post_delete">>
      BY <2>1, AppendsSecond
    <2>3. 1 <= requests /\ requests \in Nat /\ requests < MaxRequests
      BY <1>5, <2>1 DEF Removed, Counted, Inv, Types, GoTypes
    <2>4. go[2] = "start"
      BY <2>1, <2>3 DEF Inv, Types, GoTypes
    <2> QED BY <1>1, <2>1, <2>2, <2>4, Zenon
            DEF OrganizationInv, FiredInv, ActiveInv, ProvisionedInv, ForgottenInv, Live
  <1>6. CASE UNCHANGED fired /\ row'.state = row.state
    <2>1. FiredInv' /\ ForgottenInv'
      BY <1>1, <1>2, <1>6 DEF FiredInv, ForgottenInv
    <2>2. ActiveInv'
      <3>1. ASSUME row.state = "live", "Active" \in Held' \/ go[1] = "ok", ~chosen'
            PROVE  idp
        <4>1. "Active" \in Held \/ go[1] = "ok"
          BY <1>3, <3>1
        <4>2. ~chosen
          BY <1>a, <3>1, Zenon
        <4> QED BY <1>2, <3>1, <4>1, <4>2, Zenon DEF ActiveInv, Live
      <3> QED BY <1>1, <1>6, <3>1, Zenon DEF ActiveInv, Live
    <2>3. ProvisionedInv'
      <3> SUFFICES ASSUME row'.state = "live", go'[1] = "ended", ~astray'
                   PROVE  \/ row'.doc.status \in {"Active", "Failed"}
                          \/ excuses' \cap {"crashed", "unwritten"} # {}
        BY Zenon DEF ProvisionedInv, Live
      <3>1. Live /\ go[1] = "ended"
        BY <1>1, <1>6 DEF Live
      <3>2. row'.doc.status = row.doc.status /\ ~astray
        BY <3>1, ServeFacts, Zenon
      <3>3. row.doc.status \in {"Active", "Failed"} \/ excuses \cap {"crashed", "unwritten"} # {}
        BY <1>2, <3>1, <3>2, Zenon DEF ProvisionedInv
      <3> QED BY <1>1, <3>2, <3>3
    <2> QED BY <2>1, <2>2, <2>3 DEF OrganizationInv
  <1>7. CASE UNCHANGED fired /\ Dropped
    <2>1. row'.state = "gone" /\ fired' = <<"post_create">> /\ "dropped" \in excuses'
      BY <1>2, <1>7, <1>b DEF Dropped, Live, FiredInv
    <2> QED BY <2>1, Zenon DEF OrganizationInv, FiredInv, ActiveInv, ProvisionedInv, ForgottenInv, Live
  <1>8. Types
    BY Zenon DEF Inv
  <1> QED BY <1>4, <1>5, <1>6, <1>7, <1>8, EffectState, Zenon

LEMMA ServeWebhook ==
  ASSUME Inv, NEW c \in Clients, Effect(c), Serve(c), kind = "webhook"
  PROVE  WebhookInv'
  <1>0. Types
    BY Zenon DEF Inv
  <1>1. UNCHANGED <<kind, delivery, count, streak, failed>>
    BY ServeFacts
  <1>a. (astray => astray') /\ (chosen => chosen')
    BY ServeFacts, Zenon
  <1>b. UnderWay' = UnderWay /\ Posted' = Posted /\ Posted \subseteq UnderWay
    BY <1>1 DEF UnderWay, Posted
  <1>2. /\ row.state = "none" => streak = 0 /\ UnderWay = {}
        /\ CountInv
        /\ Live => StreakInv(row.doc.status)
    BY Zenon DEF Inv, WebhookInv
  <1>3. chosen' \/ Held' \subseteq Held \cup {0}
    BY <1>0, ServeHeld
  <1>4. \A s \in Held' : s <= failed' \/ chosen'
    <2> SUFFICES ASSUME NEW s \in Held', ~chosen' PROVE s <= failed
      BY <1>1
    <2>1. s \in Held \/ s = 0
      BY <1>3
    <2>2. failed \in Nat
      BY <1>0 DEF Types, GoTypes
    <2>3. s \in Held => s <= failed
      BY <1>2, <1>a, Zenon DEF CountInv
    <2> QED BY <2>1, <2>2, <2>3
  <1>5. CountInv'
    <2> SUFFICES ASSUME NEW e \in UnderWay
                 PROVE  /\ count[e] \in Nat
                        /\ count[e] <= failed \/ chosen'
                        /\ delivery[e] = "err" => count[e] + 1 <= failed \/ chosen'
      BY <1>1, <1>4, <1>b, Zenon DEF CountInv
    <2> QED BY <1>2, <1>a, Zenon DEF CountInv
  <1>6. row'.state = "none" => row.state = "none"
    <2>1. Created(c) => row'.state \in {"live", "gone"}
      BY CreatedFacts, Zenon
    <2>2. Removed(c) => row'.state = "gone"
      BY <1>0 DEF Removed, Types, RowTypes
    <2> QED BY <1>0, <2>1, <2>2, EffectState, Zenon DEF Dropped
  <1>7. (row'.state = "live") => StreakInv(row.doc.status)'
    <2>1. CASE Live /\ row'.doc.status # row.doc.status
      <3>1. astray' /\ crossed' = crossed \cup UnderWay
        BY <2>1, ServeFacts, Zenon
      <3>2. (UnderWay \ crossed)' = {} /\ (Posted \ crossed)' = {}
        BY <1>b, <3>1
      <3> QED BY <3>1, <3>2, Zenon DEF StreakInv
    <2>2. CASE Live /\ row'.doc.status = row.doc.status
      <3>1. crossed' = crossed
        BY <2>2, ServeFacts, Zenon
      <3>2. StreakInv(row.doc.status)
        BY <1>2, <2>2
      <3> DEFINE n == row.doc.status
      <3>3. StreakInv(n)
        BY <3>2
      <3>4. n' = n
        BY <2>2
      <3> HIDE DEF n
      <3>5. StreakInv(n)'
        BY <1>1, <1>a, <1>b, <3>1, <3>3, <3>4, Zenon DEF StreakInv
      <3> QED BY <3>5 DEF n
    <2>3. CASE Created(c)
      <3>1. row.state = "none" /\ row'.doc.status = 0
        BY <2>3, CreatedFacts, Zenon
      <3>2. streak' = 0 /\ UnderWay' = {} /\ Posted' = {}
        BY <1>1, <1>2, <1>b, <3>1
      <3>3. row'.doc.status = streak'
        BY <3>1, <3>2
      <3> QED BY <3>2, <3>3 DEF StreakInv
    <2> QED BY <1>0, <2>1, <2>2, <2>3, EffectState DEF Removed, Live, Dropped
  <1> QED BY <1>1, <1>2, <1>5, <1>6, <1>7, <1>b, Zenon DEF WebhookInv, Live

LEMMA ServeKeeps ==
  ASSUME Inv, NEW c \in Clients, Serve(c)
  PROVE  Inv'
  <1>0. Types /\ HandlersInv
    BY Zenon DEF Inv
  <1>1. Effect(c)
    BY <1>0, HandleEffect DEF Serve, Types, RowTypes, ClientTypes
  <1>2. UNCHANGED kind
    BY DEF Serve
  <1>3. Core'
    BY <1>0, <1>1, <1>2, EffectKeeps
  <1>4. GoTypes'
    BY <1>0, <1>1, EffectGo DEF Serve
  <1>5. OrganizationInv'
    BY <1>1, <1>2, ServeOrganization DEF OrganizationInv
  <1>6. WebhookInv'
    BY <1>1, <1>2, ServeWebhook DEF WebhookInv
  <1> QED BY <1>3, <1>4, <1>5, <1>6 DEF Inv, Types, Core

----------------------------------------------------------------------------
(* The reactions, the deliveries and the crash keep the invariant. *)

(* A reaction is that to the creation, or the one to the deletion. *)
LEMMA ReactionFacts ==
  ASSUME Inv, NEW i \in DOMAIN fired
  PROVE  /\ kind = "organization" /\ i \in 1 .. MaxRequests /\ i <= Len(fired)
         /\ FiredInv /\ ActiveInv /\ ProvisionedInv /\ ForgottenInv
         /\ \/ i = 1 /\ fired[i] = "post_create" /\ row.state \in {"live", "gone"}
            \/ i = 2 /\ fired[i] = "post_delete" /\ row.state = "gone" /\ go[2] \in {"start", "ended"}
  <1> USE HandlersAssumption
  <1>1. kind = "organization"
    BY DEF Inv, Types, GoTypes
  <1>2. FiredInv /\ ActiveInv /\ ProvisionedInv /\ ForgottenInv
    BY <1>1 DEF Inv, OrganizationInv
  <1>3. i \in 1 .. Len(fired) /\ Len(fired) \in Nat /\ Len(fired) <= MaxRequests
    BY DEF Inv, Types, GoTypes
  <1>4. CASE row.state = "none"
    BY <1>2, <1>4 DEF FiredInv
  <1>5. CASE row.state = "live"
    BY <1>1, <1>2, <1>3, <1>5 DEF FiredInv
  <1>6. CASE row.state = "gone"
    <2>1. CASE fired = <<"post_create", "post_delete">> /\ go[2] \in {"start", "ended"}
      <3>1. Len(fired) = 2 /\ fired[1] = "post_create" /\ fired[2] = "post_delete"
        BY <2>1
      <3>2. i = 1 \/ i = 2
        BY <1>3, <3>1
      <3> QED BY <1>1, <1>2, <1>3, <1>6, <2>1, <3>1, <3>2
    <2>2. CASE fired = <<"post_create">>
      BY <1>1, <1>2, <1>3, <1>6, <2>2
    <2> QED BY <1>2, <1>6, <2>1, <2>2, Zenon DEF FiredInv
  <1> QED BY <1>4, <1>5, <1>6 DEF Inv, Types, RowTypes

LEMMA GoMoves ==
  ASSUME Inv, NEW i \in DOMAIN fired, NEW s \in {"ok", "err", "ended"}, go' = [go EXCEPT ![i] = s],
         UNCHANGED <<kind, fired, requests, delivery, count, streak, failed>>
  PROVE  GoTypes' /\ go'[i] = s /\ \A j \in 1 .. MaxRequests : j # i => go'[j] = go[j]
  <1>a. i \in 1 .. MaxRequests /\ i <= Len(fired)
    BY ReactionFacts, Zenon
  <1>b. fired \in Seq({"post_create", "post_delete"})
    BY Zenon DEF Inv, Types, GoTypes
  <1>1. i \in 1 .. MaxRequests /\ i <= Len(fired) /\ Len(fired) \in Nat
    BY <1>a, <1>b
  <1>2. /\ go \in [1 .. MaxRequests -> {"start", "ok", "err", "ended"}]
        /\ \A j \in 1 .. MaxRequests : j > Len(fired) => go[j] = "start"
    BY Zenon DEF Inv, Types, GoTypes
  <1>3. /\ go' \in [1 .. MaxRequests -> {"start", "ok", "err", "ended"}] /\ go'[i] = s
        /\ \A j \in 1 .. MaxRequests : j # i => go'[j] = go[j]
    BY <1>1, <1>2
  <1>4. \A j \in 1 .. MaxRequests : j > Len(fired') => go'[j] = "start"
    <2> SUFFICES ASSUME NEW j \in 1 .. MaxRequests, j > Len(fired') PROVE go'[j] = "start"
      OBVIOUS
    <2>1. j > Len(fired)
      OBVIOUS
    <2>2. j # i
      BY <1>1, <2>1, HandlersAssumption
    <2> QED BY <1>2, <1>3, <2>1, <2>2, Zenon
  <1>5. UnderWay' = UnderWay
    BY DEF UnderWay
  <1> QED BY <1>3, <1>4, <1>5, Zenon DEF Inv, Types, GoTypes

LEMMA ProvisionKeeps ==
  ASSUME Inv, NEW i \in DOMAIN fired, ProvisionOrganization(i)
  PROVE  Inv'
  <1>1. /\ UNCHANGED <<kind, row, pc, req, read, shown, plain, stale, fired, requests, delivery,
                       count, streak, failed, astray, chosen>>
        /\ fired[i] = "post_create" /\ excuses \subseteq excuses'
    BY DEF ProvisionOrganization, deliveryVars
  <1>2. PICK s \in {"ok", "err"} : /\ go' = [go EXCEPT ![i] = s] /\ (s = "ok" => idp')
                                   /\ idp => idp'
    <2>1. CASE idp' = TRUE /\ go' = [go EXCEPT ![i] = "ok"]
      BY <2>1, Zenon
    <2>2. CASE idp' \in {idp, TRUE} /\ go' = [go EXCEPT ![i] = "err"]
      <3>1. idp => idp'
        <4>1. CASE idp' = idp
          BY <4>1
        <4>2. CASE idp' = TRUE
          BY <4>2
        <4> QED BY <2>2, <4>1, <4>2, Zenon
      <3> QED BY <2>2, <3>1, Zenon
    <2> QED BY <2>1, <2>2, Zenon DEF ProvisionOrganization
  <1>3. GoTypes' /\ go'[i] = s /\ \A j \in 1 .. MaxRequests : j # i => go'[j] = go[j]
    BY <1>1, <1>2, GoMoves, Zenon
  <1>4. i = 1 /\ kind = "organization" /\ row.state \in {"live", "gone"}
    BY <1>1, ReactionFacts
  <1>5. Core'
    BY <1>1, CoreKept DEF Inv, Types, Core
  <1>6. FiredInv /\ ActiveInv /\ ForgottenInv
    BY ReactionFacts
  <1>7. Held' \subseteq Held
    BY <1>1, HeldKept
  <1>8. (row.state = "gone" /\ "dropped" \notin excuses) =>
          fired[2] = "post_delete" /\ 2 \in DOMAIN fired /\ go'[2] = go[2]
    <2> SUFFICES ASSUME row.state = "gone", "dropped" \notin excuses
                 PROVE  fired[2] = "post_delete" /\ 2 \in DOMAIN fired /\ go'[2] = go[2]
      OBVIOUS
    <2>1. fired = <<"post_create", "post_delete">>
      BY <1>6 DEF FiredInv
    <2>2. fired[2] = "post_delete" /\ 2 \in DOMAIN fired
      BY <2>1
    <2> QED BY <1>3, <1>4, <2>2, ReactionFacts
  <1>9. FiredInv'
    <2>1. CASE fired = <<"post_create", "post_delete">> /\ row.state = "gone"
      <3>1. 2 \in DOMAIN fired
        BY <2>1
      <3>2. go'[2] = go[2]
        BY <1>3, <1>4, <3>1, ReactionFacts
      <3>3. go[2] \in {"start", "ended"}
        BY <1>6, <2>1 DEF FiredInv
      <3> QED BY <1>1, <2>1, <3>2, <3>3 DEF FiredInv
    <2>2. CASE ~(fired = <<"post_create", "post_delete">> /\ row.state = "gone")
      BY <1>1, <1>6, <2>2 DEF FiredInv
    <2> QED BY <2>1, <2>2
  <1>10. ActiveInv'
    <2>1. "Active" \in Held' => "Active" \in Held
      BY <1>7
    <2>2. go'[1] = s
      BY <1>3, <1>4
    <2> QED BY <1>1, <1>2, <1>6, <2>1, <2>2, Zenon DEF ActiveInv, Live
  <1>11. ProvisionedInv'
    BY <1>3, <1>4, Zenon DEF ProvisionedInv
  <1>12. ForgottenInv'
    <2> SUFFICES ASSUME row.state = "gone", "dropped" \notin excuses, go[2] = "ended"
                 PROVE  "overtaken" \in excuses'
      BY <1>1, <1>8 DEF ForgottenInv
    <2> QED BY <1>8 DEF ProvisionOrganization
  <1> QED BY <1>1, <1>3, <1>4, <1>5, <1>9, <1>10, <1>11, <1>12
          DEF Inv, Types, Core, OrganizationInv, WebhookInv

LEMMA UpdateStatusKeeps ==
  ASSUME Inv, NEW i \in DOMAIN fired, updateStatus(i)
  PROVE  Inv'
  <1>1. /\ go' = [go EXCEPT ![i] = "ended"] /\ go[i] \in {"ok", "err"}
        /\ UNCHANGED <<idp, delivery, count, streak, failed, chosen>>
    BY DEF updateStatus, deliveryVars
  <1>2. /\ UNCHANGED <<kind, shown, plain, fired, requests>>
        /\ row'.state = row.state
    BY DEF updateStatus, WriteStatus, Inv, Types, RowTypes, Live
  <1>3. /\ i = 1 /\ kind = "organization" /\ row.state \in {"live", "gone"}
        /\ FiredInv /\ ActiveInv /\ ForgottenInv
    BY <1>1, ReactionFacts
  <1>4. GoTypes' /\ go'[1] = "ended" /\ \A j \in 1 .. MaxRequests : j # 1 => go'[j] = go[j]
    BY <1>1, <1>2, <1>3, GoMoves, Zenon
  <1>5. fired = <<"post_create", "post_delete">> => go'[2] = go[2]
    <2> SUFFICES ASSUME fired = <<"post_create", "post_delete">> PROVE go'[2] = go[2]
      OBVIOUS
    <2>1. 2 \in DOMAIN fired
      OBVIOUS
    <2> QED BY <1>4, <2>1, ReactionFacts
  <1>6. excuses \subseteq excuses'
    BY DEF updateStatus
  <1>7. FiredInv'
    BY <1>2, <1>3, <1>5, <1>6 DEF FiredInv
  <1>8. ForgottenInv'
    <2>1. CASE row.state = "gone" /\ fired = <<"post_create", "post_delete">>
      BY <1>1, <1>2, <1>3, <1>5, <1>6, <2>1 DEF ForgottenInv
    <2>2. CASE row.state # "gone" \/ "dropped" \in excuses
      BY <1>2, <1>6, <2>2 DEF ForgottenInv
    <2> QED BY <1>3, <2>1, <2>2 DEF FiredInv
  <1>9. Core' /\ ActiveInv' /\ ProvisionedInv'
    <2>1. CASE WriteStatus(IF go[i] = "ok" THEN "Active" ELSE "Failed")
      <3> DEFINE s == IF go[i] = "ok" THEN "Active" ELSE "Failed"
      <3>1. s \in Statuses(kind) /\ s \in {"Active", "Failed"} /\ (s = "Active" <=> go[1] = "ok")
        BY <1>3 DEF Statuses
      <3>2. WriteStatus(s)
        BY <2>1
      <3> HIDE DEF s
      <3>3. Held' \subseteq Held \cup {s} /\ (Live => row'.doc.status = s)
        BY <3>2, StatusHeld DEF Inv
      <3>4. Core'
        BY <3>1, <3>2, StatusKeeps DEF Inv, Types, Core
      <3>5. ActiveInv'
        BY <1>1, <1>2, <1>3, <1>4, <3>1, <3>3 DEF ActiveInv, Live
      <3>6. ProvisionedInv'
        BY <1>2, <3>1, <3>3 DEF ProvisionedInv, Live
      <3> QED BY <3>4, <3>5, <3>6
    <2>2. CASE /\ excuses' = excuses \cup {"unwritten"}
               /\ UNCHANGED <<kind, row, pc, req, read, code, shown, plain, stale, fired, requests, astray>>
      <3>1. Core'
        BY <2>2, CoreKept DEF Inv, Types, Core
      <3>2. ActiveInv'
        BY <1>1, <1>3, <1>4, <2>2, HeldKept DEF ActiveInv, Live
      <3>3. ProvisionedInv'
        BY <2>2 DEF ProvisionedInv
      <3> QED BY <3>1, <3>2, <3>3
    <2> QED BY <2>1, <2>2 DEF updateStatus
  <1> QED BY <1>2, <1>3, <1>4, <1>7, <1>8, <1>9, Zenon DEF Inv, Types, Core, OrganizationInv, WebhookInv

LEMMA OnPostDeleteKeeps ==
  ASSUME Inv, NEW i \in DOMAIN fired, onPostDelete(i)
  PROVE  Inv'
  <1>1. /\ go' = [go EXCEPT ![i] = "ended"] /\ fired[i] = "post_delete"
        /\ UNCHANGED <<kind, row, pc, req, read, shown, plain, stale, fired, requests, delivery,
                       count, streak, failed, astray, chosen>>
        /\ excuses \subseteq excuses'
    BY DEF onPostDelete, deliveryVars
  <1>2. i = 2 /\ kind = "organization" /\ row.state = "gone" /\ FiredInv
    BY <1>1, ReactionFacts
  <1>3. GoTypes' /\ go'[2] = "ended"
    BY <1>1, <1>2, GoMoves, Zenon
  <1>4. Core'
    BY <1>1, CoreKept DEF Inv, Types, Core
  <1>5. ~idp' \/ "kept" \in excuses'
    BY Zenon DEF onPostDelete
  <1>6. FiredInv' /\ ActiveInv' /\ ProvisionedInv' /\ ForgottenInv'
    BY <1>1, <1>2, <1>3, <1>5 DEF FiredInv, ActiveInv, ProvisionedInv, ForgottenInv, Live
  <1> QED BY <1>1, <1>2, <1>3, <1>4, <1>6 DEF Inv, Types, Core, OrganizationInv, WebhookInv

(* A step of a delivery has to keep the types and WebhookInv. *)
LEMMA DeliveryStep ==
  ASSUME Inv, kind = "webhook", UNCHANGED <<kind, fired, requests, go>>, Core',
         delivery' \in [Events -> {"none", "start", "ok", "err", "ended"}], DOMAIN count' = Events,
         streak' \in Nat, failed' \in Nat, WebhookInv'
  PROVE  Inv'
  <1>1. GoTypes'
    BY Zenon DEF Inv, Types, GoTypes
  <1>2. OrganizationInv'
    BY DEF OrganizationInv
  <1> QED BY <1>1, <1>2, Zenon DEF Inv, Types, Core

LEMMA WebhookFacts ==
  ASSUME Inv, kind = "webhook"
  PROVE  /\ row.state = "none" => streak = 0 /\ UnderWay = {}
         /\ CountInv
         /\ Live => StreakInv(row.doc.status)
         /\ streak \in Nat /\ failed \in Nat
         /\ delivery \in [Events -> {"none", "start", "ok", "err", "ended"}] /\ DOMAIN count = Events
         /\ \A s \in Held : s \in Nat
  <1>1. Types /\ WebhookInv
    BY Zenon DEF Inv
  <1>2. \A s \in Held : s \in Nat
    BY <1>1, CountsHeld
  <1> QED BY <1>1, <1>2, Zenon DEF Types, GoTypes, WebhookInv

LEMMA DeliverEventKeeps ==
  ASSUME Inv, NEW e \in Events, deliverEvent(e)
  PROVE  Inv'
  <1>1. /\ kind = "webhook" /\ delivery[e] = "none"
        /\ UNCHANGED <<kind, row, pc, req, read, shown, plain, stale, fired, requests, go, streak,
                       failed, crossed, astray, chosen>>
    BY DEF deliverEvent
  <1>2. /\ delivery \in [Events -> {"none", "start", "ok", "err", "ended"}] /\ DOMAIN count = Events
        /\ streak \in Nat /\ failed \in Nat
    BY <1>1, WebhookFacts, Zenon
  <1>3. Core'
    BY <1>1, CoreKept DEF Inv, Types, Core
  <1>4. /\ delivery' \in [Events -> {"none", "start", "ok", "err", "ended"}] /\ DOMAIN count' = Events
        /\ \A f \in Events : f # e => delivery'[f] = delivery[f] /\ count'[f] = count[f]
        /\ delivery'[e] \in {"start", "ended"}
        /\ delivery'[e] = "start" => Live /\ count'[e] = row.doc.status
    BY <1>2 DEF deliverEvent
  <1>5. /\ e \notin UnderWay /\ UnderWay' \subseteq UnderWay \cup {e} /\ Posted' = Posted
        /\ e \in UnderWay' => Live /\ count'[e] = row.doc.status
        /\ Posted \subseteq UnderWay
        /\ \A f \in UnderWay : delivery'[f] = delivery[f] /\ count'[f] = count[f]
    BY <1>1, <1>4 DEF UnderWay, Posted
  <1>6. CountInv'
    <2>1. CountInv
      BY <1>1, WebhookFacts, Zenon
    <2>2. \A s \in Held' : s <= failed' \/ chosen'
      <3>1. Held' \subseteq Held
        BY <1>1, HeldKept
      <3> QED BY <1>1, <2>1, <3>1, Zenon DEF CountInv
    <2>3. ASSUME e \in UnderWay'
          PROVE  count'[e] \in Nat /\ (count'[e] <= failed \/ chosen)
      <3>1. count'[e] \in Held
        BY <1>5, <2>3, HeldHas DEF Live
      <3> QED BY <1>1, <2>1, <3>1, WebhookFacts, Zenon DEF CountInv
    <2>4. delivery'[e] # "err"
      BY <1>4
    <2>5. ASSUME NEW f \in UnderWay'
          PROVE  /\ count'[f] \in Nat
                 /\ count'[f] <= failed \/ chosen
                 /\ delivery'[f] = "err" => count'[f] + 1 <= failed \/ chosen
      <3>1. CASE f = e
        BY <2>3, <2>4, <2>5, <3>1, Zenon
      <3>2. CASE f \in UnderWay
        <4>1. delivery'[f] = delivery[f] /\ count'[f] = count[f]
          BY <1>5, <3>2, Zenon
        <4> QED BY <2>1, <3>2, <4>1, Zenon DEF CountInv
      <3> QED BY <1>5, <2>5, <3>1, <3>2, Zenon
    <2> QED BY <1>1, <2>2, <2>5, Zenon DEF CountInv
  <1>7. ASSUME Live PROVE StreakInv(row.doc.status)'
    <2> DEFINE n == row.doc.status
    <2>1. StreakInv(n)
      BY <1>1, <1>7, WebhookFacts, Zenon
    <2>2. n' = n /\ (e \in UnderWay' => count'[e] = n)
      BY <1>1, <1>5
    <2> HIDE DEF n
    <2>3. Posted' = {} => n' = streak' \/ astray'
      BY <1>1, <1>5, <2>1, <2>2, Zenon DEF StreakInv
    <2>4. \A f \in UnderWay' \ crossed' : count'[f] = n' \/ astray'
      BY <1>1, <1>5, <2>1, <2>2, Zenon DEF StreakInv
    <2>5. ASSUME NEW f \in Posted' \ crossed'
          PROVE  /\ delivery'[f] = "ok" => streak' = 0
                 /\ Posted' = {f} /\ delivery'[f] = "err" => streak' = count'[f] + 1 \/ astray'
      <3>1. f \in Posted \ crossed /\ delivery'[f] = delivery[f] /\ count'[f] = count[f]
        BY <1>1, <1>5, <2>5
      <3> QED BY <1>1, <1>5, <2>1, <3>1, Zenon DEF StreakInv
    <2>6. StreakInv(n)'
      BY <2>3, <2>4, <2>5, Zenon DEF StreakInv
    <2> QED BY <2>6 DEF n
  <1>8. row.state = "none" => streak = 0 /\ UnderWay' = {}
    <2> SUFFICES ASSUME row.state = "none" PROVE streak = 0 /\ UnderWay' = {}
      OBVIOUS
    <2>1. streak = 0 /\ UnderWay = {}
      BY <1>1, WebhookFacts, Zenon
    <2> QED BY <1>5, <2>1 DEF Live
  <1>9. WebhookInv'
    BY <1>1, <1>6, <1>7, <1>8 DEF WebhookInv, Live
  <1> QED BY <1>1, <1>2, <1>3, <1>4, <1>9, DeliveryStep, Zenon

LEMMA DeliverGivesUpKeeps ==
  ASSUME Inv, NEW e \in Events, deliverGivesUp(e)
  PROVE  Inv'
  <1>1. /\ delivery[e] = "start" /\ delivery' = [delivery EXCEPT ![e] = "ended"]
        /\ crossed' = crossed \ {e}
        /\ UNCHANGED <<kind, row, pc, req, read, shown, plain, stale, fired, requests, go, count,
                       streak, failed, astray, chosen>>
    BY DEF deliverGivesUp, handlerVars
  <1>2. e \in UnderWay /\ kind = "webhook"
    BY <1>1 DEF UnderWay, Inv, Types, GoTypes
  <1>3. Core'
    BY <1>1, CoreKept DEF Inv, Types, Core
  <1>4. /\ CountInv /\ (Live => StreakInv(row.doc.status))
        /\ row.state = "none" => streak = 0 /\ UnderWay = {}
    BY <1>2, WebhookFacts, Zenon
  <1>5. /\ delivery \in [Events -> {"none", "start", "ok", "err", "ended"}] /\ DOMAIN count = Events
        /\ streak \in Nat /\ failed \in Nat
    BY <1>2, WebhookFacts, Zenon
  <1>6. delivery' \in [Events -> {"none", "start", "ok", "err", "ended"}]
    BY <1>1, <1>5
  <1>7. /\ UnderWay' = UnderWay \ {e} /\ Posted' = Posted /\ Posted \subseteq UnderWay \ {e}
        /\ \A f \in UnderWay \ {e} : delivery'[f] = delivery[f]
    BY <1>1, <1>5 DEF UnderWay, Posted
  <1>8. CountInv'
    <2>1. Held' \subseteq Held
      BY <1>1, HeldKept
    <2>2. \A f \in UnderWay' : f \in UnderWay /\ delivery'[f] = delivery[f] /\ count'[f] = count[f]
      BY <1>1, <1>7
    <2> QED BY <1>1, <1>4, <2>1, <2>2, Zenon DEF CountInv
  <1>9. ASSUME Live PROVE StreakInv(row.doc.status)'
    <2> DEFINE n == row.doc.status
    <2>1. StreakInv(n) /\ n' = n
      BY <1>1, <1>4, <1>9
    <2> HIDE DEF n
    <2>2. /\ \A f \in UnderWay' \ crossed' : f \in UnderWay \ crossed
          /\ \A f \in Posted' \ crossed' : f \in Posted \ crossed /\ delivery'[f] = delivery[f]
      BY <1>1, <1>7
    <2>3. StreakInv(n)'
      BY <1>1, <1>7, <2>1, <2>2, Zenon DEF StreakInv
    <2> QED BY <2>3 DEF n
  <1>10. WebhookInv'
    BY <1>1, <1>4, <1>7, <1>8, <1>9 DEF WebhookInv, Live
  <1> QED BY <1>1, <1>2, <1>3, <1>5, <1>6, <1>10, DeliveryStep, Zenon

(* A POST comes across all the other deliveries. *)
LEMMA DeliverPostsKeeps ==
  ASSUME Inv, NEW e \in Events, NEW ok \in BOOLEAN, deliverPosts(e, ok)
  PROVE  Inv'
  <1>1. /\ delivery[e] = "start" /\ delivery' = [delivery EXCEPT ![e] = IF ok THEN "ok" ELSE "err"]
        /\ crossed' = crossed \cup (UnderWay \ {e})
        /\ UNCHANGED <<kind, row, pc, req, read, shown, plain, stale, fired, requests, go, count,
                       astray, chosen>>
    BY DEF deliverPosts, handlerVars
  <1>a. streak' = (IF ok THEN 0 ELSE streak + 1) /\ failed' = (IF ok THEN failed ELSE failed + 1)
    BY DEF deliverPosts
  <1>2. e \in UnderWay /\ kind = "webhook"
    BY <1>1 DEF UnderWay, Inv, Types, GoTypes
  <1>3. Core'
    BY <1>1, CoreKept DEF Inv, Types, Core
  <1>4. /\ CountInv /\ (Live => StreakInv(row.doc.status))
        /\ row.state = "none" => streak = 0 /\ UnderWay = {}
    BY <1>2, WebhookFacts, Zenon
  <1>5. /\ delivery \in [Events -> {"none", "start", "ok", "err", "ended"}] /\ DOMAIN count = Events
        /\ streak \in Nat /\ failed \in Nat
    BY <1>2, WebhookFacts, Zenon
  <1>6. /\ delivery' \in [Events -> {"none", "start", "ok", "err", "ended"}]
        /\ streak' \in Nat /\ failed' \in Nat /\ failed <= failed'
        /\ (delivery'[e] = "ok" => streak' = 0)
        /\ (delivery'[e] = "err" => streak' = streak + 1 /\ failed' = failed + 1)
    <2>1. CASE ok
      BY <1>1, <1>5, <1>a, <2>1
    <2>2. CASE ~ok
      BY <1>1, <1>5, <1>a, <2>2
    <2> QED BY <2>1, <2>2
  <1>7. /\ UnderWay' = UnderWay /\ Posted' = Posted \cup {e} /\ e \notin Posted
        /\ Posted \subseteq UnderWay
        /\ \A f \in UnderWay \ {e} : delivery'[f] = delivery[f]
    BY <1>1, <1>5 DEF UnderWay, Posted
  <1>8. CountInv'
    <2>1. Held' \subseteq Held
      BY <1>1, HeldKept
    <2>2. ASSUME NEW k \in Nat, k <= failed PROVE k <= failed'
      BY <1>5, <1>6, <2>2
    <2>3. \A h \in Held : h \in Nat /\ (h <= failed \/ chosen)
      BY <1>2, <1>4, WebhookFacts, Zenon DEF CountInv
    <2>4. \A h \in Held' : h <= failed' \/ chosen'
      BY <1>1, <2>1, <2>2, <2>3, Zenon
    <2>5. ASSUME NEW f \in UnderWay, ~chosen
          PROVE  /\ count[f] \in Nat /\ count[f] <= failed'
                 /\ delivery'[f] = "err" => count[f] + 1 <= failed'
      <3>1. count[f] \in Nat /\ count[f] <= failed /\ (delivery[f] = "err" => count[f] + 1 <= failed)
        BY <1>4, <2>5, Zenon DEF CountInv
      <3>2. CASE f = e
        BY <1>5, <1>6, <3>1, <3>2
      <3>3. CASE f # e
        BY <1>5, <1>6, <1>7, <2>5, <3>1, <3>3
      <3> QED BY <3>2, <3>3
    <2>6. \A f \in UnderWay : count[f] \in Nat
      BY <1>4, Zenon DEF CountInv
    <2> QED BY <1>1, <1>7, <2>4, <2>5, <2>6, Zenon DEF CountInv
  <1>9. ASSUME Live PROVE StreakInv(row.doc.status)'
    <2> DEFINE n == row.doc.status
    <2>1. StreakInv(n) /\ n' = n
      BY <1>1, <1>4, <1>9
    <2> HIDE DEF n
    <2>2. /\ \A f \in UnderWay' \ crossed' : f = e /\ e \in UnderWay \ crossed
          /\ \A f \in Posted' \ crossed' : f = e /\ e \in UnderWay \ crossed
          /\ Posted' # {} /\ (Posted' = {e} => Posted = {})
      BY <1>1, <1>2, <1>7
    <2>3. \A f \in UnderWay' \ crossed' : count'[f] = n' \/ astray'
      BY <1>1, <2>1, <2>2, Zenon DEF StreakInv
    <2>4. ASSUME e \in UnderWay \ crossed, Posted' = {e}, delivery'[e] = "err", ~astray
          PROVE  streak' = count[e] + 1
      <3>1. n = streak /\ count[e] = n
        BY <2>1, <2>2, <2>4, Zenon DEF StreakInv
      <3> QED BY <1>6, <2>4, <3>1
    <2>5. \A f \in Posted' \ crossed' :
            /\ delivery'[f] = "ok" => streak' = 0
            /\ Posted' = {f} /\ delivery'[f] = "err" => streak' = count'[f] + 1 \/ astray'
      BY <1>1, <1>6, <2>2, <2>4, Zenon
    <2>6. StreakInv(n)'
      BY <2>2, <2>3, <2>5, Zenon DEF StreakInv
    <2> QED BY <2>6 DEF n
  <1>10. WebhookInv'
    <2>1. row.state # "none"
      BY <1>2, <1>4
    <2> QED BY <1>1, <1>8, <1>9, <2>1 DEF WebhookInv, Live
  <1> QED BY <1>1, <1>2, <1>3, <1>5, <1>6, <1>10, DeliveryStep, Zenon

(* So does an UPDATE, which leaves the right count if nothing came across   *)
(* its own delivery.                                                        *)
LEMMA DeliverKeeps ==
  ASSUME Inv, NEW e \in Events, deliver(e)
  PROVE  Inv'
  <1>1. /\ delivery[e] \in {"ok", "err"} /\ delivery' = [delivery EXCEPT ![e] = "ended"]
        /\ crossed' = (crossed \cup UnderWay) \ {e}
        /\ UNCHANGED <<go, count, streak, failed, chosen>>
    BY Zenon DEF deliver
  <1>2. UNCHANGED <<kind, fired, requests>> /\ row'.state = row.state
    BY DEF deliver, WriteStatus, Inv, Types, RowTypes, Live
  <1>3. e \in UnderWay /\ e \in Posted /\ kind = "webhook"
    BY <1>1 DEF UnderWay, Posted, Inv, Types, GoTypes
  <1>4. /\ CountInv /\ (Live => StreakInv(row.doc.status))
        /\ row.state = "none" => streak = 0 /\ UnderWay = {}
    BY <1>3, WebhookFacts, Zenon
  <1>5. /\ delivery \in [Events -> {"none", "start", "ok", "err", "ended"}] /\ DOMAIN count = Events
        /\ streak \in Nat /\ failed \in Nat
    BY <1>3, WebhookFacts, Zenon
  <1>6. delivery' \in [Events -> {"none", "start", "ok", "err", "ended"}]
    BY <1>1, <1>5
  <1>7. /\ UnderWay' = UnderWay \ {e} /\ Posted' = Posted \ {e} /\ Posted \subseteq UnderWay
        /\ \A f \in UnderWay' : f \in UnderWay /\ delivery'[f] = delivery[f]
    BY <1>1, <1>5 DEF UnderWay, Posted
  <1>8. (UnderWay \ crossed)' = {} /\ (Posted \ crossed)' = {} /\ (Posted' = {} => Posted = {e})
    BY <1>1, <1>3, <1>7
  <1> DEFINE n == failureCount(count[e], delivery[e] = "ok")
  <1>9. /\ n \in Nat /\ (n <= failed \/ chosen)
        /\ delivery[e] = "ok" => n = 0
        /\ delivery[e] = "err" => n = count[e] + 1
    <2>1. count[e] \in Nat /\ (delivery[e] = "err" => count[e] + 1 <= failed \/ chosen)
      BY <1>3, <1>4, Zenon DEF CountInv
    <2>2. CASE delivery[e] = "ok"
      <3>1. n = 0
        BY <2>2, Zenon DEF failureCount
      <3>2. failed \in Nat
        BY <1>5, Zenon
      <3> HIDE DEF n
      <3> QED BY <2>2, <3>1, <3>2
    <2>3. CASE delivery[e] = "err"
      <3>1. n = count[e] + 1 /\ n \in Nat
        BY <2>1, <2>3 DEF failureCount
      <3> HIDE DEF n
      <3>2. n <= failed \/ chosen
        BY <2>1, <2>3, <3>1
      <3> QED BY <2>3, <3>1, <3>2
    <2> QED BY <1>1, <2>2, <2>3
  <1> HIDE DEF n
  <1>10. ASSUME Held' \subseteq Held \cup {n} PROVE CountInv'
    BY <1>1, <1>4, <1>7, <1>9, <1>10, Zenon DEF CountInv
  <1>11. row.state # "none"
    BY <1>3, <1>4
  <1>12. CASE /\ WriteStatus(failureCount(count[e], delivery[e] = "ok"))
              /\ astray' = (e \in crossed \/ (astray /\ delivery[e] = "err"))
    <2>1. WriteStatus(n) /\ n \in Statuses(kind)
      <3>1. Statuses(kind) = Nat
        BY <1>3 DEF Statuses
      <3> QED BY <1>9, <1>12, <3>1, Zenon DEF n
    <2>2. Core'
      BY <2>1, StatusKeeps DEF Inv, Types, Core
    <2>3. Held' \subseteq Held \cup {n} /\ (Live => row'.doc.status = n)
      BY <2>1, StatusHeld DEF Inv
    <2>4. ASSUME Live, Posted' = {}, ~astray' PROVE row'.doc.status = streak'
      <3>1. e \in Posted \ crossed /\ Posted = {e} /\ (delivery[e] = "err" => ~astray)
        BY <1>3, <1>8, <1>12, <2>4, Zenon
      <3>2. StreakInv(row.doc.status)
        BY <1>4, <2>4
      <3>3. CASE delivery[e] = "ok"
        <4>1. streak = 0
          BY <3>1, <3>2, <3>3, Zenon DEF StreakInv
        <4> QED BY <1>1, <1>9, <2>3, <2>4, <3>3, <4>1
      <3>4. CASE delivery[e] = "err"
        <4>1. streak = count[e] + 1
          BY <3>1, <3>2, <3>4, Zenon DEF StreakInv
        <4> QED BY <1>1, <1>9, <2>3, <2>4, <3>4, <4>1
      <3> QED BY <1>1, <3>3, <3>4
    <2>5. ASSUME Live PROVE StreakInv(row.doc.status)'
      BY <1>8, <2>4, <2>5, Zenon DEF StreakInv
    <2>6. WebhookInv'
      BY <1>2, <1>10, <1>11, <2>3, <2>5 DEF WebhookInv, Live
    <2> QED BY <1>1, <1>2, <1>3, <1>5, <1>6, <2>2, <2>6, DeliveryStep, Zenon
  <1>13. CASE /\ astray' = TRUE
              /\ UNCHANGED <<kind, row, pc, req, read, code, shown, plain, stale, fired, requests>>
    <2>1. Core'
      BY <1>13, CoreKept DEF Inv, Types, Core
    <2>2. CountInv'
      BY <1>10, <1>13, HeldKept
    <2>3. StreakInv(row.doc.status)'
      BY <1>8, <1>13, Zenon DEF StreakInv
    <2>4. WebhookInv'
      BY <1>2, <1>11, <2>2, <2>3 DEF WebhookInv
    <2> QED BY <1>1, <1>2, <1>3, <1>5, <1>6, <2>1, <2>4, DeliveryStep, Zenon
  <1> QED BY <1>12, <1>13, Zenon DEF deliver

LEMMA BothFired == 2 \in DOMAIN <<"post_create", "post_delete">>
  OBVIOUS

LEMMA CrashKeeps ==
  ASSUME Inv, Crash
  PROVE  Inv'
  <1> USE HandlersAssumption
  <1>1. /\ UNCHANGED <<kind, row, shown, plain, fired, requests, idp, count, streak, failed, chosen>>
        /\ pc' = [c \in Clients |-> "idle"]
        /\ req' = [c \in Clients |-> NoBody] /\ read' = [c \in Clients |-> NoBody]
        /\ go' = [i \in DOMAIN go |-> IF i \in DOMAIN fired THEN "ended" ELSE "start"]
        /\ excuses \subseteq excuses'
    BY DEF Crash
  <1>2. Core'
    BY <1>1, CoreKept DEF Inv, Types, Core
  <1>3. Held' \subseteq Held
    BY <1>1, HeldKept
  <1>4. /\ delivery' \in [Events -> {"none", "start", "ok", "err", "ended"}]
        /\ UnderWay' = {} /\ Posted' = {}
    BY DEF Crash, Inv, Types, GoTypes, UnderWay, Posted
  <1>5. GoTypes'
    <2>a. /\ fired \in Seq({"post_create", "post_delete"})
          /\ go \in [1 .. MaxRequests -> {"start", "ok", "err", "ended"}]
      BY Zenon DEF Inv, Types, GoTypes
    <2>1. /\ Len(fired) \in Nat /\ DOMAIN fired = 1 .. Len(fired)
          /\ DOMAIN go = 1 .. MaxRequests
      BY <2>a
    <2>b. \A i \in 1 .. MaxRequests : i > Len(fired) => i \notin DOMAIN fired
      BY <2>1
    <2>c. go' = [i \in 1 .. MaxRequests |-> IF i \in DOMAIN fired THEN "ended" ELSE "start"]
      BY <1>1, <2>1, Zenon
    <2>2. /\ go' \in [1 .. MaxRequests -> {"start", "ok", "err", "ended"}]
          /\ \A i \in 1 .. MaxRequests : i > Len(fired) => go'[i] = "start"
      BY <2>b, <2>c, Zenon
    <2> QED BY <1>1, <1>4, <2>2, Zenon DEF Inv, Types, GoTypes
  <1>6. \A i \in DOMAIN fired : go'[i] = "ended" /\ (go[i] = "ended" \/ "crashed" \in excuses')
    <2> TAKE i \in DOMAIN fired
    <2>1. i \in DOMAIN go
      BY ReactionFacts DEF Inv, Types, GoTypes
    <2> QED BY <1>1, <2>1, Zenon DEF Crash, Running
  <1>7. OrganizationInv'
    <2> SUFFICES ASSUME kind = "organization"
                 PROVE  FiredInv' /\ ActiveInv' /\ ProvisionedInv' /\ ForgottenInv'
      BY <1>1, Zenon DEF OrganizationInv
    <2>1. FiredInv /\ ActiveInv /\ ProvisionedInv /\ ForgottenInv
      BY DEF Inv, OrganizationInv
    <2>2. Live => 1 \in DOMAIN fired
      BY <2>1 DEF FiredInv, Live
    <2>3. fired = <<"post_create", "post_delete">> => 2 \in DOMAIN fired
      BY BothFired, Zenon
    <2>4. FiredInv'
      BY <1>1, <1>6, <2>1, <2>3 DEF FiredInv
    <2>5. ActiveInv'
      BY <1>1, <1>3, <1>6, <2>1, <2>2 DEF ActiveInv, Live
    <2>6. ProvisionedInv'
      <3> SUFFICES ASSUME Live, ~astray'
                   PROVE  \/ row.doc.status \in {"Active", "Failed"}
                          \/ excuses' \cap {"crashed", "unwritten"} # {}
        BY <1>1, Zenon DEF ProvisionedInv, Live
      <3>1. ~astray
        BY Zenon DEF Crash
      <3>2. go[1] = "ended" \/ "crashed" \in excuses'
        BY <1>6, <2>2
      <3> QED BY <1>1, <2>1, <3>1, <3>2 DEF ProvisionedInv
    <2>7. ForgottenInv'
      <3>1. CASE "dropped" \in excuses
        BY <1>1, <3>1 DEF ForgottenInv
      <3>2. CASE row.state = "gone" /\ fired = <<"post_create", "post_delete">>
        BY <1>1, <1>6, <2>1, <2>3, <3>2 DEF ForgottenInv
      <3> QED BY <1>1, <2>1, <3>1, <3>2 DEF FiredInv, ForgottenInv
    <2> QED BY <2>4, <2>5, <2>6, <2>7
  <1>8. WebhookInv'
    <2> SUFFICES ASSUME kind = "webhook"
                 PROVE  /\ row.state = "none" => streak = 0
                        /\ CountInv'
                        /\ Live => StreakInv(row.doc.status)'
      BY <1>1, <1>4, Zenon DEF WebhookInv, Live
    <2>1. /\ row.state = "none" => streak = 0
          /\ CountInv
          /\ Live => StreakInv(row.doc.status)
      BY WebhookFacts, Zenon
    <2>2. CountInv'
      BY <1>1, <1>3, <1>4, <2>1, Zenon DEF CountInv
    <2>3. ASSUME Live PROVE StreakInv(row.doc.status)'
      <3> DEFINE n == row.doc.status
      <3>1. StreakInv(n) /\ n' = n
        BY <1>1, <2>1, <2>3
      <3> HIDE DEF n
      <3>2. n' = streak' \/ astray'
        <4>1. astray => astray'
          BY Zenon DEF Crash
        <4>2. Posted # {} => astray'
          BY Zenon DEF Crash
        <4> QED BY <1>1, <3>1, <4>1, <4>2, Zenon DEF StreakInv
      <3>3. StreakInv(n)'
        BY <1>4, <3>2, Zenon DEF StreakInv
      <3> QED BY <3>3 DEF n
    <2> QED BY <2>1, <2>2, <2>3
  <1> QED BY <1>2, <1>5, <1>7, <1>8 DEF Inv, Types, Core

LEMMA StutterKeeps ==
  ASSUME Inv, UNCHANGED vars
  PROVE  Inv'
  <1>1. /\ UNCHANGED <<kind, row, pc, req, read, shown, plain, stale, fired, requests>>
        /\ UNCHANGED <<go, idp, delivery, count, streak, failed, crossed, astray, chosen, excuses>>
    BY DEF vars, handlerVars, reactVars, deliveryVars
  <1>2. Core'
    BY <1>1, CoreKept DEF Inv, Types, Core
  <1>3. Held' = Held
    BY <1>1 DEF Held, Updating, Chooses
  <1>a. UnderWay' = UnderWay /\ Posted' = Posted
    BY <1>1 DEF UnderWay, Posted
  <1>4. GoTypes'
    BY <1>1, <1>a DEF Inv, Types, GoTypes
  <1>5. OrganizationInv'
    BY <1>1, <1>3
       DEF Inv, OrganizationInv, FiredInv, ActiveInv, ProvisionedInv, ForgottenInv, Live
  <1>6. WebhookInv'
    <2>1. CountInv' = CountInv
      BY <1>1, <1>3, <1>a, Zenon DEF CountInv
    <2>2. StreakInv(row.doc.status)' = StreakInv(row.doc.status)
      BY <1>1, <1>a, Zenon DEF StreakInv
    <2> QED BY <1>1, <1>a, <2>1, <2>2, Zenon DEF Inv, WebhookInv, Live
  <1> QED BY <1>2, <1>4, <1>5, <1>6 DEF Inv, Types, Core

----------------------------------------------------------------------------
(* The invariant *)

LEMMA NothingFired ==
  /\ <<>> \in Seq({"post_create", "post_delete"})
  /\ Len(<<>>) = 0 /\ 0 <= 0
  OBVIOUS

LEMMA InitInv == Init => Inv
  <1> SUFFICES ASSUME Init PROVE Inv
    OBVIOUS
  <1>0. fired = <<>> /\ requests = 0
    BY Zenon DEF Init, HandlersInit
  <1>a. fired \in Seq({"post_create", "post_delete"}) /\ Len(fired) = 0 /\ Len(fired) <= requests
    BY <1>0, NothingFired, Zenon
  <1>b. requests \in Nat /\ requests <= MaxRequests
    BY <1>0, HandlersAssumption
  <1> USE DEF Init, HandlersInit
  <1>1. RowTypes
    BY DEF RowTypes, NoBody
  <1>2. ClientTypes /\ ReadInv /\ (\A c \in Clients : ~Updating(c))
    BY DEF ClientTypes, ReadInv, Updating
  <1>3. GoTypes
    <2>3. /\ go \in [1 .. MaxRequests -> {"start", "ok", "err", "ended"}]
          /\ \A i \in 1 .. MaxRequests : go[i] = "start"
      OBVIOUS
    <2>4. /\ delivery \in [Events -> {"none", "start", "ok", "err", "ended"}] /\ DOMAIN count = Events
          /\ UnderWay = {}
          /\ streak \in Nat /\ failed \in Nat
      BY DEF UnderWay
    <2> QED BY <1>0, <1>a, <1>b, <2>3, <2>4, Zenon DEF GoTypes
  <1>4. VersionInv /\ ShownVersionsAgree /\ SecretsAreMasked
    BY Zenon DEF VersionInv, Fits, ShownVersionsAgree, SecretsAreMasked
  <1>5. Held = {}
    BY <1>2, Zenon DEF Held
  <1>6. OrganizationInv
    BY DEF OrganizationInv, FiredInv, ActiveInv, ProvisionedInv, ForgottenInv, Live
  <1>7. WebhookInv
    BY <1>5 DEF WebhookInv, CountInv, UnderWay, Live
  <1> QED BY <1>1, <1>2, <1>3, <1>4, <1>6, <1>7 DEF Inv, Types, HandlersInv

LEMMA NextInv == Inv /\ [Next]_vars => Inv'
  <1> SUFFICES ASSUME Inv, [Next]_vars PROVE Inv'
    OBVIOUS
  <1>1. CASE \E c \in Clients : Serve(c)
    BY <1>1, ServeKeeps
  <1>2. CASE \E i \in DOMAIN fired : ProvisionOrganization(i) \/ updateStatus(i) \/ onPostDelete(i)
    BY <1>2, ProvisionKeeps, UpdateStatusKeeps, OnPostDeleteKeeps
  <1>3. CASE \E e \in Events : deliverEvent(e) \/ deliverGivesUp(e) \/ deliver(e)
    BY <1>3, DeliverEventKeeps, DeliverGivesUpKeeps, DeliverKeeps
  <1>4. CASE \E e \in Events, ok \in BOOLEAN : deliverPosts(e, ok)
    BY <1>4, DeliverPostsKeeps
  <1>5. CASE Crash
    BY <1>5, CrashKeeps
  <1>6. CASE UNCHANGED vars
    BY <1>6, StutterKeeps
  <1> QED BY <1>1, <1>2, <1>3, <1>4, <1>5, <1>6 DEF Next

LEMMA Invariant == Spec => []Inv
  BY InitInv, NextInv, PTL DEF Spec

(* Two answers of the platform's handlers with the same resource version    *)
(* show the same specification and finalizers, whichever handlers gave      *)
(* them, and whatever the reactions and deliveries write in the meantime.   *)
(* Their status may differ.                                                 *)
THEOREM VersionsIdentify == Spec => []ShownVersionsAgree
  <1>1. Inv => ShownVersionsAgree
    BY DEF Inv, HandlersInv
  <1> QED BY <1>1, Invariant, PTL

(* No answer of a secret's handlers but that of reveal holds its data:      *)
(* getSecret, listSecrets, createSecret and updateSecret show it Redacted.  *)
THEOREM MaskedOutsideReveal == Spec => []SecretsAreMasked
  <1>1. Inv => SecretsAreMasked
    BY DEF Inv, HandlersInv
  <1> QED BY <1>1, Invariant, PTL

(* onPostCreate and onPostDelete keep the identity provider in step with    *)
(* the organizations, in every interleaving with requests that may name any *)
(* of the fields, the status too, and with crashes, but for the outcomes    *)
(* that IdentityInStep excuses.                                             *)
THEOREM StaysInStep == Spec => []IdentityInStep
  <1>1. Inv => IdentityInStep
    <2> SUFFICES ASSUME Inv, kind = "organization" PROVE IdentityInStep
      BY DEF IdentityInStep
    <2>1. FiredInv /\ ActiveInv /\ ProvisionedInv /\ ForgottenInv
      BY DEF Inv, OrganizationInv
    <2>2. (Live /\ row.doc.status = "Active") => idp \/ chosen
      <3>1. ASSUME Live, row.doc.status = "Active" PROVE "Active" \in Held
        BY <3>1, HeldHas DEF Live
      <3> QED BY <2>1, <3>1, Zenon DEF ActiveInv
    <2>3. ASSUME \A i \in DOMAIN fired : ~Running(i)
          PROVE  /\ Live => go[1] = "ended"
                 /\ row.state = "gone" => go[2] = "ended" \/ "dropped" \in excuses
      <3>1. Live => Len(fired) = 1
        BY <2>1 DEF FiredInv, Live
      <3>2. row.state = "gone" => Len(fired) = 2 \/ "dropped" \in excuses
        BY <2>1 DEF FiredInv
      <3>3. \A i \in 1 .. Len(fired) : go[i] = "ended"
        BY <2>3 DEF Running, Inv, Types, GoTypes
      <3> QED BY <3>1, <3>2, <3>3
    <2>4. ASSUME \A i \in DOMAIN fired : ~Running(i), Live
          PROVE  \/ row.doc.status \in {"Active", "Failed"} \/ astray
                 \/ excuses \cap {"crashed", "unwritten"} # {}
      BY <2>1, <2>3, <2>4, Zenon DEF ProvisionedInv
    <2>5. ASSUME \A i \in DOMAIN fired : ~Running(i), row.state = "gone"
          PROVE  ~idp \/ excuses \cap {"crashed", "kept", "overtaken", "dropped"} # {}
      BY <2>1, <2>3, <2>5 DEF ForgottenInv
    <2> QED BY <2>2, <2>4, <2>5, Zenon DEF IdentityInStep
  <1> QED BY <1>1, Invariant, PTL

(* The FailureCount of a webhook, which deliver writes after its POST, is   *)
(* never more than the POSTs that failed, unless a client chose it.         *)
(* Between deliveries it is the number of those since the last success,     *)
(* unless one came across another delivery or an update, its UPDATE failed  *)
(* or the process crashed before it, and no delivery alone has succeeded    *)
(* since.                                                                   *)
THEOREM CountsRight == Spec => []FailureCountIsRight
  <1>1. Inv => FailureCountIsRight
    <2> SUFFICES ASSUME Inv, kind = "webhook", Live PROVE FailureCountIsRight
      BY Zenon DEF FailureCountIsRight
    <2>1. CountInv /\ StreakInv(row.doc.status)
      BY Zenon DEF Inv, WebhookInv
    <2>2. row.doc.status \in Held
      BY HeldHas DEF Live
    <2> QED BY <2>1, <2>2, Zenon DEF FailureCountIsRight, CountInv, StreakInv
  <1> QED BY <1>1, Invariant, PTL

----------------------------------------------------------------------------
(* Updates *)

LEMMA OthersWait ==
  ASSUME ClientTypes, NEW b \in Clients, NEW c \in Clients, b # c, Effect(b)
  PROVE  pc'[c] = pc[c]
  BY Zenon DEF ClientTypes, Effect, Refused, Looked, Revealed, Created, Fetched, Updated, Replaced,
         Written, Patched, Marked, Removed, Settles

(* An update that is answered by 200 has replaced what it was based on. *)
LEMMA UpdateIsBased ==
  ASSUME Inv, NEW c \in Clients, Updated(c)
  PROVE  /\ \A f \in DOMAIN req[c].doc : row'.doc[f] = req[c].doc[f]
         /\ \A f \in DOMAIN row.doc \ DOMAIN req[c].doc :
              row'.doc[f] = row.doc[f] \/ (f \in {"status", "mark"} /\ c \in stale)
         /\ req[c].ver # None =>
              /\ row.doc.spec = shown[c].doc.spec /\ row.doc.fins = shown[c].doc.fins
              /\ kind # "secret" => row.doc.data = shown[c].doc.data
  <1>1. Updating(c) /\ Live /\ row.ver = read[c].ver /\ row'.doc = read[c].doc
    BY Zenon DEF Updated, Written
  <1>2. DOMAIN row.doc = Fields
    BY <1>1, DocFields, Zenon DEF Live, Inv, Types, RowTypes
  <1>3. ReadInv /\ VersionInv
    BY Zenon DEF Inv, HandlersInv
  <1>4. \A f \in DOMAIN req[c].doc : row'.doc[f] = req[c].doc[f]
    BY <1>1, <1>3, Zenon DEF ReadInv
  <1>5. \A f \in DOMAIN row.doc \ DOMAIN req[c].doc :
          row'.doc[f] = row.doc[f] \/ (f \in {"status", "mark"} /\ c \in stale)
    BY <1>1, <1>2, <1>3, Zenon DEF ReadInv
  <1>6. ASSUME req[c].ver # None
        PROVE  /\ row.doc.spec = shown[c].doc.spec /\ row.doc.fins = shown[c].doc.fins
               /\ kind # "secret" => row.doc.data = shown[c].doc.data
    <2>1. shown[c] # None /\ shown[c].ver = row.ver
      BY <1>1, <1>3, <1>6, Zenon DEF ReadInv
    <2>2. Sees(c, row.doc)
      BY <1>3, <2>1, Zenon DEF VersionInv, Fits
    <2> QED BY <2>2 DEF Sees
  <1> QED BY <1>4, <1>5, <1>6, Zenon

(* A PUT that succeeds (updateSecret, updatePolicy and their like) writes    *)
(* what its body names and leaves every other field as it was, but for a     *)
(* status or a deletion timestamp that was written between the read and the  *)
(* write of the handler.  If it sends the version that its client was shown, *)
(* then the specification and the finalizers that it replaces are the ones   *)
(* that were shown.                                                          *)
THEOREM UpdatesAreKept == Spec => NoLostUpdate
  <1> DEFINE Kept(c) ==
        (pc[c] = "update" /\ pc'[c] = "idle" /\ code' = "200") =>
          /\ \A f \in DOMAIN req[c].doc : row'.doc[f] = req[c].doc[f]
          /\ \A f \in DOMAIN row.doc \ DOMAIN req[c].doc :
               row'.doc[f] = row.doc[f] \/ (f \in {"status", "mark"} /\ c \in stale)
          /\ req[c].ver # None =>
               /\ row.doc.spec = shown[c].doc.spec /\ row.doc.fins = shown[c].doc.fins
               /\ kind # "secret" => row.doc.data = shown[c].doc.data
  <1>1. ASSUME Inv, [Next]_vars, NEW c \in Clients, pc[c] = "update", pc'[c] = "idle", code' = "200"
        PROVE  Updated(c)
    <2>1. CASE \E b \in Clients : Serve(b)
      <3>1. PICK b \in Clients : Serve(b)
        BY <2>1
      <3>2. Effect(b)
        BY <1>1, <3>1, HandleEffect DEF Serve, Inv, Types, RowTypes, ClientTypes
      <3>3. b = c
        BY <1>1, <3>2, OthersWait DEF Inv, Types
      <3> QED BY <1>1, <3>2, <3>3, Zenon
              DEF Effect, Refused, Looked, Revealed, Created, Fetched, Replaced, Patched, Marked, Removed
    <2>2. CASE \E i \in DOMAIN fired : ProvisionOrganization(i) \/ updateStatus(i) \/ onPostDelete(i)
      BY <1>1, <2>2, Zenon DEF ProvisionOrganization, updateStatus, onPostDelete, WriteStatus
    <2>3. CASE \E e \in Events : deliverEvent(e) \/ deliverGivesUp(e) \/ deliver(e)
      BY <1>1, <2>3 DEF deliverEvent, deliverGivesUp, deliver, WriteStatus, handlerVars
    <2>4. CASE \E e \in Events, ok \in BOOLEAN : deliverPosts(e, ok)
      BY <1>1, <2>4 DEF deliverPosts, handlerVars
    <2>5. CASE Crash
      BY <1>1, <2>5, HandlersAssumption DEF Crash
    <2>6. CASE UNCHANGED vars
      BY <1>1, <2>6 DEF vars, handlerVars
    <2> QED BY <1>1, <2>1, <2>2, <2>3, <2>4, <2>5, <2>6, Zenon DEF Next
  <1>2. Inv /\ [Next]_vars => [\A c \in Clients : Kept(c)]_handlerVars
    BY <1>1, UpdateIsBased
  <1> QED BY <1>2, Invariant, PTL DEF Spec, NoLostUpdate

=============================================================================
