------------------------------ MODULE Handlers ------------------------------
(***************************************************************************)
(* The request handlers of the kinds of resources: those of the platform   *)
(* providers and of the inventory example, the generic ones of             *)
(* api/handler.go and, over gRPC, of grpc/generic_server.go.               *)
(*                                                                         *)
(* Clients send requests about one resource, of a kind that Init chooses.  *)
(* A call of the store is one step, with the outcomes that GenericStore    *)
(* shows it to have; a handler that makes two calls takes two.  What a     *)
(* resource holds is a function of its fields: two of the specification,   *)
(* whether it has finalizers, whether its deletion was requested           *)
(* (deletion_timestamp), the status, and whether it is softly deleted      *)
(* (deleted_at).  A body is a function of the fields that it names, and    *)
(* perhaps a resource version.  A client may name any field.  The          *)
(* organization and the name, by which a body would be about another row,  *)
(* are those of the request.                                               *)
(***************************************************************************)
EXTENDS Integers, Sequences

CONSTANTS
  Kinds,        \* the kinds to consider
  Clients,
  Specs,        \* values of the field spec; the field data has them, too
  Counts,       \* failure counts that a body may name
  Named,        \* of each kind, the sets of fields that a client's own bodies name
  Firsts,       \* the versions that a POST may name, None for none
  Mask, None,
  MaxRequests,  \* bound: requests of all clients
  MaxFaults     \* bound: calls of the store that fail

Fields == {"spec", "data", "fins", "mark", "status", "gone"}

ASSUME HandlersAssumption ==
  /\ Kinds # {} /\ Mask \notin Specs
  /\ None \notin Nat \cup {"200", "post_create", "post_delete", "Pending", "Active"}
  /\ Counts \subseteq Nat /\ Named \in [Kinds -> SUBSET SUBSET Fields] /\ Firsts \subseteq Nat \cup {None}
  /\ MaxRequests \in Nat /\ MaxFaults \in Nat

VARIABLES
  kind,      \* the kind of resource this is about
  row,       \* its row: "none", "live" or, softly deleted, "gone"; version and fields
  pc,        \* where each client's request is
  req,       \* the body it sent
  read,      \* the row its handler has read
  code,      \* the last answer's code
  shown,     \* the resource as it was last shown to the client
  plain,     \* history: clients shown a secret by reveal
  stale,     \* history: clients whose handler read the row before its status or mark was
             \* written, which leaves the version as it is
  fired,     \* reactions fired, in order
  requests,  \* history: requests so far
  faults     \* history: calls of the store that failed

handlerVars == <<row, pc, req, read, code, shown, plain, stale, fired, requests, faults>>

Live == row.state = "live"
NoBody == <<>>

(* Redacted of a secret. *)
Redacted(d) == [d EXCEPT !.data = Mask]

(* A view of a resource: "redacted" or "plain". *)
View(v, d) == IF v = "redacted" THEN Redacted(d) ELSE d

(* Fields decoded over those that are there. *)
Over(b, d) == [f \in DOMAIN b \cup DOMAIN d |-> IF f \in DOMAIN b THEN b[f] ELSE d[f]]

(* A body decoded over the resource that was read.                          *)
(* Mutant: without the version it holds.                                    *)
Decode_Version(b, r) == [ver |-> r.ver, doc |-> Over(b.doc, r.doc)]

Decode(b, r) == [ver |-> IF b.ver = None THEN r.ver ELSE b.ver, doc |-> Over(b.doc, r.doc)]

(* The same over nothing: what a body does not name has its zero value. *)
Alone(b) == [ver |-> IF b.ver = None THEN 0 ELSE b.ver,
             doc |-> Over(b.doc, [spec |-> None, data |-> None, fins |-> FALSE, mark |-> FALSE,
                                   status |-> None, gone |-> FALSE])]

(* A resource as JSON.  No finalizers and no deletion timestamp are omitted. *)
Encode(d) == [f \in {g \in DOMAIN d : g \in {"fins", "mark"} => d[g]} |-> d[f]]

(* The values that a client may give a field, and the parts of a resource   *)
(* that it may make up.                                                     *)
Values(f) ==
  CASE f \in {"spec", "data"} -> Specs
    [] f \in {"fins", "mark", "gone"} -> BOOLEAN
    [] f = "status" -> IF kind = "webhook" THEN Counts ELSE {"Pending", "Active", "Failed"}

Parts ==
  UNION {{d \in [F -> UNION {Values(f) : f \in F}] : \A f \in F : d[f] \in Values(f)} : F \in Named[kind]}

(* The bodies of a PUT: of the client's own making, with the version that it *)
(* was shown or without one, or all that it was shown, edited.               *)
Versions(c) == IF shown[c] = None THEN {None} ELSE {None, shown[c].ver}

Edits(c) ==
  IF shown[c] = None THEN {}
    ELSE {[ver |-> shown[c].ver, doc |-> Over([spec |-> v], Encode(shown[c].doc))] : v \in Specs}

Bodies(c) == [ver : Versions(c), doc : Parts] \cup Edits(c)

(* The bodies of a POST name the specification, at least. *)
NewBodies == {[ver |-> n, doc |-> Over(d, [spec |-> v, data |-> v])] : n \in Firsts, d \in Parts, v \in Specs}

----------------------------------------------------------------------------
(* Steps that the handlers are made of. *)

Request(c, k) ==
  /\ kind = k /\ pc[c] = "idle" /\ requests < MaxRequests
  /\ requests' = requests + 1

(* The handler answers.  doc is what it shows, if anything. *)
Reply(c, status, ver, doc) ==
  /\ pc' = [pc EXCEPT ![c] = "idle"]
  /\ code' = status
  /\ shown' = IF doc = None THEN shown ELSE [shown EXCEPT ![c] = [ver |-> ver, doc |-> doc]]
  /\ plain' = IF doc = None THEN plain ELSE plain \ {c}
  /\ req' = [req EXCEPT ![c] = NoBody] /\ read' = [read EXCEPT ![c] = NoBody]

Answer(c, status, ver, doc) ==
  Reply(c, status, ver, doc) /\ stale' = stale \ {c}

Refuse(c, status) ==
  Answer(c, status, None, None) /\ UNCHANGED <<row, fired>>

(* A call of the store fails, which the handler answers with status. *)
StoreFails(c, status) ==
  faults < MaxFaults /\ faults' = faults + 1 /\ Refuse(c, status)

(* store.Get, or store.List, for the answer. *)
Show(c, k, view, failed) ==
  /\ Request(c, k)
  /\ \/ /\ Live /\ Answer(c, "200", row.ver, View(view, row.doc))
        /\ UNCHANGED <<row, fired, faults>>
     \/ ~Live /\ Refuse(c, "404") /\ UNCHANGED faults
     \/ StoreFails(c, failed)

(* hooks.FireAsync starts the goroutines of the event's reactions. *)
FireAsync(event) == fired' = IF event = None THEN fired ELSE Append(fired, event)

(* A row that is written with deleted_at is softly deleted by that. *)
State(d) == IF d.gone THEN "gone" ELSE "live"

(* BeforeCreate of resource/model.go. *)
BeforeCreate(v) == IF v = 0 THEN 1 ELSE v

(* Decode a new resource, set its status if the handler does, store.Create. *)
Insert(c, k, status, view, failed, event) ==
  /\ Request(c, k)
  /\ \/ \E b \in NewBodies :
          LET ver == BeforeCreate(Alone(b).ver)
              new == Over(IF status = None THEN NoBody ELSE [status |-> status], Alone(b).doc)
          IN  /\ row.state = "none"
              /\ row' = [state |-> State(new), ver |-> ver, doc |-> new]
              /\ FireAsync(event)
              /\ Answer(c, "201", ver, View(view, new))
              /\ UNCHANGED faults
     \/ row.state # "none" /\ Refuse(c, "409") /\ UNCHANGED faults
     \/ Refuse(c, "400") /\ UNCHANGED faults
     \/ StoreFails(c, failed)

(* The first half of an update: store.Get and the body decoded over it. *)
ReadForUpdate(c, k, failed) ==
  /\ Request(c, k)
  /\ \/ \E b \in Bodies(c) :
          /\ Live
          /\ pc' = [pc EXCEPT ![c] = "update"]
          /\ req' = [req EXCEPT ![c] = b] /\ read' = [read EXCEPT ![c] = Decode(b, row)]
          /\ UNCHANGED <<row, code, shown, plain, stale, fired, faults>>
     \/ ~Live /\ Refuse(c, "404") /\ UNCHANGED faults
     \/ Live /\ Refuse(c, "400") /\ UNCHANGED faults
     \/ StoreFails(c, failed)

(* Its second half: store.Update, which compares versions. *)
SameVersion(v) == row.ver = v

(* The version that an update writes.  Mutant: the same. *)
NextVersion_Same(v) == v

NextVersion(v) == v + 1

Write(c, new, gone, view) ==
  \/ /\ Live /\ SameVersion(new.ver)
     /\ row' = [state |-> State(new.doc), ver |-> NextVersion(new.ver), doc |-> new.doc]
     /\ Answer(c, "200", NextVersion(new.ver), View(view, new.doc))
     /\ UNCHANGED <<fired, faults>>
  \/ Live /\ ~SameVersion(new.ver) /\ Refuse(c, "409") /\ UNCHANGED faults
  \/ ~Live /\ Refuse(c, gone) /\ UNCHANGED faults
  \/ StoreFails(c, "500")

Update(c, k, failed, view) ==
  \/ ReadForUpdate(c, k, failed)
  \/ /\ kind = k /\ pc[c] = "update"
     /\ Write(c, read[c], "500", view)
     /\ UNCHANGED requests

(* store.Delete writes the deletion timestamp, and no version. *)
MarkWritten(c) ==
  /\ row' = [row EXCEPT !.doc.mark = TRUE]
  /\ stale' = {b \in Clients : b # c /\ pc[b] = "update"}

(* store.Delete, which leaves a resource that has finalizers marked.  The    *)
(* answer is pending then.  event is fired once the row is deleted.          *)
Remove(c, k, pending, missing, failed, event) ==
  /\ Request(c, k)
  /\ \/ /\ Live /\ row.doc.fins
        /\ MarkWritten(c)
        /\ Reply(c, pending, None, None) /\ UNCHANGED <<fired, faults>>
     \/ /\ Live /\ ~row.doc.fins
        /\ row' = [row EXCEPT !.state = "gone"]
        /\ FireAsync(event)
        /\ Answer(c, "204", None, None) /\ UNCHANGED faults
     \/ ~Live /\ Refuse(c, missing) /\ UNCHANGED faults
     \/ StoreFails(c, failed)

----------------------------------------------------------------------------
(* Secrets: all answers but reveal's are redacted. *)

listSecrets(c) == Show(c, "secret", "redacted", "500")

getSecret(c) == Show(c, "secret", "redacted", "500")

revealSecret(c) ==
  /\ Request(c, "secret")
  /\ \/ /\ Live /\ shown' = [shown EXCEPT ![c] = [ver |-> row.ver, doc |-> row.doc]]
        /\ plain' = plain \cup {c}
        /\ code' = "200"
        /\ UNCHANGED <<row, pc, req, read, stale, fired, faults>>
     \/ ~Live /\ Refuse(c, "404") /\ UNCHANGED faults
     \/ StoreFails(c, "500")

createSecret(c) == Insert(c, "secret", "Active", "redacted", "500", None)

(* Mutant: the answer is the resource as it was stored. *)
updateSecret_Plain(c) == Update(c, "secret", "500", "plain")

updateSecret(c) == Update(c, "secret", "500", "redacted")

deleteSecret(c) == Remove(c, "secret", "500", "404", "500", None)

(* Policies. *)

listPolicies(c) == Show(c, "policy", "plain", "500")

getPolicy(c) == Show(c, "policy", "plain", "500")

createPolicy(c) == Insert(c, "policy", "Active", "plain", "500", None)

updatePolicy(c) == Update(c, "policy", "500", "plain")

deletePolicy(c) == Remove(c, "policy", "500", "404", "500", None)

(* The catalog.  Without ?all=true or a filter, the list is asked for by a   *)
(* column that the table does not have, and the query fails.                 *)

listCatalogItems(c) ==
  \/ Show(c, "catalog", "plain", "500")
  \/ Request(c, "catalog") /\ Refuse(c, "500") /\ UNCHANGED faults

getCatalogItem(c) == Show(c, "catalog", "plain", "500")

createCatalogItem(c) == Insert(c, "catalog", "Active", "plain", "500", None)

updateCatalogItem(c) == Update(c, "catalog", "500", "plain")

deleteCatalogItem(c) == Remove(c, "catalog", "500", "404", "500", None)

(* Tenants. *)

listTenants(c) == Show(c, "tenant", "plain", "500")

getTenant(c) == Show(c, "tenant", "plain", "500")

createTenant(c) == Insert(c, "tenant", "Pending", "plain", "500", None)

updateTenant(c) == Update(c, "tenant", "500", "plain")

deleteTenant(c) == Remove(c, "tenant", "202", "404", "500", None)

(* Organizations: reactions follow their creation and their deletion. *)

listOrganizations(c) == Show(c, "organization", "plain", "500")

getOrganization(c) == Show(c, "organization", "plain", "500")

createOrganization(c) == Insert(c, "organization", "Pending", "plain", "500", "post_create")

updateOrganization(c) == Update(c, "organization", "500", "plain")

(* Mutant: the reaction also follows a deletion that waits for finalizers. *)
deleteOrganization_Early(c) ==
  \/ Remove(c, "organization", "202", "404", "500", "post_delete")
  \/ /\ Request(c, "organization") /\ Live /\ row.doc.fins
     /\ fired' = Append(fired, "post_delete")
     /\ MarkWritten(c) /\ Reply(c, "202", None, None) /\ UNCHANGED faults

deleteOrganization(c) == Remove(c, "organization", "202", "404", "500", "post_delete")

(* Webhooks; the status is the number of failed deliveries. *)

listWebhooks(c) == Show(c, "webhook", "plain", "500")

getWebhook(c) == Show(c, "webhook", "plain", "500")

createWebhook(c) == Insert(c, "webhook", 0, "plain", "500", None)

updateWebhook(c) == Update(c, "webhook", "500", "plain")

deleteWebhook(c) == Remove(c, "webhook", "500", "404", "500", None)

(* The machines of the inventory example, whose handlers tell errors apart  *)
(* less.                                                                    *)

listMachines(c) == Show(c, "machine", "plain", "500")

getMachine(c) == Show(c, "machine", "plain", "404")

createMachine(c) == Insert(c, "machine", "Pending", "plain", "409", None)

updateMachine(c) == Update(c, "machine", "404", "plain")

deleteMachine(c) == Remove(c, "machine", "404", "404", "404", None)

(* crudHandler of api/handler.go: an update is the body and nothing else.    *)

crudList(c) == Show(c, "crud", "plain", "500")

crudGet(c) == Show(c, "crud", "plain", "500")

crudCreate(c) == Insert(c, "crud", None, "plain", "500", None)

crudUpdate(c) ==
  /\ Request(c, "crud")
  /\ \/ \E b \in Bodies(c) : Write(c, Alone(b), "404", "plain")
     \/ Refuse(c, "400") /\ UNCHANGED faults

crudDelete(c) == Remove(c, "crud", "500", "404", "500", None)

(* GenericServiceHandler; 200, 404 and so on stand for nil and the errors.   *)

grpcList(c) == Show(c, "grpc", "plain", "500")

grpcGet(c) == Show(c, "grpc", "plain", "500")

grpcCreate(c) == Insert(c, "grpc", None, "plain", "500", None)

grpcUpdate(c) ==
  /\ Request(c, "grpc")
  /\ \/ \E b \in Bodies(c) : Write(c, Alone(b), "404", "plain")
     \/ Refuse(c, "400") /\ UNCHANGED faults

(* store.PartialUpdate with the version that the client was shown, and then  *)
(* store.Get for the answer.                                                 *)
grpcPartialUpdate(c) ==
  \/ /\ Request(c, "grpc") /\ shown[c] # None
     /\ \/ \E d \in Parts : LET new == Over(d, row.doc) IN
             /\ Live /\ SameVersion(shown[c].ver)
             /\ row' = [state |-> State(new), ver |-> NextVersion(shown[c].ver), doc |-> new]
             /\ pc' = [pc EXCEPT ![c] = "reread"]
             /\ UNCHANGED <<req, read, code, shown, plain, stale, fired, faults>>
        \/ Live /\ ~SameVersion(shown[c].ver) /\ Refuse(c, "409") /\ UNCHANGED faults
        \/ ~Live /\ Refuse(c, "404") /\ UNCHANGED faults
        \/ StoreFails(c, "500")
  \/ /\ pc[c] = "reread"
     /\ \/ Live /\ Answer(c, "200", row.ver, row.doc) /\ UNCHANGED faults
        \/ ~Live /\ Answer(c, "404", None, None) /\ UNCHANGED faults
        \/ /\ faults < MaxFaults /\ faults' = faults + 1
           /\ Answer(c, "500", None, None)
     /\ UNCHANGED <<row, fired, requests>>

grpcDelete(c) == Remove(c, "grpc", "204", "404", "500", None)

----------------------------------------------------------------------------

HandlersInit ==
  /\ kind \in Kinds
  /\ row = [state |-> "none", ver |-> 0, doc |-> NoBody]
  /\ pc = [c \in Clients |-> "idle"] /\ req = [c \in Clients |-> NoBody]
  /\ read = [c \in Clients |-> NoBody]
  /\ code = None
  /\ shown = [c \in Clients |-> None] /\ plain = {} /\ stale = {}
  /\ fired = <<>> /\ requests = 0 /\ faults = 0

(* What RegisterRoutes of each provider offers, RegisterCRUDRoutes, and the  *)
(* methods of GenericServiceHandler.                                         *)

SecretRoutes(c) ==
  \/ listSecrets(c) \/ createSecret(c) \/ getSecret(c) \/ updateSecret(c) \/ deleteSecret(c)
  \/ revealSecret(c)

PolicyRoutes(c) ==
  \/ listPolicies(c) \/ createPolicy(c) \/ getPolicy(c) \/ updatePolicy(c) \/ deletePolicy(c)

CatalogRoutes(c) ==
  \/ listCatalogItems(c) \/ createCatalogItem(c) \/ getCatalogItem(c) \/ updateCatalogItem(c)
  \/ deleteCatalogItem(c)

TenantRoutes(c) ==
  \/ listTenants(c) \/ createTenant(c) \/ getTenant(c) \/ updateTenant(c) \/ deleteTenant(c)

OrganizationRoutes(c) ==
  \/ listOrganizations(c) \/ createOrganization(c) \/ getOrganization(c) \/ updateOrganization(c)
  \/ deleteOrganization(c)

WebhookRoutes(c) ==
  \/ listWebhooks(c) \/ createWebhook(c) \/ getWebhook(c) \/ updateWebhook(c) \/ deleteWebhook(c)

InventoryRoutes(c) ==
  \/ listMachines(c) \/ createMachine(c) \/ getMachine(c) \/ updateMachine(c) \/ deleteMachine(c)

CRUDRoutes(c) == crudList(c) \/ crudCreate(c) \/ crudGet(c) \/ crudUpdate(c) \/ crudDelete(c)

GenericService(c) ==
  \/ grpcCreate(c) \/ grpcGet(c) \/ grpcList(c) \/ grpcUpdate(c) \/ grpcPartialUpdate(c)
  \/ grpcDelete(c)

Handle(c) ==
  \/ SecretRoutes(c) \/ PolicyRoutes(c) \/ CatalogRoutes(c) \/ TenantRoutes(c)
  \/ OrganizationRoutes(c) \/ WebhookRoutes(c) \/ InventoryRoutes(c) \/ CRUDRoutes(c)
  \/ GenericService(c)

----------------------------------------------------------------------------

(* Versions identify what clients see: two answers with the same version     *)
(* show the same specification and finalizers, whoever wrote them, and       *)
(* whether they come from a read or from a write.  The status and the        *)
(* deletion timestamp, which are also written without a new version, may     *)
(* differ.                                                                   *)
ShownVersionsAgree ==
  \A b, c \in Clients :
    (shown[b] # None /\ shown[c] # None /\ shown[b].ver = shown[c].ver /\ (b \in plain <=> c \in plain))
      => \A f \in {"spec", "data", "fins"} : shown[b].doc[f] = shown[c].doc[f]

(* What a PUT that is answered by 200 does to the row it finds.  It writes   *)
(* what its body names.  What the body does not name stays as it is, but for *)
(* a status or a deletion timestamp that was written after the handler's     *)
(* read, which the write undoes.  If the body holds the version that its     *)
(* client was shown, the specification and the finalizers it replaces are    *)
(* those that the client was shown.  That does not hold of the status: a     *)
(* body names it, if it is made of what the client was shown, and so it      *)
(* undoes whatever was written there since.                                  *)
NoLostUpdate ==
  [][\A c \in Clients : (pc[c] = "update" /\ pc'[c] = "idle" /\ code' = "200") =>
       /\ \A f \in DOMAIN req[c].doc : row'.doc[f] = req[c].doc[f]
       /\ \A f \in DOMAIN row.doc \ DOMAIN req[c].doc :
            row'.doc[f] = row.doc[f] \/ (f \in {"status", "mark"} /\ c \in stale)
       /\ req[c].ver # None =>
            /\ row.doc.spec = shown[c].doc.spec /\ row.doc.fins = shown[c].doc.fins
            /\ kind # "secret" => row.doc.data = shown[c].doc.data]_handlerVars

(* What a secret holds is shown in the answer of reveal and in no other, and *)
(* so the mask takes its place only if a client sends back what it was shown. *)
SecretsAreMasked ==
  kind = "secret" => \A c \in Clients : shown[c] = None \/ c \in plain \/ shown[c].doc.data = Mask

=============================================================================
