----------------------------- MODULE Reactions ------------------------------
(***************************************************************************)
(* What follows requests in goroutines of their own: the reactions that    *)
(* FireAsync of provider/hooks.go starts, with which                       *)
(* platform/organization/provider.go keeps an identity provider in step,   *)
(* and the deliveries of platform/webhook/provider.go.  Both write the     *)
(* status column and leave the resource version as it is.                  *)
(*                                                                         *)
(* The identity provider and the receiver of a webhook are external: they  *)
(* answer, or fail, or fail after they have done what they were asked.     *)
(***************************************************************************)
EXTENDS Handlers

CONSTANTS
  Off,          \* values of the field data with which a webhook is not active
  Events,       \* events that come from the bus
  Wanted,       \* those that the webhook's filter matches
  MaxCrashes    \* bound: crashes of the process

ASSUME ReactionsAssumption == Wanted \subseteq Events /\ MaxCrashes \in Nat

VARIABLES
  go,         \* the goroutine of each reaction: "start", "ok", "err" or "ended"
  idp,        \* the organization exists in the identity provider
  delivery,   \* of each event: "none", "start", after the POST "ok" or "err", or "ended"
  count,      \* the FailureCount that it has read
  streak,     \* history: POSTs that failed since the last that did not
  failed,     \* history: POSTs that failed
  crossed,    \* history: deliveries under way that another write or POST came across
  astray,     \* history: the status is not what the last goroutine would have it
  chosen,     \* history: a client's update wrote a status that the client was not shown
  excuses,    \* history: what went wrong with the reactions
  crashes     \* history: crashes

deliveryVars == <<delivery, count, streak, failed, crossed>>
reactVars == <<go, idp, deliveryVars, astray, chosen, excuses, crashes>>
vars == <<kind, handlerVars, reactVars>>

Running(i) == i \in DOMAIN fired /\ go[i] # "ended"

(* An UPDATE of the status column, which touches no row that is deleted. *)
WriteStatus(s) ==
  /\ row' = IF Live THEN [row EXCEPT !.doc.status = s] ELSE row
  /\ stale' = IF Live THEN {c \in Clients : pc[c] = "update"} ELSE stale
  /\ UNCHANGED <<kind, pc, req, read, code, shown, plain, fired, requests>>

----------------------------------------------------------------------------
(* The reactions of the organization provider. *)

(* onPostCreate asks the identity provider for the organization. *)
ProvisionOrganization(i) ==
  /\ Running(i) /\ fired[i] = "post_create" /\ go[i] = "start"
  /\ \/ idp' = TRUE /\ go' = [go EXCEPT ![i] = "ok"] /\ UNCHANGED faults
     \/ /\ faults < MaxFaults /\ faults' = faults + 1
        /\ idp' \in {idp, TRUE} /\ go' = [go EXCEPT ![i] = "err"]
  /\ excuses' = IF \E j \in DOMAIN fired : fired[j] = "post_delete" /\ go[j] = "ended"
                  THEN excuses \cup {"overtaken"} ELSE excuses
  /\ UNCHANGED <<kind, row, pc, req, read, code, shown, plain, stale, fired, requests, deliveryVars,
                 astray, chosen, crashes>>

(* Then it writes the outcome; an error of that is ignored. *)
updateStatus(i) ==
  /\ Running(i) /\ go[i] \in {"ok", "err"}
  /\ go' = [go EXCEPT ![i] = "ended"]
  /\ \/ /\ WriteStatus(IF go[i] = "ok" THEN "Active" ELSE "Failed")
        /\ astray' = FALSE /\ UNCHANGED <<faults, excuses>>
     \/ /\ faults < MaxFaults /\ faults' = faults + 1
        /\ excuses' = excuses \cup {"unwritten"}
        /\ UNCHANGED <<kind, row, pc, req, read, code, shown, plain, stale, fired, requests, astray>>
  /\ UNCHANGED <<idp, deliveryVars, chosen, crashes>>

(* onPostDelete; an error is only logged. *)
onPostDelete(i) ==
  /\ Running(i) /\ fired[i] = "post_delete"
  /\ go' = [go EXCEPT ![i] = "ended"]
  /\ \/ idp' = FALSE /\ UNCHANGED <<faults, excuses>>
     \/ /\ faults < MaxFaults /\ faults' = faults + 1
        /\ idp' \in {idp, FALSE} /\ excuses' = excuses \cup {"kept"}
  /\ UNCHANGED <<kind, row, pc, req, read, code, shown, plain, stale, fired, requests, deliveryVars,
                 astray, chosen, crashes>>

----------------------------------------------------------------------------
(* The deliveries of the webhook provider. *)

(* deliverEvent reads the webhook, and starts deliver if it is concerned.  If *)
(* the query fails, the event is dropped.                                     *)
matchesFilter(e) == e \in Wanted

deliverEvent(e) ==
  /\ kind = "webhook" /\ delivery[e] = "none"
  /\ \/ /\ Live /\ row.doc.data \notin Off /\ matchesFilter(e)
        /\ delivery' = [delivery EXCEPT ![e] = "start"]
        /\ count' = [count EXCEPT ![e] = row.doc.status]
        /\ UNCHANGED faults
     \/ /\ ~(Live /\ row.doc.data \notin Off /\ matchesFilter(e))
        /\ delivery' = [delivery EXCEPT ![e] = "ended"] /\ UNCHANGED <<count, faults>>
     \/ /\ faults < MaxFaults /\ faults' = faults + 1
        /\ delivery' = [delivery EXCEPT ![e] = "ended"] /\ UNCHANGED count
  /\ UNCHANGED <<kind, row, pc, req, read, code, shown, plain, stale, fired, requests, go, idp,
                 streak, failed, crossed, astray, chosen, excuses, crashes>>

(* The deliveries that are under way, and those between POST and UPDATE. *)
UnderWay == {e \in Events : delivery[e] \in {"start", "ok", "err"}}
Posted == {e \in Events : delivery[e] \in {"ok", "err"}}

(* deliver gives up if the event cannot be encoded or the URL is none. *)
deliverGivesUp(e) ==
  /\ delivery[e] = "start"
  /\ delivery' = [delivery EXCEPT ![e] = "ended"]
  /\ crossed' = crossed \ {e}
  /\ UNCHANGED <<kind, handlerVars, go, idp, count, streak, failed, astray, chosen, excuses, crashes>>

(* Its POST, which the receiver may refuse or not answer. *)
deliverPosts(e, ok) ==
  /\ delivery[e] = "start"
  /\ delivery' = [delivery EXCEPT ![e] = IF ok THEN "ok" ELSE "err"]
  /\ streak' = IF ok THEN 0 ELSE streak + 1
  /\ failed' = IF ok THEN failed ELSE failed + 1
  /\ crossed' = crossed \cup (UnderWay \ {e})
  /\ UNCHANGED <<kind, handlerVars, go, idp, count, astray, chosen, excuses, crashes>>

(* Mutant: a success does not start the count anew. *)
failureCount_NoReset(n, ok) == IF ok THEN n ELSE n + 1

failureCount(n, ok) == IF ok THEN 0 ELSE n + 1

(* Its UPDATE, from the count that was read; an error is ignored.  The count *)
(* goes astray if it is not written, or anything came across the delivery;   *)
(* a success sets it right otherwise.                                        *)
deliver(e) ==
  /\ delivery[e] \in {"ok", "err"}
  /\ delivery' = [delivery EXCEPT ![e] = "ended"]
  /\ \/ /\ WriteStatus(failureCount(count[e], delivery[e] = "ok")) /\ UNCHANGED faults
        /\ astray' = (e \in crossed \/ (astray /\ delivery[e] = "err"))
     \/ /\ faults < MaxFaults /\ faults' = faults + 1 /\ astray' = TRUE
        /\ UNCHANGED <<kind, row, pc, req, read, code, shown, plain, stale, fired, requests>>
  /\ crossed' = (crossed \cup UnderWay) \ {e}
  /\ UNCHANGED <<go, idp, count, streak, failed, chosen, excuses, crashes>>

----------------------------------------------------------------------------

(* The process crashes while goroutines run: they are gone, and requests are  *)
(* not answered.                                                             *)
Crash ==
  /\ crashes < MaxCrashes /\ crashes' = crashes + 1
  /\ (\E i \in DOMAIN fired : Running(i)) \/ UnderWay # {}
  /\ code' = None
  /\ pc' = [c \in Clients |-> "idle"] /\ stale' = {}
  /\ req' = [c \in Clients |-> NoBody] /\ read' = [c \in Clients |-> NoBody]
  /\ excuses' = IF \E i \in DOMAIN fired : Running(i) THEN excuses \cup {"crashed"} ELSE excuses
  /\ go' = [i \in DOMAIN go |-> IF i \in DOMAIN fired THEN "ended" ELSE "start"]
  /\ delivery' = [e \in Events |-> IF e \in UnderWay THEN "ended" ELSE delivery[e]]
  /\ astray' = (astray \/ Posted # {}) /\ crossed' = {}
  /\ UNCHANGED <<kind, row, shown, plain, fired, requests, faults, idp, count, streak, failed, chosen>>

Init ==
  /\ HandlersInit
  /\ go = [i \in 1 .. MaxRequests |-> "start"] /\ idp = FALSE
  /\ delivery = [e \in Events |-> "none"] /\ count = [e \in Events |-> 0]
  /\ streak = 0 /\ failed = 0 /\ crossed = {} /\ astray = FALSE /\ chosen = FALSE
  /\ excuses = {} /\ crashes = 0

(* The body that c's handler has read names a status that c was not shown. *)
Chooses(c) ==
  /\ "status" \in DOMAIN req[c].doc
  /\ shown[c] = None \/ shown[c].doc.status # req[c].doc.status

(* A request.  The history notes what an update does to the status, and that *)
(* a row is deleted by what its body says.                                   *)
Serve(c) ==
  /\ Handle(c)
  /\ LET changed == Live /\ row'.doc.status # row.doc.status IN
       /\ astray' = (astray \/ changed)
       /\ chosen' = (chosen \/ (changed /\ pc[c] = "update" /\ Chooses(c)))
       /\ crossed' = IF changed THEN crossed \cup UnderWay ELSE crossed
  /\ excuses' = IF row'.state = "gone" /\ row'.doc.gone THEN excuses \cup {"dropped"} ELSE excuses
  /\ UNCHANGED <<kind, go, idp, delivery, count, streak, failed, crashes>>

Next ==
  \/ \E c \in Clients : Serve(c)
  \/ \E i \in DOMAIN fired : ProvisionOrganization(i) \/ updateStatus(i) \/ onPostDelete(i)
  \/ \E e \in Events : deliverEvent(e) \/ deliverGivesUp(e) \/ deliver(e)
  \/ \E e \in Events, ok \in BOOLEAN : deliverPosts(e, ok)
  \/ Crash

Spec == Init /\ [][Next]_vars

----------------------------------------------------------------------------

(* The identity provider is in step with the organizations.  An organization *)
(* that is Active exists there, unless the status is a client's own.  Once   *)
(* the reactions are over, one that is live is Active or Failed, and one     *)
(* that is deleted is gone there, too, unless the process crashed, an error  *)
(* was only logged, the reaction to the deletion overtook that to the        *)
(* creation, or an update wrote the status or the deletion itself.           *)
IdentityInStep ==
  kind = "organization" =>
    /\ (Live /\ row.doc.status = "Active") => idp \/ chosen
    /\ (\A i \in DOMAIN fired : ~Running(i)) =>
         /\ Live => \/ row.doc.status \in {"Active", "Failed"} \/ astray
                    \/ excuses \cap {"crashed", "unwritten"} # {}
         /\ row.state = "gone" =>
              ~idp \/ excuses \cap {"crashed", "kept", "overtaken", "dropped"} # {}

(* A webhook's FailureCount never exceeds the POSTs that failed, unless it   *)
(* is a client's own.  When no delivery is between its POST and its UPDATE,  *)
(* it is the number of those that failed since the last that did not, unless *)
(* an update wrote it, an UPDATE failed or was lost in a crash, or two       *)
(* deliveries came across each other, with no success of one alone since.    *)
(* Deliveries that deliver gives up are not counted.                         *)
FailureCountIsRight ==
  (kind = "webhook" /\ Live) =>
    /\ row.doc.status <= failed \/ chosen
    /\ Posted = {} => row.doc.status = streak \/ astray

=============================================================================
