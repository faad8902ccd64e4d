----------------------------- MODULE Lifecycle -----------------------------
(***************************************************************************)
(* The life of the server process (cmd/infractl-server/main.go): providers *)
(* are registered, ordered by a depth-first search over their              *)
(* dependencies, initialized in that order, served over HTTP, and on       *)
(* SIGTERM shut down in reverse (provider/registry.go, api/server.go).     *)
(* Any step may fail; a failure before serving ends the process.           *)
(***************************************************************************)
EXTENDS Integers, Sequences, Functions

CONSTANTS
  Names,      \* provider names
  Features,   \* feature names
  Listings,   \* the ways the profile and the configuration list providers
  Graphs,     \* the dependencies that providers may declare
  Claims      \* the features that providers may declare

ASSUME LifecycleAssumption ==
  /\ Listings \subseteq [Names -> 0 .. 2]
  /\ Graphs \subseteq [Names -> SUBSET Names]
  /\ Claims \subseteq [Names -> SUBSET Features]

VARIABLES
  deps,       \* p.Dependencies()
  feats,      \* p.Features()
  listed,     \* how often each name is still to be registered
  phase,      \* how far main has come
  err,        \* why the process ended, or "none"
  providers,  \* r.providers
  owner,      \* r.features, as a set of <<feature, provider>>
  visited,    \* of the search: 0 unvisited, 1 in progress, 2 done
  stack,      \* calls of visit that have not returned, innermost last
  rest,       \* the dependencies each call has yet to look at
  order,      \* r.order
  up,         \* how many of order are initialized
  halted,     \* the providers whose Shutdown returned, in that order
  accepting   \* the http.Servers that accept connections

configVars == <<deps, feats>>
registerVars == <<listed, providers, owner>>
searchVars == <<visited, stack, rest, order>>
vars == <<configVars, registerVars, searchVars, up, halted, accepting, phase, err>>

(* The server ListenAndServe builds and runs, and the one HTTPServer builds  *)
(* and main shuts down.                                                      *)
ListenServer == "ListenAndServe"
HandleServer == "HTTPServer"

(* Providers that are initialized and not shut down. *)
Up == {order[i] : i \in 1 .. up} \ Range(halted)

(* A feature of p is taken. *)
Conflict(p) == \E f \in feats[p], q \in Names : <<f, q>> \in owner

(* Of calls that have not returned, the innermost, and those around it. *)
Innermost(s) == s[Len(s)]

Outer(s) == SubSeq(s, 1, Len(s) - 1)

(* The mark of a call that returned.  Mutant: it stays in progress. *)
Done_Never == 1

Done == 2

(* What is left to look at after q. *)
Without(ds, q) == ds \ {q}

(* What is left to look at when visit begins.  Mutant: nothing, the          *)
(* dependencies are left to the loop over all providers.                     *)
Begin_Shallow(p) == {}

Begin(p) == deps[p]

(* The loop over r.providers is over. *)
AllVisited == \A p \in providers : visited[p] # 0

(* InitAll's loop goes on. *)
MoreToInit == up < Len(order)

(* The provider ShutdownAll comes to next.  Mutant: in order of init. *)
NextDown_Forward == order[Len(halted) + 1]

NextDown == order[Len(order) - Len(halted)]

----------------------------------------------------------------------------

Init ==
  /\ deps \in Graphs /\ feats \in Claims /\ listed \in Listings
  /\ phase = "register" /\ err = "none"
  /\ providers = {} /\ owner = {}
  /\ visited = [p \in Names |-> 0] /\ rest = [p \in Names |-> {}]
  /\ stack = <<>> /\ order = <<>>
  /\ up = 0 /\ halted = <<>> /\ accepting = {}

(* logger.Fatal: the process exits at once. *)
Fatal(why) == phase' = "exited" /\ err' = why

Register(p) ==
  /\ phase = "register" /\ listed[p] > 0
  /\ listed' = [listed EXCEPT ![p] = @ - 1]
  /\ \/ p \in providers /\ Fatal("duplicate") /\ UNCHANGED <<providers, owner>>
     \/ /\ p \notin providers
        /\ providers' = providers \cup {p}
        /\ \/ Conflict(p) /\ Fatal("conflict") /\ UNCHANGED owner
           \/ ~Conflict(p) /\ owner' = owner \cup (feats[p] \X {p}) /\ UNCHANGED <<phase, err>>
  /\ UNCHANGED <<configVars, searchVars, up, halted, accepting>>

(* Everything is registered, and InitAll begins to resolve. *)
Resolve ==
  /\ phase = "register" /\ \A p \in Names : listed[p] = 0
  /\ phase' = "resolve"
  /\ UNCHANGED <<configVars, registerVars, searchVars, up, halted, accepting, err>>

(* visit(p), where p is unvisited. *)
Enter(p, newRest) ==
  /\ visited' = [visited EXCEPT ![p] = 1]
  /\ stack' = Append(stack, p)
  /\ rest' = [newRest EXCEPT ![p] = Begin(p)]
  /\ UNCHANGED <<order, phase, err>>

(* The loop over r.providers, in any order: it is a map. *)
VisitRoot(p) ==
  /\ phase = "resolve" /\ stack = <<>>
  /\ p \in providers /\ visited[p] = 0
  /\ Enter(p, rest)
  /\ UNCHANGED <<configVars, registerVars, up, halted, accepting>>

(* The innermost visit looks at its dependency q. *)
VisitDependency(q) ==
  /\ phase = "resolve" /\ stack # <<>>
  /\ q \in rest[Innermost(stack)]
  /\ LET left == [rest EXCEPT ![Innermost(stack)] = Without(@, q)] IN
       \/ q \notin providers /\ Fatal("missing") /\ UNCHANGED searchVars
       \/ q \in providers /\ visited[q] = 1 /\ Fatal("circular") /\ UNCHANGED searchVars
       \/ /\ q \in providers /\ visited[q] = 2
          /\ rest' = left
          /\ UNCHANGED <<visited, stack, order, phase, err>>
       \/ q \in providers /\ visited[q] = 0 /\ Enter(q, left)
  /\ UNCHANGED <<configVars, registerVars, up, halted, accepting>>

(* The innermost visit has looked at all its dependencies. *)
VisitReturns ==
  /\ phase = "resolve" /\ stack # <<>> /\ rest[Innermost(stack)] = {}
  /\ visited' = [visited EXCEPT ![Innermost(stack)] = Done]
  /\ order' = Append(order, Innermost(stack))
  /\ stack' = Outer(stack)
  /\ UNCHANGED <<configVars, registerVars, rest, up, halted, accepting, phase, err>>

Resolved ==
  /\ phase = "resolve" /\ stack = <<>> /\ AllVisited
  /\ phase' = "init"
  /\ UNCHANGED <<configVars, registerVars, searchVars, up, halted, accepting, err>>

(* InitAll's loop: the next provider's Init returns, or fails. *)
InitNext ==
  /\ phase = "init" /\ MoreToInit
  /\ \/ up' = up + 1 /\ UNCHANGED <<phase, err>>
     \/ Fatal("init") /\ UNCHANGED up
  /\ UNCHANGED <<configVars, registerVars, searchVars, halted, accepting>>

Serve ==
  /\ phase = "init" /\ ~MoreToInit
  /\ phase' = "serve" /\ accepting' = {ListenServer}
  /\ UNCHANGED <<configVars, registerVars, searchVars, up, halted, err>>

(* SIGTERM or SIGINT; Shutdown closes the server's listeners. *)
Signal ==
  /\ phase = "serve"
  /\ phase' = "drain" /\ accepting' = accepting \ {HandleServer}
  /\ UNCHANGED <<configVars, registerVars, searchVars, up, halted, err>>

(* Shutdown returns: requests are answered, or its thirty seconds are over. *)
Drained ==
  /\ phase = "drain"
  /\ phase' = "shutdown"
  /\ UNCHANGED <<configVars, registerVars, searchVars, up, halted, accepting, err>>

(* ShutdownAll's loop: it gives up at the first error. *)
ShutdownNext ==
  /\ phase = "shutdown"
  /\ \/ Len(halted) < Len(order) /\ halted' = Append(halted, NextDown) /\ UNCHANGED phase
     \/ phase' = "close" /\ UNCHANGED halted
  /\ UNCHANGED <<configVars, registerVars, searchVars, up, accepting, err>>

(* bus.Close, and main returns. *)
Exit ==
  /\ phase = "close"
  /\ phase' = "exited"
  /\ UNCHANGED <<configVars, registerVars, searchVars, up, halted, accepting, err>>

(* ListenAndServe fails. *)
ServeFails ==
  /\ ListenServer \in accepting /\ phase # "exited"
  /\ Fatal("serve")
  /\ UNCHANGED <<configVars, registerVars, searchVars, up, halted, accepting>>

Search ==
  \/ \E p \in Names : VisitRoot(p) \/ VisitDependency(p)
  \/ VisitReturns \/ Resolved

Next ==
  \/ \E p \in Names : Register(p)
  \/ Resolve \/ Search \/ InitNext \/ Serve \/ Signal \/ Drained \/ ShutdownNext
  \/ Exit \/ ServeFails

Spec == Init /\ [][Next]_vars

----------------------------------------------------------------------------

(* The search puts every provider after all that it depends on, puts none    *)
(* twice and, when it succeeds, leaves none out.                             *)
DependenciesFirst ==
  /\ phase = "init" => Range(order) = providers
  /\ \A i \in DOMAIN order :
       /\ \A q \in deps[order[i]] : \E j \in 1 .. i - 1 : order[j] = q
       /\ \A j \in 1 .. i - 1 : order[j] # order[i]

(* Each of ps depends on one of them.  Of finitely many providers that is a  *)
(* cycle, and whoever depends on itself over any number of others is in one. *)
Cyclic(ps) == ps # {} /\ \A p \in ps : deps[p] \cap ps # {}

(* The search rejects only what is wrong: it reports a cycle only if there   *)
(* is one among the registered providers, and a missing provider only if     *)
(* one is; a diamond of dependencies is neither.                             *)
RejectionsAreRight ==
  /\ err = "circular" => \E ps \in SUBSET providers : Cyclic(ps)
  /\ err = "missing" => \E p \in providers : deps[p] \ providers # {}

(* At every moment of startup and shutdown, also after a failure, whatever a *)
(* provider that is up depends on is up too.                                 *)
UpIsClosed == \A p \in Up : deps[p] \subseteq Up

(* api/server.go:104: HTTPServer returns the underlying http.Server for      *)
(* graceful shutdown; so requests are accepted only while all providers,     *)
(* whose routes they may ask for, are up.                                    *)
ServedWhileUp == accepting # {} /\ phase # "exited" => Up = Range(order)

=============================================================================
