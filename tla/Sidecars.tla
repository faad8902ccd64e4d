------------------------------ MODULE Sidecars ------------------------------
(***************************************************************************)
(* Providers that run as processes of their own, in the life of the server *)
(* (Lifecycle).  provider/discovery.go and provider/external.go connect to *)
(* the sockets that providers.yaml names, or that are found in a           *)
(* directory, initialize the sidecars, forward requests and reactions to   *)
(* them, and shut them down.                                               *)
(*                                                                         *)
(* A sidecar may crash and be started again at any time.  gRPC connects to *)
(* it anew without the server noticing.                                    *)
(***************************************************************************)
EXTENDS Lifecycle

CONSTANTS
  Entries,       \* the ways providers.yaml may describe providers
  SidecarGraphs, \* the dependencies to consider if there are sidecars
  MaxCrashes     \* bound: crashes of sidecars

ASSUME SidecarsAssumption ==
  /\ Entries \subseteq [Names -> {"builtin", "external", "discover"}]
  /\ MaxCrashes \in Nat

VARIABLES
  entry,      \* how each provider is configured
  sidecar,    \* its process: "dead", "new", "ready" after Init, "stopped" after Shutdown
  conn,       \* p.conn: "none", "open" or "closed"
  rpc,        \* the calls of p.Init that have returned
  told,       \* p.Shutdown has called the sidecar
  calls,      \* calls <<p, kind>> that are on their way to sidecars
  early,      \* history: sidecars that served a call before they were initialized
  crashed,    \* history: sidecars that crashed after they were initialized
  failed,     \* history: a builtin provider failed to shut down
  crashes     \* history: crashes of sidecars

sidecarVars == <<entry, sidecar, conn, rpc, told, calls, early, crashed, failed, crashes>>
allVars == <<vars, sidecarVars>>

External(p) == entry[p] # "builtin"
Alive(p) == sidecar[p] # "dead"

(* The provider that InitAll comes to. *)
NextUp == order[up + 1]

(* What becomes of the server if a call of Init fails.                      *)
(* Mutant: the error is only logged.                                        *)
InitFailed_Logged == up' = up + 1 /\ UNCHANGED <<phase, err>>

InitFailed == Fatal("init") /\ UNCHANGED up

(* What Shutdown does after the sidecar failed to answer.                   *)
(* Mutant: it returns the error, and ShutdownAll gives up.                  *)
ShutdownFailed_Returned(p) == phase' = "close" /\ UNCHANGED told

ShutdownFailed(p) == told' = told \cup {p} /\ UNCHANGED phase

----------------------------------------------------------------------------

SidecarsInit ==
  /\ Init
  /\ entry \in Entries
  /\ \A p \in Names : External(p) => deps \in SidecarGraphs /\ listed[p] <= 1
  /\ sidecar \in [Names -> {"dead", "new"}] /\ \A p \in Names : External(p) \/ ~Alive(p)
  /\ conn = [p \in Names |-> "none"] /\ rpc = [p \in Names |-> 0]
  /\ told = {} /\ calls = {} /\ early = {} /\ crashed = {} /\ failed = FALSE /\ crashes = 0

(* The builtin providers are registered first. *)
RegisterBuiltin(p) == ~External(p) /\ Register(p) /\ UNCHANGED sidecarVars

ConnectExternalProvider(p) ==
  Alive(p) /\ conn' = [conn EXCEPT ![p] = "open"] /\ UNCHANGED <<listed, phase, err>>

(* A socket is found in a directory; a failure is only logged. *)
discoverFromDirectory(p) ==
  \/ ConnectExternalProvider(p)
  \/ listed' = [listed EXCEPT ![p] = 0] /\ UNCHANGED <<conn, phase, err>>

(* The server must connect to a socket that an entry names, and be able to   *)
(* read a directory.                                                         *)
DiscoverExternalProviders(p) ==
  \/ entry[p] = "external" /\ ConnectExternalProvider(p)
  \/ entry[p] = "discover" /\ discoverFromDirectory(p)
  \/ External(p) /\ Fatal("connect") /\ UNCHANGED <<listed, conn>>

Connect(p) ==
  /\ phase = "register" /\ listed[p] > 0 /\ conn[p] = "none"
  /\ \A q \in Names : External(q) \/ listed[q] = 0
  /\ DiscoverExternalProviders(p)
  /\ UNCHANGED <<configVars, providers, owner, searchVars, up, halted, accepting,
                 entry, sidecar, rpc, told, calls, early, crashed, failed, crashes>>

(* RegisterExternalProviders, once all are connected. *)
RegisterExternalProviders(p) ==
  /\ External(p) /\ \A q \in Names : (External(q) /\ listed[q] > 0) => conn[q] = "open"
  /\ \A q \in Names : External(q) \/ listed[q] = 0
  /\ Register(p)
  /\ UNCHANGED sidecarVars

InitBuiltin == MoreToInit /\ ~External(NextUp) /\ InitNext /\ UNCHANGED sidecarVars

(* ExternalProvider.Init: the calls Init, GetRoutes and GetHookRegistrations. *)
InitExternal ==
  /\ phase = "init" /\ MoreToInit /\ External(NextUp)
  /\ LET p == NextUp IN
       \/ /\ Alive(p)
          /\ rpc' = [rpc EXCEPT ![p] = @ + 1]
          /\ sidecar' = IF rpc[p] = 0 THEN [sidecar EXCEPT ![p] = "ready"] ELSE sidecar
          /\ up' = IF rpc[p] = 2 THEN up + 1 ELSE up
          /\ UNCHANGED <<phase, err>>
       \/ InitFailed /\ UNCHANGED <<rpc, sidecar>>
  /\ UNCHANGED <<configVars, registerVars, searchVars, halted, accepting,
                 entry, conn, told, calls, early, crashed, failed, crashes>>

(* A request that the server accepts is for a route of p, or fires one of    *)
(* its reactions.  The call fails, with 502 or a line in the log, if the     *)
(* connection is closed or the sidecar dead.                                 *)
Send(p, kind) ==
  /\ accepting # {} /\ phase # "exited"
  /\ External(p) /\ p \in Range(order) /\ conn[p] = "open" /\ Alive(p)
  /\ calls' = calls \cup {<<p, kind>>}
  /\ UNCHANGED <<vars, entry, sidecar, conn, rpc, told, early, crashed, failed, crashes>>

proxyHandler(p) == Send(p, "http")

makeAsyncHookHandler(p) == Send(p, "hook")

(* The sidecar serves a call. *)
Served(p, kind) ==
  /\ <<p, kind>> \in calls /\ Alive(p)
  /\ calls' = calls \ {<<p, kind>>}
  /\ early' = IF sidecar[p] = "new" THEN early \cup {p} ELSE early
  /\ UNCHANGED <<vars, entry, sidecar, conn, rpc, told, crashed, failed, crashes>>

(* A sidecar crashes with the calls it has, and is started again. *)
CrashSidecar(p) ==
  /\ External(p) /\ Alive(p) /\ phase # "exited" /\ crashes < MaxCrashes
  /\ sidecar' = [sidecar EXCEPT ![p] = "dead"] /\ crashes' = crashes + 1
  /\ calls' = {c \in calls : c[1] # p}
  /\ crashed' = IF sidecar[p] = "new" THEN crashed ELSE crashed \cup {p}
  /\ UNCHANGED <<vars, entry, conn, rpc, told, early, failed>>

StartSidecar(p) ==
  /\ External(p) /\ ~Alive(p) /\ phase # "exited"
  /\ sidecar' = [sidecar EXCEPT ![p] = "new"]
  /\ UNCHANGED <<vars, entry, conn, rpc, told, calls, early, crashed, failed, crashes>>

ShutdownBuiltin ==
  /\ phase = "shutdown" /\ (Len(halted) < Len(order) => ~External(NextDown))
  /\ ShutdownNext
  /\ failed' = (phase' = "close" /\ Len(halted) < Len(order))
  /\ UNCHANGED <<entry, sidecar, conn, rpc, told, calls, early, crashed, crashes>>

(* ExternalProvider.Shutdown calls the sidecar ... *)
ShutdownExternal ==
  /\ phase = "shutdown" /\ Len(halted) < Len(order)
  /\ LET p == NextDown IN
       /\ External(p) /\ p \notin told
       /\ \/ /\ Alive(p) /\ sidecar' = [sidecar EXCEPT ![p] = "stopped"]
             /\ told' = told \cup {p} /\ UNCHANGED phase
          \/ ShutdownFailed(p) /\ UNCHANGED sidecar
  /\ UNCHANGED <<configVars, registerVars, searchVars, up, halted, accepting, err,
                 entry, conn, rpc, calls, early, crashed, failed, crashes>>

(* ... and closes the connection. *)
CloseExternal ==
  /\ phase = "shutdown" /\ Len(halted) < Len(order)
  /\ LET p == NextDown IN
       /\ p \in told
       /\ conn' = [conn EXCEPT ![p] = "closed"] /\ halted' = Append(halted, p)
  /\ UNCHANGED <<configVars, registerVars, searchVars, up, accepting, phase, err,
                 entry, sidecar, rpc, told, calls, early, crashed, failed, crashes>>

SidecarStep ==
  \E p \in Names :
    \/ Connect(p) \/ proxyHandler(p) \/ makeAsyncHookHandler(p)
    \/ CrashSidecar(p) \/ StartSidecar(p)
    \/ \E kind \in {"http", "hook"} : Served(p, kind)

SidecarsNext ==
  \/ \E p \in Names : RegisterBuiltin(p) \/ RegisterExternalProviders(p)
  \/ SidecarStep \/ InitBuiltin \/ InitExternal \/ ShutdownBuiltin \/ ShutdownExternal \/ CloseExternal
  \/ /\ Resolve \/ Search \/ Serve \/ Signal \/ Drained \/ Exit \/ ServeFails
     /\ UNCHANGED sidecarVars

SidecarsSpec == SidecarsInit /\ [][SidecarsNext]_allVars

----------------------------------------------------------------------------

(* A sidecar is initialized when all that it depends on is, and serves no    *)
(* call before that, unless it crashed later and was started again: the      *)
(* server does not notice that, and does not initialize it anew.             *)
SidecarsAreReady ==
  /\ \A p \in Names : (rpc[p] > 0 /\ phase \in {"init", "serve", "drain"}) => deps[p] \subseteq Up
  /\ early \subseteq crashed

(* When the server ends, every sidecar has been told and every connection    *)
(* closed, whichever sidecars are dead or do not answer, unless a builtin    *)
(* provider failed to shut down.                                             *)
SidecarsAreClosed ==
  (phase = "close" /\ ~failed) =>
    \A p \in Names : conn[p] # "open" /\ (External(p) /\ p \in providers => p \in told)

=============================================================================
