----------------------------- MODULE Dispatcher -----------------------------
(***************************************************************************)
(* The workflow dispatcher of workflow/: one Dispatch per lifecycle event, *)
(* each in the goroutine of its reaction, the executor that runs what they *)
(* submit, and the polling loop that reports finished runs to the status   *)
(* callback.  The executor is external: SubmitResults says which kind it   *)
(* is.                                                                     *)
(***************************************************************************)
EXTENDS Integers, Sequences, FiniteSets

CONSTANTS
  Dispatches,     \* lifecycle events, each dispatched once
  Handlers,       \* registered handlers, as records [phase, priority, ref]
  Table,          \* Table[d]: the handlers of d's resource type and event
  SubmitResults,  \* what Submit may return: "error" or a run of that status
  MaxCrashes      \* bound: how often the process may crash

Terminal == {"completed", "failed"}

ASSUME DispatcherAssumption ==
  /\ \A h \in Handlers : h.phase \in {"pre", "main", "post"} /\ h.priority \in Int
  /\ Table \in [Dispatches -> SUBSET Handlers]
  /\ SubmitResults \subseteq {"error", "pending", "running"} \cup Terminal
  /\ MaxCrashes \in Nat

VARIABLES
  pc,        \* "new", "run", "track" or "done" for each Dispatch
  todo,      \* handlers the Dispatch has yet to come to
  ret,       \* what Submit returned, "none" before it
  run,       \* the run as the executor knows it
  log,       \* history: the handlers submitted, in order
  tracked,   \* the tracked map: <<dispatch, handler>> stands for the run's ID
  poll,      \* the polling loop: "wait", "poll", "callback" or "untrack"
  batch,     \* the copy of tracked that pollOnce goes through
  current,   \* the runs pollOnce is reporting: none or one
  phase,     \* the phase the callback wrote to the status of the resource
  reports,   \* history: callback invocations for each run
  lost,      \* history: runs the process knew of when it crashed
  crashes    \* history: crashes so far

dispatchVars == <<pc, todo, ret, log>>
pollVars == <<poll, batch, current>>
history == <<lost, crashes>>
vars == <<dispatchVars, run, tracked, pollVars, phase, reports, history>>

Runs == Dispatches \X Handlers
MainRuns == {r \in Runs : r[2] \in Table[r[1]] /\ r[2].phase = "main"}
Main(d) == {h \in Handlers : h.phase = "main" /\ ret[d][h] \notin {"none", "error"}}

(* phaseOrder. *)
PhaseOrder(p) == CASE p = "pre" -> 0 [] p = "main" -> 1 [] p = "post" -> 2

(* The order Lookup sorts by; handlers it leaves tied come in any order. *)
Before(g, h) ==
  \/ PhaseOrder(g.phase) < PhaseOrder(h.phase)
  \/ (g.phase = h.phase /\ g.priority < h.priority)

(* What makes a pre-phase handler abort the dispatch.                        *)
(* Mutant: only a failure to submit.                                         *)
Aborts_ErrorOnly(r) == r = "error"

Aborts(r) == r \in {"error", "failed"}

(* The handlers that are passed over after h: the loop over the main phase   *)
(* ends with its first handler.                                              *)
Served(h) == {g \in Handlers : g = h \/ (h.phase = "main" /\ g.phase = "main")}

(* Runs that a Dispatch tracks.  Mutant: only those that have started.       *)
Tracks_Running(r) == r = "running"

Tracks(r) == r \notin Terminal

(* What pollOnce takes for the end of a run.  Mutant: only its success. *)
Ended_Completed(r) == r = "completed"

Ended(r) == r \in Terminal

(* The phase that MakeStatusCallback writes. *)
StatusPhase(r) == IF r = "failed" THEN "Failed" ELSE "Ready"

----------------------------------------------------------------------------

Init ==
  /\ pc = [d \in Dispatches |-> "new"]
  /\ todo = [d \in Dispatches |-> {}]
  /\ ret = [d \in Dispatches |-> [h \in Handlers |-> "none"]]
  /\ run = [r \in Runs |-> "none"]
  /\ log = [d \in Dispatches |-> <<>>]
  /\ tracked = {} /\ poll = "wait" /\ batch = {} /\ current = {}
  /\ phase = [d \in Dispatches |-> "none"]
  /\ reports = [r \in Runs |-> 0]
  /\ lost = {} /\ crashes = 0

(* The reaction calls Dispatch, which looks the handlers up. *)
Lookup(d) ==
  /\ pc[d] = "new"
  /\ pc' = [pc EXCEPT ![d] = IF Table[d] = {} THEN "done" ELSE "run"]
  /\ todo' = [todo EXCEPT ![d] = Table[d]]
  /\ UNCHANGED <<ret, log, run, tracked, pollVars, phase, reports, history>>

(* The Dispatch submits its next handler and gets r back. *)
Submit(d, h, r) ==
  LET aborted == CASE h.phase = "pre" -> Aborts(r)
                   [] h.phase = "main" -> r = "error"
                   [] h.phase = "post" -> FALSE
      left == IF aborted THEN {} ELSE todo[d] \ Served(h) IN
  /\ pc[d] = "run" /\ h \in todo[d]
  /\ \A g \in todo[d] : ~Before(g, h)
  /\ ret' = [ret EXCEPT ![d][h] = r]
  /\ run' = [run EXCEPT ![<<d, h>>] = IF r = "error" THEN "none" ELSE r]
  /\ log' = [log EXCEPT ![d] = Append(@, h)]
  /\ todo' = [todo EXCEPT ![d] = left]
  /\ pc' = [pc EXCEPT ![d] =
              CASE h.phase = "main" /\ ~aborted /\ Tracks(r) -> "track"
                [] OTHER -> IF left = {} THEN "done" ELSE "run"]
  /\ UNCHANGED <<tracked, pollVars, phase, reports, history>>

(* The main run is entered into the map, under the mutex. *)
Track(d) ==
  /\ pc[d] = "track"
  /\ tracked' = tracked \cup {<<d, h>> : h \in Main(d)}
  /\ pc' = [pc EXCEPT ![d] = IF todo[d] = {} THEN "done" ELSE "run"]
  /\ UNCHANGED <<todo, ret, log, run, pollVars, phase, reports, history>>

(* The executor starts or ends a run. *)
Advance(r, s) ==
  /\ \/ run[r] = "pending" /\ s \in {"running"} \cup Terminal
     \/ run[r] = "running" /\ s \in Terminal
  /\ run' = [run EXCEPT ![r] = s]
  /\ UNCHANGED <<dispatchVars, tracked, pollVars, phase, reports, history>>

(* pollOnce copies the map. *)
PollStart ==
  /\ poll = "wait"
  /\ batch' = tracked
  /\ poll' = IF tracked = {} THEN "wait" ELSE "poll"
  /\ UNCHANGED <<dispatchVars, run, tracked, current, phase, reports, history>>

(* Where pollOnce goes after r. *)
AfterRun(r) == IF batch \ {r} = {} THEN "wait" ELSE "poll"

(* Poll fails, or the run has not ended: on to the next. *)
PollSkip(r) ==
  /\ poll = "poll" /\ r \in batch
  /\ batch' = batch \ {r}
  /\ poll' = AfterRun(r)
  /\ UNCHANGED <<dispatchVars, run, tracked, current, phase, reports, history>>

(* Poll finds the run ended. *)
PollEnded(r) ==
  /\ poll = "poll" /\ r \in batch /\ Ended(run[r])
  /\ current' = {r} /\ poll' = "callback"
  /\ UNCHANGED <<dispatchVars, run, tracked, batch, phase, reports, history>>

(* The callback writes the status, or fails and is only logged. *)
Callback(r, ok) ==
  /\ poll = "callback" /\ r \in current
  /\ reports' = [reports EXCEPT ![r] = @ + 1]
  /\ phase' = IF ok THEN [phase EXCEPT ![r[1]] = StatusPhase(run[r])] ELSE phase
  /\ poll' = "untrack"
  /\ UNCHANGED <<dispatchVars, run, tracked, batch, current, history>>

(* The run leaves the map, whatever the callback returned. *)
Untrack(r) ==
  /\ poll = "untrack" /\ r \in current
  /\ tracked' = tracked \ {r}
  /\ current' = {} /\ batch' = batch \ {r} /\ poll' = AfterRun(r)
  /\ UNCHANGED <<dispatchVars, run, phase, reports, history>>

(* The process crashes and restarts: the map and the goroutines are gone,    *)
(* the executor's runs go on.                                                *)
Crash ==
  /\ crashes < MaxCrashes
  /\ crashes' = crashes + 1
  /\ lost' = lost \cup {r \in Runs : ret[r[1]][r[2]] # "none"}
  /\ pc' = [d \in Dispatches |-> "done"]
  /\ todo' = [d \in Dispatches |-> {}]
  /\ tracked' = {} /\ poll' = "wait" /\ batch' = {} /\ current' = {}
  /\ UNCHANGED <<ret, log, run, phase, reports>>

DispatchStep(d) ==
  \/ Lookup(d) \/ Track(d)
  \/ \E h \in Handlers, r \in SubmitResults : Submit(d, h, r)

PollStep ==
  \/ PollStart
  \/ \E r \in Runs : \/ PollSkip(r) \/ PollEnded(r) \/ Untrack(r)
                     \/ \E ok \in BOOLEAN : Callback(r, ok)

Next ==
  \/ \E d \in Dispatches : DispatchStep(d)
  \/ \E r \in Runs, s \in {"running"} \cup Terminal : Advance(r, s)
  \/ PollStep
  \/ Crash

Spec == Init /\ [][Next]_vars

(* Goroutines are scheduled, the ticker fires, runs end, and a Poll of the   *)
(* same run does not fail for ever.                                          *)
Fairness ==
  /\ \A d \in Dispatches : WF_vars(DispatchStep(d))
  /\ WF_vars(PollStep)
  /\ \A r \in MainRuns : /\ WF_vars(\E s \in Terminal : Advance(r, s))
                         /\ SF_vars(PollEnded(r))

LiveSpec == Spec /\ Fairness

----------------------------------------------------------------------------

(* What the documentation says of the phases: "Pre-phase handlers run        *)
(* synchronously" and "post-phase handlers run after main completes"         *)
(* (workflow/dispatcher.go:51-53, docs/architecture.md:431-433).  A handler  *)
(* is submitted only when the runs of the earlier phases have ended.         *)
(* Dispatch does not have this property: it goes on once Submit returns.     *)
PhasesAwaited ==
  \A d \in Dispatches : \A g, h \in Table[d] :
    PhaseOrder(g.phase) < PhaseOrder(h.phase) /\ ret[d][h] # "none"
      => run[<<d, g>>] \in {"none"} \cup Terminal

(* What does hold is an order of submissions.  Dispatch submits handlers by  *)
(* phase, and by priority within a phase, whatever order they were           *)
(* registered in; and a main or post handler only when every pre handler was *)
(* submitted, and Submit returned neither an error nor a failed run for any. *)
(* A gate whose run is then still pending has been passed, whatever becomes  *)
(* of it.                                                                    *)
PhasesInOrder ==
  \A d \in Dispatches :
    /\ \A i, j \in DOMAIN log[d] : i < j =>
         LET g == log[d][i]
             h == log[d][j] IN
         \/ g.phase = "pre" /\ h.phase # "pre"
         \/ g.phase = "main" /\ h.phase = "post"
         \/ g.phase = h.phase /\ g.priority <= h.priority
    /\ \A g, h \in Table[d] :
         g.phase = "pre" /\ h.phase # "pre" /\ ret[d][h] # "none"
           => ret[d][g] \notin {"none", "error", "failed"}

(* Each main run is reported once: the callback is not invoked again for it, *)
(* though the map may change while pollOnce goes through its copy; and a run *)
(* that had not ended when it was submitted is reported, or is still in the  *)
(* map or on its way there, unless the process crashes.                      *)
EachRunReportedOnce ==
  /\ \A r \in Runs : reports[r] <= 1
  /\ \A d \in Dispatches : \A h \in Main(d) :
       ret[d][h] \notin Terminal =>
         \/ <<d, h>> \in tracked \cup lost
         \/ pc[d] = "track"
         \/ reports[<<d, h>>] > 0

(* Every tracked run (tracked runs are main runs) is eventually reported and *)
(* leaves the map, unless the process crashes.                               *)
TrackedIsReported ==
  \A r \in MainRuns : r \in tracked ~> (r \notin tracked /\ (reports[r] > 0 \/ r \in lost))

=============================================================================
