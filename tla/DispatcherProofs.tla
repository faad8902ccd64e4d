-------------------------- MODULE DispatcherProofs --------------------------
(***************************************************************************)
(* Proofs about Dispatcher, for any handlers, tables, executors and number *)
(* of crashes: handlers run in the order of their phases and behind the    *)
(* gate, and a run is reported once.  OrderInv says what a Dispatch has    *)
(* come to, ReportInv where a run is between its submission and its        *)
(* report.                                                                 *)
(***************************************************************************)
EXTENDS Dispatcher, TLAPS

Types ==
  /\ pc \in [Dispatches -> {"new", "run", "track", "done"}]
  /\ todo \in [Dispatches -> SUBSET Handlers]
  /\ ret \in [Dispatches -> [Handlers -> {"none"} \cup SubmitResults]]
  /\ log \in [Dispatches -> Seq(Handlers)]
  /\ tracked \subseteq Runs /\ batch \subseteq tracked /\ lost \subseteq Runs
  /\ poll \in {"wait", "poll", "callback", "untrack"}
  /\ reports \in [Runs -> Nat]

(* What is to come of a Dispatch is not before what was submitted, and while *)
(* it runs, the gates behind it were passed.                                 *)
OrderOf(d) ==
  /\ todo[d] \subseteq Table[d]
  /\ pc[d] = "new" => log[d] = <<>> /\ \A h \in Handlers : ret[d][h] = "none"
  /\ \A h \in todo[d] : ret[d][h] = "none"
  /\ \A i \in DOMAIN log[d], h \in todo[d] : ~Before(h, log[d][i])
  /\ \A i, j \in DOMAIN log[d] : i < j => ~Before(log[d][j], log[d][i])
  /\ pc[d] \in {"run", "track"} =>
       \A g \in Table[d] \ todo[d] :
         g.phase = "pre" => ret[d][g] \notin {"none", "error", "failed"}
  /\ \A g, h \in Table[d] :
       g.phase = "pre" /\ h.phase # "pre" /\ ret[d][h] # "none"
         => ret[d][g] \notin {"none", "error", "failed"}

OrderInv == \A d \in Dispatches : OrderOf(d)

(* A Dispatch submits one main handler, and tracks it once. *)
MainOf(d) ==
  /\ \A h \in todo[d] : h.phase = "main" => Main(d) = {}
  /\ pc[d] = "track" =>
       \A h \in Main(d) : <<d, h>> \notin tracked /\ reports[<<d, h>>] = 0
  /\ \A h \in Handlers :
       ret[d][h] = "none" => <<d, h>> \notin tracked /\ reports[<<d, h>>] = 0
  /\ \A h \in Main(d) : ret[d][h] \notin Terminal =>
       <<d, h>> \in tracked \cup lost \/ pc[d] = "track" \/ reports[<<d, h>>] > 0

(* Only the run that is about to leave the map is in it and reported. *)
PollInv ==
  /\ poll \in {"callback", "untrack"} => \E r \in batch : current = {r}
  /\ poll = "untrack" => \A r \in current : reports[r] = 1
  /\ \A r \in tracked : reports[r] = 0 \/ (poll = "untrack" /\ r \in current)
  /\ \A r \in Runs : reports[r] <= 1

ReportInv == PollInv /\ \A d \in Dispatches : MainOf(d)

IInv == Types /\ OrderInv /\ ReportInv

(* The order of two handlers, phase by phase. *)
LEMMA BeforeByPhase ==
  ASSUME NEW g \in Handlers, NEW h \in Handlers
  PROVE  /\ g.phase = "pre" /\ h.phase # "pre" => Before(g, h)
         /\ ~Before(h, g) => \/ g.phase = "pre" /\ h.phase # "pre"
                             \/ g.phase = "main" /\ h.phase = "post"
                             \/ g.phase = h.phase /\ g.priority <= h.priority
  <1>1. /\ g.phase \in {"pre", "main", "post"} /\ h.phase \in {"pre", "main", "post"}
        /\ g.priority \in Int /\ h.priority \in Int
    BY DispatcherAssumption
  <1>2. PhaseOrder("pre") = 0 /\ PhaseOrder("main") = 1 /\ PhaseOrder("post") = 2
    BY DEF PhaseOrder
  <1> QED BY <1>1, <1>2 DEF Before

(* A run is a pair, and pairs are equal only by their parts. *)
LEMMA RunParts ==
  ASSUME NEW d \in Dispatches, NEW h \in Handlers
  PROVE  /\ <<d, h>> \in Runs
         /\ \A e \in Dispatches, g \in Handlers : <<e, g>> = <<d, h>> <=> e = d /\ g = h
  BY DEF Runs

LEMMA TypesInit == Init => Types
  BY RunParts DEF Init, Types

LEMMA TypesNext == Types /\ [Next]_vars => Types'
  <1> SUFFICES ASSUME Types, [Next]_vars PROVE Types'
    OBVIOUS
  <1> USE DEF Types
  <1>1. ASSUME NEW d \in Dispatches, Lookup(d) PROVE Types'
    BY <1>1, DispatcherAssumption, Zenon DEF Lookup, pollVars, history
  <1>2. ASSUME NEW d \in Dispatches, Track(d) PROVE Types'
    <2>1. {<<d, h>> : h \in Main(d)} \subseteq Runs
      BY RunParts DEF Main
    <2> QED BY <1>2, <2>1 DEF Track, pollVars, history
  <1>3. ASSUME NEW d \in Dispatches, NEW h \in Handlers, NEW r \in SubmitResults, Submit(d, h, r)
        PROVE  Types'
    <2>1. Append(log[d], h) \in Seq(Handlers)
      OBVIOUS
    <2>2. log' \in [Dispatches -> Seq(Handlers)]
      BY <1>3, <2>1 DEF Submit
    <2>3. ret' \in [Dispatches -> [Handlers -> {"none"} \cup SubmitResults]]
      BY <1>3 DEF Submit
    <2>4. todo' \in [Dispatches -> SUBSET Handlers]
      BY <1>3, Zenon DEF Submit
    <2>5. pc' \in [Dispatches -> {"new", "run", "track", "done"}]
      BY <1>3 DEF Submit
    <2> QED BY <1>3, <2>2, <2>3, <2>4, <2>5, Zenon DEF Submit, pollVars, history
  <1>4. ASSUME NEW r \in Runs, NEW s \in {"running"} \cup Terminal, Advance(r, s) PROVE Types'
    BY <1>4 DEF Advance, dispatchVars, pollVars, history
  <1>5. CASE PollStart
    BY <1>5 DEF PollStart, dispatchVars, history
  <1>6. ASSUME NEW r \in Runs, PollSkip(r) PROVE Types'
    BY <1>6 DEF PollSkip, AfterRun, dispatchVars, history
  <1>7. ASSUME NEW r \in Runs, PollEnded(r) PROVE Types'
    BY <1>7 DEF PollEnded, dispatchVars, history
  <1>8. ASSUME NEW r \in Runs, Untrack(r) PROVE Types'
    BY <1>8 DEF Untrack, AfterRun, dispatchVars, history
  <1>9. ASSUME NEW r \in Runs, NEW ok \in BOOLEAN, Callback(r, ok) PROVE Types'
    BY <1>9 DEF Callback, dispatchVars, history
  <1>10. CASE Crash
    BY <1>10 DEF Crash, Runs
  <1>11. CASE UNCHANGED vars
    BY <1>11 DEF vars, dispatchVars, pollVars, history
  <1> QED BY <1>1, <1>2, <1>3, <1>4, <1>5, <1>6, <1>7, <1>8, <1>9, <1>10, <1>11
          DEF Next, DispatchStep, PollStep

LEMMA OrderInit == Init => OrderInv
  BY DispatcherAssumption DEF Init, OrderInv, OrderOf

(* A step that leaves what a Dispatch did alone keeps OrderOf. *)
LEMMA OrderStays ==
  ASSUME NEW d \in Dispatches, OrderOf(d), log'[d] = log[d], ret'[d] = ret[d],
         \/ pc'[d] = pc[d] /\ todo'[d] = todo[d]
         \/ pc'[d] = "done" /\ todo'[d] = {}
         \/ pc[d] = "track" /\ pc'[d] \in {"run", "done"} /\ todo'[d] = todo[d]
  PROVE  OrderOf(d)'
  BY DEF OrderOf

(* The submission of a handler that is not after any of todo.  *)
LEMMA OrderSubmit ==
  ASSUME Types, NEW d \in Dispatches, OrderOf(d),
         NEW h \in Handlers, NEW r \in SubmitResults, Submit(d, h, r)
  PROVE  OrderOf(d)'
  <1> USE DEF Types
  <1>1. /\ todo'[d] \subseteq todo[d] \ {h} /\ h \in todo[d] /\ h \in Table[d]
        /\ pc'[d] \in {"run", "track", "done"} /\ pc[d] = "run"
        /\ \A g \in todo[d] : ~Before(g, h)
    BY Zenon DEF Submit, OrderOf, Served
  <1>2. log'[d] = Append(log[d], h)
    BY DEF Submit
  <1>3. ret'[d][h] = r /\ \A g \in Handlers : g # h => ret'[d][g] = ret[d][g]
    BY DEF Submit
  <1>4. /\ DOMAIN log'[d] = 1 .. Len(log[d]) + 1 /\ log'[d][Len(log[d]) + 1] = h
        /\ \A i \in DOMAIN log[d] : log'[d][i] = log[d][i]
        /\ DOMAIN log[d] = 1 .. Len(log[d]) /\ Len(log[d]) \in Nat
    BY <1>2
  <1>5. \A i \in DOMAIN log'[d] : i \in DOMAIN log[d] \/ i = Len(log[d]) + 1
    BY <1>4
  <1>6. r # "none"
    BY DispatcherAssumption DEF Terminal
  <1>7. \A g \in todo'[d] : ret'[d][g] = "none"
    BY <1>1, <1>3 DEF OrderOf
  <1>8. \A i \in DOMAIN log'[d], g \in todo'[d] : ~Before(g, log'[d][i])
    BY <1>1, <1>4, <1>5, Zenon DEF OrderOf
  <1>9. \A i, j \in DOMAIN log'[d] : i < j => ~Before(log'[d][j], log'[d][i])
    <2> SUFFICES ASSUME NEW i \in DOMAIN log'[d], NEW j \in DOMAIN log'[d], i < j
                 PROVE  ~Before(log'[d][j], log'[d][i])
      OBVIOUS
    <2>1. i \in DOMAIN log[d]
      BY <1>4, <1>5
    <2>2. CASE j \in DOMAIN log[d]
      BY <1>4, <2>1, <2>2 DEF OrderOf
    <2>3. CASE j = Len(log[d]) + 1
      BY <1>1, <1>4, <2>1, <2>3 DEF OrderOf
    <2> QED BY <1>5, <2>2, <2>3
  <1>10. \A g \in Table[d] : g.phase = "pre" /\ h.phase # "pre" => g \notin todo[d]
    BY <1>1, BeforeByPhase
  <1>11. ASSUME pc'[d] \in {"run", "track"}, NEW g \in Table[d] \ todo'[d], g.phase = "pre"
         PROVE  ret'[d][g] \notin {"none", "error", "failed"}
    <2>1. g \in Handlers /\ h.phase \in {"pre", "main", "post"}
      BY DispatcherAssumption
    <2>2. CASE g = h
      <3>1. ~Aborts(r)
        BY <1>1, <1>11, <2>2, Zenon DEF Submit
      <3> QED BY <1>3, <1>6, <2>2, <3>1 DEF Aborts
    <2>3. CASE g # h
      <3>1. g \notin todo[d]
        BY <1>1, <1>11, <2>1, <2>3, Zenon DEF Submit, Served
      <3> QED BY <1>1, <1>3, <1>11, <2>1, <2>3, <3>1 DEF OrderOf
    <2> QED BY <2>2, <2>3
  <1>12. ASSUME NEW g \in Table[d], NEW k \in Table[d],
                g.phase = "pre", k.phase # "pre", ret'[d][k] # "none"
         PROVE  ret'[d][g] \notin {"none", "error", "failed"}
    <2>1. g \in Handlers /\ k \in Handlers
      BY DispatcherAssumption
    <2>2. CASE k = h
      BY <1>1, <1>3, <1>10, <1>12, <2>1, <2>2, Zenon DEF OrderOf
    <2>3. CASE k # h
      BY <1>1, <1>3, <1>12, <2>1, <2>3, Zenon DEF OrderOf
    <2> QED BY <2>2, <2>3
  <1>13. todo'[d] \subseteq Table[d] /\ pc'[d] # "new"
    BY <1>1 DEF OrderOf
  <1> QED BY <1>7, <1>8, <1>9, <1>11, <1>12, <1>13 DEF OrderOf

LEMMA OrderNext == Types /\ OrderInv /\ [Next]_vars => OrderInv'
  <1> SUFFICES ASSUME Types, OrderInv, [Next]_vars, NEW d \in Dispatches PROVE OrderOf(d)'
    BY DEF OrderInv
  <1>0. OrderOf(d)
    BY DEF OrderInv
  <1>1. ASSUME UNCHANGED dispatchVars PROVE OrderOf(d)'
    BY <1>0, <1>1, OrderStays DEF dispatchVars
  <1>2. ASSUME NEW e \in Dispatches, Lookup(e) PROVE OrderOf(d)'
    <2>1. CASE e = d
      <3>1. todo'[d] = Table[d] /\ pc'[d] # "new" /\ log'[d] = <<>> /\ ret' = ret
        BY <1>0, <1>2, <2>1 DEF Lookup, OrderOf, Types
      <3>2. \A h \in Handlers : ret[d][h] = "none"
        BY <1>0, <1>2, <2>1 DEF Lookup, OrderOf
      <3> QED BY <3>1, <3>2, DispatcherAssumption DEF OrderOf
    <2>2. CASE e # d
      BY <1>0, <1>2, <2>2, OrderStays DEF Lookup, Types
    <2> QED BY <2>1, <2>2
  <1>3. ASSUME NEW e \in Dispatches, Track(e) PROVE OrderOf(d)'
    BY <1>0, <1>3, OrderStays DEF Track, Types
  <1>4. ASSUME NEW e \in Dispatches, NEW h \in Handlers, NEW r \in SubmitResults, Submit(e, h, r)
        PROVE  OrderOf(d)'
    <2>1. CASE e = d
      BY <1>0, <1>4, <2>1, OrderSubmit
    <2>2. CASE e # d
      <3>1. pc'[d] = pc[d] /\ todo'[d] = todo[d] /\ log'[d] = log[d] /\ ret'[d] = ret[d]
        BY <1>4, <2>2, Zenon DEF Submit, Types
      <3> QED BY <1>0, <3>1, OrderStays
    <2> QED BY <2>1, <2>2
  <1>5. CASE Crash
    BY <1>0, <1>5, OrderStays DEF Crash
  <1> QED BY <1>1, <1>2, <1>3, <1>4, <1>5
          DEF Next, DispatchStep, PollStep, Advance, PollStart, PollSkip, PollEnded, Untrack,
              Callback, vars, dispatchVars

LEMMA OrderInvImplies == Types /\ OrderInv => PhasesInOrder
  <1> SUFFICES ASSUME Types, OrderInv, NEW d \in Dispatches
               PROVE  /\ \A i, j \in DOMAIN log[d] : i < j =>
                           \/ log[d][i].phase = "pre" /\ log[d][j].phase # "pre"
                           \/ log[d][i].phase = "main" /\ log[d][j].phase = "post"
                           \/ /\ log[d][i].phase = log[d][j].phase
                              /\ log[d][i].priority <= log[d][j].priority
                      /\ \A g, h \in Table[d] :
                           g.phase = "pre" /\ h.phase # "pre" /\ ret[d][h] # "none"
                             => ret[d][g] \notin {"none", "error", "failed"}
    BY DEF PhasesInOrder
  <1>1. \A i \in DOMAIN log[d] : log[d][i] \in Handlers
    BY DEF Types
  <1> QED BY <1>1, BeforeByPhase DEF OrderInv, OrderOf

LEMMA ReportInit == Init => ReportInv
  <1> SUFFICES ASSUME Init PROVE ReportInv
    OBVIOUS
  <1>1. PollInv
    BY DEF Init, PollInv
  <1>2. ASSUME NEW d \in Dispatches PROVE MainOf(d)
    <2>1. Main(d) = {}
      BY DEF Init, Main
    <2> QED BY <2>1, RunParts DEF Init, MainOf
  <1> QED BY <1>1, <1>2 DEF ReportInv

(* What MainOf says of a Dispatch that a step does not touch. *)
LEMMA MainStays ==
  ASSUME NEW d \in Dispatches, MainOf(d), ret'[d] = ret[d], pc'[d] = pc[d], todo'[d] = todo[d],
         lost \subseteq lost',
         \A h \in Handlers :
           /\ <<d, h>> \in tracked' => <<d, h>> \in tracked
           /\ <<d, h>> \in tracked => <<d, h>> \in tracked' \/ reports'[<<d, h>>] = 1
           /\ \/ reports'[<<d, h>>] = reports[<<d, h>>]
              \/ reports'[<<d, h>>] = 1 /\ <<d, h>> \in tracked
  PROVE  MainOf(d)'
  <1>1. Main(d)' = Main(d) /\ Main(d) \subseteq Handlers
    BY DEF Main
  <1> QED BY <1>1 DEF MainOf

(* The submission of a handler: a main one is the only one, and not yet in   *)
(* the map.                                                                  *)
LEMMA MainSubmit ==
  ASSUME Types, NEW d \in Dispatches, OrderOf(d), MainOf(d),
         NEW h \in Handlers, NEW r \in SubmitResults, Submit(d, h, r)
  PROVE  MainOf(d)'
  <1> USE DEF Types
  <1>1. /\ h \in todo[d] /\ ret[d][h] = "none" /\ pc[d] = "run"
        /\ todo'[d] \subseteq todo[d] \ Served(h)
        /\ tracked' = tracked /\ reports' = reports /\ lost' = lost
    BY Zenon DEF Submit, OrderOf, history
  <1>2. ret'[d][h] = r /\ \A g \in Handlers : g # h => ret'[d][g] = ret[d][g]
    BY DEF Submit
  <1>3. r # "none"
    BY DispatcherAssumption DEF Terminal
  <1>4. h.phase \in {"pre", "main", "post"}
    BY DispatcherAssumption
  <1>5. \A g \in Handlers :
          ret'[d][g] = "none" => <<d, g>> \notin tracked' /\ reports'[<<d, g>>] = 0
    BY <1>1, <1>2, <1>3, Zenon DEF MainOf
  <1>6. CASE h.phase # "main"
    <2>1. Main(d)' = Main(d)
      BY <1>2, <1>6, Zenon DEF Main
    <2>2. pc'[d] # "track"
      BY <1>6 DEF Submit
    <2> QED BY <1>1, <1>2, <1>5, <2>1, <2>2, Zenon DEF MainOf, Main
  <1>7. CASE h.phase = "main"
    <2>1. Main(d) = {}
      BY <1>1, <1>7 DEF MainOf
    <2>2. Main(d)' = IF r = "error" THEN {} ELSE {h}
      <3>1. \A g \in Handlers : g \in Main(d)' <=> g = h /\ r # "error"
        BY <1>2, <1>3, <1>7, <2>1 DEF Main
      <3>2. Main(d)' \subseteq Handlers
        BY DEF Main
      <3> QED BY <3>1, <3>2
    <2>3. \A g \in todo'[d] : g.phase # "main"
      BY <1>1, <1>7 DEF Served
    <2>4. <<d, h>> \notin tracked' /\ reports'[<<d, h>>] = 0
      BY <1>1 DEF MainOf
    <2>5. r # "error" /\ r \notin Terminal => pc'[d] = "track"
      BY <1>7 DEF Submit, Tracks
    <2> QED BY <1>2, <1>5, <2>2, <2>3, <2>4, <2>5, Zenon DEF MainOf
  <1> QED BY <1>6, <1>7

LEMMA MainNext == Types /\ OrderInv /\ ReportInv /\ [Next]_vars => \A d \in Dispatches : MainOf(d)'
  <1> SUFFICES ASSUME Types, OrderInv, ReportInv, [Next]_vars, NEW d \in Dispatches
               PROVE  MainOf(d)'
    OBVIOUS
  <1> USE DEF Types
  <1>0. MainOf(d) /\ OrderOf(d) /\ PollInv
    BY DEF ReportInv, OrderInv
  <1>1. ASSUME UNCHANGED <<dispatchVars, tracked, reports, lost>> PROVE MainOf(d)'
    BY <1>0, <1>1, MainStays DEF dispatchVars
  <1>2. ASSUME NEW e \in Dispatches, Lookup(e) PROVE MainOf(d)'
    <2>0. UNCHANGED <<ret, tracked, reports, lost>>
      BY <1>2 DEF Lookup, history
    <2>1. CASE e = d
      <3>1. /\ Main(d)' = {} /\ pc'[d] # "track"
            /\ \A h \in Handlers : ret'[d][h] = "none"
        BY <1>0, <1>2, <2>0, <2>1 DEF Lookup, OrderOf, Main
      <3> QED BY <1>0, <2>0, <3>1 DEF MainOf
    <2>2. CASE e # d
      <3>1. pc'[d] = pc[d] /\ todo'[d] = todo[d]
        BY <1>2, <2>2 DEF Lookup
      <3> QED BY <1>0, <2>0, <3>1, MainStays
    <2> QED BY <2>1, <2>2
  <1>3. ASSUME NEW e \in Dispatches, Track(e) PROVE MainOf(d)'
    <2>0. UNCHANGED <<ret, todo, reports, lost>>
      BY <1>3 DEF Track, history
    <2>1. CASE e = d
      <3>1. Main(d)' = Main(d) /\ pc'[d] # "track"
        BY <1>3, <2>0, <2>1 DEF Track, Main
      <3>2. \A h \in Main(d) : <<d, h>> \in tracked'
        BY <1>3, <2>1 DEF Track
      <3>3. \A h \in Handlers : <<d, h>> \in tracked' => <<d, h>> \in tracked \/ h \in Main(d)
        BY <1>3, <2>1, RunParts DEF Track
      <3>4. \A h \in Handlers : ret[d][h] = "none" => h \notin Main(d)
        BY DEF Main
      <3> QED BY <1>0, <2>0, <3>1, <3>2, <3>3, <3>4 DEF MainOf
    <2>2. CASE e # d
      <3>1. pc'[d] = pc[d]
        BY <1>3, <2>2 DEF Track
      <3>2. \A h \in Handlers : <<d, h>> \in tracked' <=> <<d, h>> \in tracked
        BY <1>3, <2>2, RunParts DEF Track, Main
      <3> QED BY <1>0, <2>0, <3>1, <3>2, MainStays, Zenon
    <2> QED BY <2>1, <2>2
  <1>4. ASSUME NEW e \in Dispatches, NEW h \in Handlers, NEW r \in SubmitResults, Submit(e, h, r)
        PROVE  MainOf(d)'
    <2>1. CASE e = d
      BY <1>0, <1>4, <2>1, MainSubmit
    <2>2. CASE e # d
      <3>1. pc'[d] = pc[d] /\ todo'[d] = todo[d] /\ ret'[d] = ret[d]
        BY <1>4, <2>2, Zenon DEF Submit
      <3>2. UNCHANGED <<tracked, reports, lost>>
        BY <1>4 DEF Submit, history
      <3> QED BY <1>0, <3>1, <3>2, MainStays
    <2> QED BY <2>1, <2>2
  <1>5. ASSUME NEW r \in Runs, NEW ok \in BOOLEAN, Callback(r, ok) PROVE MainOf(d)'
    <2>1. UNCHANGED <<dispatchVars, tracked, lost>> /\ reports' = [reports EXCEPT ![r] = @ + 1]
      BY <1>5 DEF Callback, history
    <2>2. r \in tracked /\ reports[r] = 0
      BY <1>0, <1>5 DEF Callback, PollInv
    <2>3. reports'[r] = 1 /\ \A q \in Runs : q # r => reports'[q] = reports[q]
      BY <2>1, <2>2
    <2>4. \A h \in Handlers : \/ reports'[<<d, h>>] = reports[<<d, h>>]
                              \/ reports'[<<d, h>>] = 1 /\ <<d, h>> \in tracked
      BY <2>2, <2>3, RunParts, Zenon
    <2> QED BY <1>0, <2>1, <2>4, MainStays DEF dispatchVars
  <1>6. ASSUME NEW r \in Runs, Untrack(r) PROVE MainOf(d)'
    <2>1. UNCHANGED <<dispatchVars, reports, lost>> /\ tracked' = tracked \ {r}
      BY <1>6 DEF Untrack, history
    <2>2. reports[r] = 1
      BY <1>0, <1>6 DEF Untrack, PollInv
    <2>3. \A h \in Handlers : /\ <<d, h>> \in tracked' => <<d, h>> \in tracked
                              /\ <<d, h>> \in tracked => <<d, h>> \in tracked' \/ reports'[<<d, h>>] = 1
      BY <2>1, <2>2, Zenon
    <2> QED BY <1>0, <2>1, <2>3, MainStays DEF dispatchVars
  <1>7. CASE Crash
    <2>1. Main(d)' = Main(d) /\ UNCHANGED <<ret, reports>> /\ tracked' = {} /\ todo'[d] = {} /\ pc'[d] = "done"
      BY <1>7 DEF Crash, Main
    <2>2. \A h \in Main(d) : <<d, h>> \in lost'
      BY <1>7, RunParts DEF Crash, Main
    <2> QED BY <1>0, <2>1, <2>2 DEF MainOf
  <1> QED BY <1>1, <1>2, <1>3, <1>4, <1>5, <1>6, <1>7
          DEF Next, DispatchStep, PollStep, Advance, PollStart, PollSkip, PollEnded, vars, history

LEMMA PollNext == Types /\ ReportInv /\ [Next]_vars => PollInv'
  <1> SUFFICES ASSUME Types, ReportInv, [Next]_vars PROVE PollInv'
    OBVIOUS
  <1> USE DEF Types
  <1>0. PollInv
    BY DEF ReportInv
  <1>1. ASSUME UNCHANGED <<tracked, pollVars, reports>> PROVE PollInv'
    BY <1>0, <1>1 DEF PollInv, pollVars
  <1>2. ASSUME NEW d \in Dispatches, Track(d) PROVE PollInv'
    <2>1. /\ UNCHANGED <<pollVars, reports>>
          /\ tracked' = tracked \cup {<<d, h>> : h \in Main(d)}
      BY <1>2 DEF Track
    <2>2. \A r \in tracked' : r \in tracked \/ reports[r] = 0
      BY <1>2, <2>1 DEF Track, ReportInv, MainOf
    <2> QED BY <1>0, <2>1, <2>2 DEF PollInv, pollVars
  <1>3. CASE PollStart
    BY <1>0, <1>3 DEF PollStart, PollInv
  <1>4. ASSUME NEW r \in Runs, PollSkip(r) PROVE PollInv'
    BY <1>0, <1>4 DEF PollSkip, AfterRun, PollInv
  <1>5. ASSUME NEW r \in Runs, PollEnded(r) PROVE PollInv'
    BY <1>0, <1>5 DEF PollEnded, PollInv
  <1>6. ASSUME NEW r \in Runs, NEW ok \in BOOLEAN, Callback(r, ok) PROVE PollInv'
    <2>1. /\ UNCHANGED <<batch, current, tracked>> /\ poll' = "untrack" /\ poll = "callback"
          /\ reports' = [reports EXCEPT ![r] = @ + 1] /\ r \in current
      BY <1>6 DEF Callback
    <2>2. current = {r} /\ r \in batch /\ reports[r] = 0
      BY <1>0, <2>1 DEF PollInv
    <2>3. reports'[r] = 1 /\ \A q \in Runs : q # r => reports'[q] = reports[q]
      BY <2>1, <2>2
    <2>4. \A q \in Runs : reports'[q] <= 1
      BY <1>0, <2>3 DEF PollInv
    <2>5. \A q \in tracked : reports'[q] = 0 \/ q = r
      BY <1>0, <2>1, <2>3 DEF PollInv
    <2> QED BY <2>1, <2>2, <2>3, <2>4, <2>5 DEF PollInv
  <1>7. ASSUME NEW r \in Runs, Untrack(r) PROVE PollInv'
    BY <1>0, <1>7 DEF Untrack, AfterRun, PollInv
  <1>8. CASE Crash
    BY <1>0, <1>8 DEF Crash, PollInv
  <1>9. ASSUME NEW d \in Dispatches, DispatchStep(d) PROVE PollInv'
    <2>1. ASSUME NEW h \in Handlers, NEW x \in SubmitResults, Submit(d, h, x) PROVE PollInv'
      BY <1>1, <2>1, Zenon DEF Submit
    <2>2. CASE Lookup(d)
      BY <1>1, <2>2, Zenon DEF Lookup
    <2> QED BY <1>2, <1>9, <2>1, <2>2, Zenon DEF DispatchStep
  <1>10. ASSUME NEW r \in Runs, NEW x \in {"running"} \cup Terminal, Advance(r, x) PROVE PollInv'
    BY <1>1, <1>10, Zenon DEF Advance
  <1>11. CASE PollStep
    BY <1>3, <1>4, <1>5, <1>6, <1>7, <1>11, Zenon DEF PollStep
  <1>12. CASE UNCHANGED vars
    BY <1>1, <1>12, Zenon DEF vars
  <1> QED BY <1>8, <1>9, <1>10, <1>11, <1>12, Zenon DEF Next

LEMMA Invariant == Spec => []IInv
  <1>1. Init => IInv
    BY TypesInit, OrderInit, ReportInit DEF IInv
  <1>2. IInv /\ [Next]_vars => IInv'
    BY TypesNext, OrderNext, MainNext, PollNext DEF IInv, ReportInv
  <1> QED BY <1>1, <1>2, PTL DEF Spec

(* In every execution, whatever the executor answers and however often the   *)
(* process crashes, Dispatch submits handlers by phase and priority, and     *)
(* none behind a pre handler that was not submitted, or for which Submit     *)
(* returned an error or a failed run.  It does not wait for runs to end.     *)
THEOREM GatedOrder == Spec => []PhasesInOrder
  <1>1. IInv => PhasesInOrder
    BY OrderInvImplies DEF IInv
  <1> QED BY <1>1, Invariant, PTL

(* The status callback is invoked at most once for a run, and no run that    *)
(* Dispatch got back unfinished is forgotten but by a crash: pollOnce's copy *)
(* of the map cannot make it report a run again or drop one.                 *)
THEOREM ReportedOnce == Spec => []EachRunReportedOnce
  <1>1. IInv => EachRunReportedOnce
    BY DEF IInv, ReportInv, PollInv, MainOf, EachRunReportedOnce
  <1> QED BY <1>1, Invariant, PTL

=============================================================================
