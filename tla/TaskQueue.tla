----------------------------- MODULE TaskQueue -----------------------------
(***************************************************************************)
(* What users of the Queue interface of work/queue.go may rely on whatever *)
(* implements it: a task is handed to one worker at most, and is settled   *)
(* only after that.  That every task is settled is not promised.           *)
(***************************************************************************)

CONSTANTS
  Tasks,        \* tasks, each enqueued at most once
  Workers,
  Discardable   \* tasks that may be dropped before any worker has them

VARIABLES
  state,        \* of each task: "new", "queued", "held" or "settled"
  holder        \* <<t, w>> where t was handed to w

vars == <<state, holder>>

Init ==
  /\ state = [t \in Tasks |-> "new"]
  /\ holder = {}

Enqueue(t) ==
  /\ state[t] = "new"
  /\ state' = [state EXCEPT ![t] = "queued"]
  /\ UNCHANGED holder

Claim(t, w) ==
  /\ state[t] = "queued"
  /\ state' = [state EXCEPT ![t] = "held"]
  /\ holder' = holder \cup {<<t, w>>}

Settle(t) ==
  /\ state[t] = "held"
  /\ state' = [state EXCEPT ![t] = "settled"]
  /\ UNCHANGED holder

Discard(t) ==
  /\ t \in Discardable /\ state[t] = "queued"
  /\ state' = [state EXCEPT ![t] = "settled"]
  /\ UNCHANGED holder

Next ==
  \E t \in Tasks : \/ Enqueue(t) \/ Settle(t) \/ Discard(t)
                   \/ \E w \in Workers : Claim(t, w)

Spec == Init /\ [][Next]_vars

=============================================================================
