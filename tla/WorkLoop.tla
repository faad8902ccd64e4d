------------------------------ MODULE WorkLoop ------------------------------
(***************************************************************************)
(* The work loop of work/loop.go: one goroutine runs workFunc, sleeps for  *)
(* the rest of the interval, and starts over; Kick, called by any other,   *)
(* cuts a sleep short through a channel with room for one.                 *)
(*                                                                         *)
(* What is at stake is the work: callers make an item available and then   *)
(* kick; a round of workFunc handles the items that were there when it     *)
(* began.                                                                  *)
(***************************************************************************)
EXTENDS Integers

CONSTANT Items   \* pieces of work, each handed in by a caller of its own

VARIABLES
  item,    \* "new", "added", "kicked" (and added), "taken" or "done"
  late,    \* items taken by a round before their caller kicked
  kick,    \* how many kicks are in the channel
  pc,      \* the loop: "start", "check", "work", "sleep" or "stopped"
  ctx      \* the loop's context is cancelled

vars == <<item, late, kick, pc, ctx>>

(* What is in the channel after Kick's non-blocking send to one that holds   *)
(* k.  Mutant: no buffer, so only a sleeping loop gets it.                   *)
Sent_Unbuffered(k) == IF pc = "sleep" THEN 1 ELSE k

Sent(k) == IF k < 1 THEN k + 1 ELSE k

(* What ends a sleep other than the timer.  Mutant: not the context. *)
Awake_Kick == kick > 0

Awake == kick > 0 \/ ctx

----------------------------------------------------------------------------

Init ==
  /\ item = [i \in Items |-> "new"] /\ late = {}
  /\ kick = 0 /\ pc = "start" /\ ctx = FALSE

Add(i) ==
  /\ item[i] = "new"
  /\ item' = [item EXCEPT ![i] = "added"]
  /\ UNCHANGED <<late, kick, pc, ctx>>

(* Kick, by the caller that added i; the round may have been faster. *)
Kick(i) ==
  /\ \/ item[i] = "added" /\ item' = [item EXCEPT ![i] = "kicked"] /\ UNCHANGED late
     \/ i \in late /\ late' = late \ {i} /\ UNCHANGED item
  /\ kick' = Sent(kick)
  /\ UNCHANGED <<pc, ctx>>

(* The loop calls workFunc, or returns if its context is cancelled, which it *)
(* does not look at before the first round.                                  *)
Begin ==
  /\ pc = "start" \/ (pc = "check" /\ ~ctx)
  /\ pc' = "work"
  /\ late' = late \cup {i \in Items : item[i] = "added"}
  /\ item' = [i \in Items |-> IF item[i] \in {"added", "kicked"} THEN "taken" ELSE item[i]]
  /\ UNCHANGED <<kick, ctx>>

Stop ==
  /\ pc = "check" /\ ctx
  /\ pc' = "stopped"
  /\ UNCHANGED <<item, late, kick, ctx>>

(* workFunc returns, and took longer than the interval or did not: sleep     *)
(* returns at once, or waits.                                                *)
End ==
  /\ pc = "work"
  /\ pc' \in IF ctx THEN {"stopped"} ELSE {"check", "sleep"}
  /\ item' = [i \in Items |-> IF item[i] = "taken" THEN "done" ELSE item[i]]
  /\ UNCHANGED <<late, kick, ctx>>

Wake ==
  /\ pc = "sleep" /\ Awake
  /\ pc' = "check"
  /\ \/ kick > 0 /\ kick' = kick - 1
     \/ ctx /\ UNCHANGED kick
  /\ UNCHANGED <<item, late, ctx>>

Timer ==
  /\ pc = "sleep"
  /\ pc' = "check"
  /\ UNCHANGED <<item, late, kick, ctx>>

Cancel ==
  /\ ~ctx
  /\ ctx' = TRUE
  /\ UNCHANGED <<item, late, kick, pc>>

Run == Begin \/ Stop \/ End \/ Wake

Next == (\E i \in Items : Add(i) \/ Kick(i)) \/ Run \/ Timer \/ Cancel

Spec == Init /\ [][Next]_vars

(* The loop runs, and a caller that added goes on to kick.  The timer is     *)
(* left out: the interval may be as long as it likes.                        *)
LiveSpec == Spec /\ WF_vars(Run) /\ \A i \in Items : WF_vars(Kick(i))

----------------------------------------------------------------------------

(* Work is done however long the interval, unless the loop is stopped. *)
KickedIsDone == \A i \in Items : item[i] = "added" ~> (item[i] = "done" \/ ctx)

(* A cancelled loop returns, also from a sleep of any length. *)
CancelStops == ctx ~> pc = "stopped"

=============================================================================
