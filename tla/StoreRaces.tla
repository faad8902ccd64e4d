----------------------------- MODULE StoreRaces -----------------------------
(***************************************************************************)
(* GenericStore with a record of races: whether a row was ever written     *)
(* between two statements of somebody else's call.  The checks that Create,*)
(* Update and Delete make before they write are made by statements of      *)
(* their own, and hold up exactly as long as there is no race.             *)
(***************************************************************************)
EXTENDS GenericStore

VARIABLE raced

raceVars == <<vars, raced>>

RaceInit == Init /\ raced = FALSE

(* A statement writes a row, other than its status, while a call of another  *)
(* client is between two statements.                                         *)
Race ==
  /\ \E n \in Names : row'[n] # [row[n] EXCEPT !.status = row'[n].status]
  /\ \E c \in Clients : pc[c] # "idle" /\ pc'[c] = pc[c]

NoteRace == raced' = (raced \/ Race)

RaceNext == Next /\ NoteRace

RaceSpec == RaceInit /\ [][RaceNext]_raceVars

(* The database answers every statement. *)
Answers == \A c \in Clients : WF_raceVars(Step(c) /\ NoteRace)

----------------------------------------------------------------------------

(* Short of a race the hierarchy is a forest of live resources: every parent *)
(* exists, as Delete protects (ErrHasChildren), and there is no set in which *)
(* all parents lie, as ValidateParent promises ("assigning it would not      *)
(* create a cycle", nesting.go:30).                                          *)
ForestUnlessRaced ==
  \/ raced
  \/ /\ \A n \in Names : Live(n) /\ row[n].parent # NoParent => Live(row[n].parent)
     /\ \A S \in SUBSET Names : S # {} => \E n \in S : ~Live(n) \/ row[n].parent \notin S

(* "Finalizers block soft-deletion" (docs/architecture.md:38): short of a    *)
(* race a row that has finalizers is not soft-deleted.                       *)
FinalizersBlockUnlessRaced ==
  [][raced \/ \A n \in Names : Live(n) /\ row[n].fin # {} => Live(n)']_raceVars

=============================================================================
