------------------------------ MODULE MCStore -------------------------------
(***************************************************************************)
(* A small instance of StoreRaces and Pagination for TLC.  Resources that  *)
(* are not each other's parents do not meet, and List only reads.  So one  *)
(* run has three parts:                                                    *)
(*   content: two clients with one resource and all that it may hold;      *)
(*   parents: two clients with two resources of which only the parents     *)
(*            matter and, once a race has made each the parent of the      *)
(*            other, a third one;                                          *)
(*   list:    one client that lists while others create and delete.        *)
(***************************************************************************)
EXTENDS StoreRaces, Pagination

CONSTANTS n1, n2, n3

ASSUME MCAssumption == Names = {n1, n2, n3} /\ Cardinality(Names) = 3

VARIABLE part

mcVars == <<raceVars, listVars, part>>

MCLimits == {-1, 1, 2}

MCInit ==
  /\ RaceInit /\ ListInit
  /\ \/ part = "content" /\ name \in [Clients -> {n1}] /\ table = {}
     \/ part = "parents" /\ name \in [Clients -> {n2, n3}] /\ table = {}
     \/ part = "list" /\ name \in [Clients -> {n1}]

Knot == row[n2].parent = n3 /\ row[n3].parent = n2

MCCall(c) ==
  \/ part = "content" /\ CallWith(c, {n1}, Specs, SUBSET Finalizers)
  \/ part = "parents" /\ CallWith(c, IF Knot THEN Names ELSE {n2, n3}, {NoCopy.spec}, {{}})

MCNext ==
  /\ \/ /\ part # "list" /\ \E c \in Clients : MCCall(c) \/ Step(c)
        /\ NoteRace /\ UNCHANGED listVars
     \/ /\ part = "content" /\ \E st \in Statuses : UpdateStatus(n1, st)
        /\ NoteRace /\ UNCHANGED listVars
     \/ part = "list" /\ ListNext /\ UNCHANGED raceVars
  /\ UNCHANGED part

MCSpec == MCInit /\ [][MCNext]_mcVars /\ Answers /\ Follows

=============================================================================
