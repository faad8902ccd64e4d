----------------------------- MODULE Pagination -----------------------------
(***************************************************************************)
(* GenericStore.List of resource/store.go and the continue tokens of       *)
(* resource/pagination.go: a client reads a list page by page while        *)
(* resources are created and deleted.                                      *)
(*                                                                         *)
(* A resource is its place in the sort order, so that a page, which is     *)
(* sorted, is a set.  A token is its offset: encoding and decoding it are  *)
(* inverse to each other.  A request is two statements, COUNT and SELECT.  *)
(***************************************************************************)
EXTENDS Integers, FiniteSets

CONSTANTS
  Last,          \* the resources are 1 .. Last, in sort order
  Limits,        \* the limits a request may ask for
  DefaultLimit   \* what List makes of a limit that is not positive

ASSUME PaginationAssumption ==
  /\ Last \in Nat
  /\ Limits \subseteq Int /\ Limits # {}
  /\ DefaultLimit \in Nat \ {0}

VARIABLES
  table,     \* the live rows
  used,      \* names taken: a soft-deleted row keeps its key
  step,      \* the client's next statement
  offset,    \* the offset in the token of the current request
  total,     \* what this request has counted
  got,       \* resources the client was sent
  again,     \* resources it was sent more than once
  kept,      \* history: rows that have been there since the listing began
  inserts,   \* history: rows created since then
  deletes    \* history: rows deleted since then

list == <<step, offset, total, got, again>>
listVars == <<table, used, list, kept, inserts, deletes>>

Resources == 1 .. Last

ListInit ==
  /\ table \in SUBSET Resources
  /\ used = table
  /\ step = "idle" /\ offset = 0 /\ total = 0
  /\ got = {} /\ again = {}
  /\ kept = {} /\ inserts = 0 /\ deletes = 0

(* The rows of t in sort order, from position o on, at most l of them. *)
Page(t, o, l) ==
  {x \in t : LET rank == Cardinality({y \in t : y < x}) IN o <= rank /\ rank < o + l}

Effective(l) == IF l <= 0 THEN DefaultLimit ELSE l

(* Where the next page begins.  Mutant: one row too early. *)
NextOffset_Overlap(o, n) == IF n > 1 THEN o + n - 1 ELSE o + n

NextOffset(o, n) == o + n

(* Whether the response has a token.  Mutant: one page more than there is. *)
More_Full(o, t) == o <= t

More(o, t) == o < t

(* The client asks for the first page. *)
Begin ==
  /\ step = "idle"
  /\ step' = "count" /\ offset' = 0 /\ total' = 0
  /\ got' = {} /\ again' = {}
  /\ kept' = table /\ inserts' = 0 /\ deletes' = 0
  /\ UNCHANGED <<table, used>>

(* COUNT, before the page is read. *)
Count ==
  /\ step = "count"
  /\ total' = Cardinality(table)
  /\ step' = "find"
  /\ UNCHANGED <<table, used, offset, got, again, kept, inserts, deletes>>

(* SELECT ... LIMIT OFFSET; then the client follows the token, if any. *)
Find(l) ==
  LET items == Page(table, offset, Effective(l))
      next == NextOffset(offset, Cardinality(items)) IN
  /\ step = "find"
  /\ got' = got \cup items
  /\ again' = again \cup (got \cap items)
  /\ IF More(next, total)
       THEN step' = "count" /\ offset' = next
       ELSE step' = "done" /\ UNCHANGED offset
  /\ UNCHANGED <<table, used, total, kept, inserts, deletes>>

(* The client is done and may list again. *)
Finish ==
  /\ step = "done"
  /\ step' = "idle"
  /\ UNCHANGED <<table, used, offset, total, got, again, kept, inserts, deletes>>

(* Another client creates or deletes a resource. *)
Create(x) ==
  /\ x \notin used
  /\ table' = table \cup {x} /\ used' = used \cup {x}
  /\ inserts' = inserts + 1
  /\ UNCHANGED <<list, kept, deletes>>

Delete(x) ==
  /\ x \in table
  /\ table' = table \ {x} /\ kept' = kept \ {x}
  /\ deletes' = deletes + 1
  /\ UNCHANGED <<used, list, inserts>>

ListNext ==
  \/ Begin \/ Count \/ Finish
  \/ \E l \in Limits : Find(l)
  \/ \E x \in Resources : Create(x) \/ Delete(x)

ListSpec == ListInit /\ [][ListNext]_listVars

(* The client goes on as long as it is given a token. *)
Follows == WF_listVars(Count) /\ WF_listVars(\E l \in Limits : Find(l))

----------------------------------------------------------------------------


(* What does hold.  A listing repeats and misses resources when others are   *)
(* created or deleted between its pages, but it is no further off than they  *)
(* are many: it repeats at most one for each one created since it began, and *)
(* at its end has missed at most one for each created or deleted.            *)
PagesAreAccurate ==
  /\ Cardinality(again) <= inserts
  /\ step = "done" => Cardinality(kept \ got) <= inserts + deletes

(* The client does not follow tokens for ever, since a name is created and   *)
(* deleted only once: even a page that comes back empty makes progress.      *)
ListingEnds == step = "count" ~> step = "done"

=============================================================================
