---------------------------- MODULE GenericStore ----------------------------
(***************************************************************************)
(* GenericStore of resource/store.go over one table and one organisation,  *)
(* with the parent checks of nesting.go, the status updater, and clients   *)
(* that read, edit and write resources through it concurrently.            *)
(*                                                                         *)
(* One action is one SQL statement.  The store opens no transaction, so    *)
(* statements of different calls interleave freely.  Every statement but   *)
(* INSERT sees only rows that are not soft-deleted; a soft-deleted row     *)
(* keeps its primary key.                                                  *)
(***************************************************************************)
EXTENDS Integers, FiniteSets

CONSTANTS
  Names,           \* resource names
  Clients,         \* callers of the store, one call at a time each
  Specs,           \* values of the spec column
  Finalizers,      \* finalizers a client may set
  Statuses,        \* values of the status column
  NoParent,        \* a NULL or empty parent
  PartialParents,  \* parents that callers put into PartialUpdate's fields
  MaxVersion       \* bound: no write is attempted from this version on

ASSUME GenericStoreAssumption ==
  /\ NoParent \notin Names
  /\ Specs # {} /\ Statuses # {}
  /\ PartialParents \subseteq Names \cup {NoParent}
  /\ MaxVersion \in Nat \ {0}

VARIABLES
  row,      \* the table, by name
  pc,       \* the next statement of each client's call
  name,     \* the resource the client's call is about
  copy,     \* the client's resource struct
  base,     \* history: that struct as the store last returned it
  cur,      \* ValidateParent's current ancestor
  visited   \* ValidateParent's visited set

callVars == <<pc, name, copy, base, cur, visited>>
vars == <<row, callVars>>

Row == [state : {"absent", "live", "deleted"}, rv : Nat, gen : Nat, spec : Specs,
        parent : Names \cup {NoParent}, fin : SUBSET Finalizers,
        del : BOOLEAN, status : Statuses]

(* The struct of a new resource, and of a client that holds none. *)
Fresh(s, p, f) == [state |-> "absent", rv |-> 0, gen |-> 0, spec |-> s,
                   parent |-> p, fin |-> f, del |-> FALSE,
                   status |-> CHOOSE st \in Statuses : TRUE]

NoCopy == Fresh(CHOOSE s \in Specs : TRUE, NoParent, {})

Live(n) == row[n].state = "live"
HasCopy(c) == copy[c].rv > 0

(* The WHERE of an optimistic write: deleted_at IS NULL comes from the       *)
(* soft-delete scope, the version from the store.                            *)
(* Mutants: without the version; without the scope.                          *)
Matches_NoVersion(c) == Live(name[c])

Matches_NoScope(c) == row[name[c]].rv = copy[c].rv

Matches(c) == Live(name[c]) /\ row[name[c]].rv = copy[c].rv

(* BeforeCreate's default for a version or generation. *)
Initial(v) == IF v = 0 THEN 1 ELSE v

(* Whether Update finds the stored spec different.  Mutant: always. *)
SpecChanged_Always(c) == TRUE

SpecChanged(c) == row[name[c]].spec # copy[c].spec

(* HasChildren.  Mutant: only children created under the parent count. *)
Children_Created(n) == {m \in Names : Live(m) /\ row[m].parent = n /\ row[m].rv = 1}

Children(n) == {m \in Names : Live(m) /\ row[m].parent = n}

(* Delete's test on the row it read.  Mutant: any earlier request will do. *)
FinalizersPending_Once(c) == copy[c].fin # {} /\ ~copy[c].del

FinalizersPending(c) == copy[c].fin # {}

(* The ancestors ValidateParent refuses. *)
Circular(c) == cur[c] \in visited[c]

(* Mutant: the ancestors that the walk has seen are not noted. *)
Visit_Not(c) == visited[c]

Visit(c) == visited[c] \cup {cur[c]}

----------------------------------------------------------------------------

Init ==
  /\ row = [n \in Names |-> NoCopy]
  /\ pc = [c \in Clients |-> "idle"]
  /\ name \in [Clients -> Names]
  /\ copy = [c \in Clients |-> NoCopy]
  /\ base = [c \in Clients |-> NoCopy]
  /\ cur = [c \in Clients |-> NoParent]
  /\ visited = [c \in Clients |-> {}]

Goto(c, l) == pc' = [pc EXCEPT ![c] = l]

(* The client now holds r, as the table has it. *)
Hold(c, r) ==
  /\ copy' = [copy EXCEPT ![c] = r]
  /\ base' = [base EXCEPT ![c] = r]

(* The call returns and leaves the client with r. *)
Return(c, r) ==
  /\ Goto(c, "idle")
  /\ Hold(c, r)
  /\ cur' = [cur EXCEPT ![c] = NoParent]
  /\ visited' = [visited EXCEPT ![c] = {}]
  /\ UNCHANGED name

(* The call fails; its struct is thrown away. *)
Fail(c) == Return(c, NoCopy) /\ UNCHANGED row

Get(c, n) ==
  /\ pc[c] = "idle" /\ Live(n)
  /\ name' = [name EXCEPT ![c] = n]
  /\ Hold(c, row[n])
  /\ UNCHANGED <<row, pc, cur, visited>>

(* validateParent's first tests; a resource that names itself is refused     *)
(* before any statement.                                                     *)
Validate(c, n, p, next) ==
  /\ p # n
  /\ Goto(c, IF p = NoParent THEN next ELSE "exists")

StartCreate(c, n, s, p, f) ==
  /\ pc[c] = "idle"
  /\ Validate(c, n, p, "insert")
  /\ name' = [name EXCEPT ![c] = n]
  /\ copy' = [copy EXCEPT ![c] = Fresh(s, p, f)]
  /\ base' = [base EXCEPT ![c] = NoCopy]
  /\ UNCHANGED <<row, cur, visited>>

(* The client edits the struct it holds and calls Update. *)
StartUpdate(c, s, p, f) ==
  /\ pc[c] = "idle" /\ HasCopy(c) /\ copy[c].rv < MaxVersion
  /\ Validate(c, name[c], p, "read")
  /\ copy' = [copy EXCEPT ![c] = [@ EXCEPT !.spec = s, !.parent = p, !.fin = f]]
  /\ UNCHANGED <<row, name, base, cur, visited>>

(* ValidateParent's count of the parent. *)
ParentExists(c) ==
  /\ pc[c] = "exists"
  /\ \/ /\ Live(copy[c].parent)
        /\ Goto(c, "walk")
        /\ cur' = [cur EXCEPT ![c] = copy[c].parent]
        /\ visited' = [visited EXCEPT ![c] = {name[c]}]
        /\ UNCHANGED <<row, name, copy, base>>
     \/ ~Live(copy[c].parent) /\ Fail(c)

(* One turn of ValidateParent's loop; a missing ancestor ends it like a root. *)
Walk(c) ==
  /\ pc[c] = "walk"
  /\ \/ Circular(c) /\ Fail(c)
     \/ /\ ~Circular(c)
        /\ visited' = [visited EXCEPT ![c] = Visit(c)]
        /\ LET up == IF Live(cur[c]) THEN row[cur[c]].parent ELSE NoParent IN
           IF up = NoParent
             THEN Goto(c, IF HasCopy(c) THEN "read" ELSE "insert") /\ UNCHANGED cur
             ELSE cur' = [cur EXCEPT ![c] = up] /\ UNCHANGED pc
        /\ UNCHANGED <<row, name, copy, base>>

(* INSERT: a soft-deleted row is a duplicate key, too. *)
Insert(c) ==
  LET r == [copy[c] EXCEPT !.state = "live", !.rv = Initial(@), !.gen = Initial(@)] IN
  /\ pc[c] = "insert"
  /\ \/ /\ row[name[c]].state = "absent"
        /\ row' = [row EXCEPT ![name[c]] = r]
        /\ Return(c, r)
     \/ row[name[c]].state # "absent" /\ Fail(c)

(* Update reads the existing row and decides on the generation. *)
ReadExisting(c) ==
  LET g == copy[c].gen + (IF SpecChanged(c) THEN 1 ELSE 0) IN
  /\ pc[c] = "read"
  /\ \/ /\ Live(name[c])
        /\ copy' = [copy EXCEPT ![c] = [copy[c] EXCEPT !.gen = g]]
        /\ Goto(c, "cas")
        /\ UNCHANGED <<row, name, base, cur, visited>>
     \/ ~Live(name[c]) /\ Fail(c)

(* Update writes every column of the struct. *)
CasWrite(c) ==
  LET r == [copy[c] EXCEPT !.rv = @ + 1] IN
  /\ pc[c] = "cas"
  /\ \/ /\ Matches(c)
        /\ row' = [row EXCEPT ![name[c]] = r]
        /\ Return(c, r)
     \/ ~Matches(c) /\ Fail(c)

(* PartialUpdate with the version of the struct the client holds: no parent  *)
(* is validated and no generation counted.  On a mismatch nothing changes.   *)
PartialUpdate(c, s, p, f) ==
  LET r == [row[name[c]] EXCEPT !.rv = copy[c].rv + 1, !.spec = s, !.parent = p,
                                !.fin = f] IN
  /\ pc[c] = "idle" /\ HasCopy(c) /\ copy[c].rv < MaxVersion
  /\ Matches(c)
  /\ row' = [row EXCEPT ![name[c]] = r]
  /\ UNCHANGED callVars

DeleteRead(c, n) ==
  /\ pc[c] = "idle" /\ Live(n)
  /\ name' = [name EXCEPT ![c] = n]
  /\ Hold(c, row[n])
  /\ Goto(c, "children")
  /\ UNCHANGED <<row, cur, visited>>

(* Delete counts the children, and goes on by the finalizers it read. *)
CountChildren(c) ==
  /\ pc[c] = "children"
  /\ \/ Children(name[c]) # {} /\ Fail(c)
     \/ /\ Children(name[c]) = {}
        /\ Goto(c, IF FinalizersPending(c) THEN "stamp" ELSE "remove")
        /\ UNCHANGED <<row, name, copy, base, cur, visited>>

(* Delete's UPDATE of deletion_timestamp alone; ErrFinalizersPending follows *)
(* whether or not it found the row.                                          *)
Stamp(c) ==
  /\ pc[c] = "stamp"
  /\ row' = IF Live(name[c]) THEN [row EXCEPT ![name[c]].del = TRUE] ELSE row
  /\ Return(c, NoCopy)

(* The soft-delete, by name alone. *)
Remove(c) ==
  /\ pc[c] = "remove"
  /\ row' = IF Live(name[c]) THEN [row EXCEPT ![name[c]].state = "deleted"] ELSE row
  /\ Return(c, NoCopy)

(* StatusUpdater.UpdateStatus: one UPDATE that leaves the version alone. *)
UpdateStatus(n, st) ==
  /\ Live(n)
  /\ row' = [row EXCEPT ![n].status = st]
  /\ UNCHANGED callVars

(* A client calls the store, for names in N, with specs in S and finalizers  *)
(* in F.                                                                     *)
CallWith(c, N, S, F) ==
  \/ \E n \in N : Get(c, n) \/ DeleteRead(c, n)
  \/ \E s \in S, f \in F, p \in N \cup {NoParent} :
       \/ \E n \in N : StartCreate(c, n, s, p, f)
       \/ StartUpdate(c, s, p, f)
       \/ /\ p \in PartialParents \cup {row[name[c]].parent}
          /\ PartialUpdate(c, s, p, f)

Call(c) == CallWith(c, Names, Specs, SUBSET Finalizers)

(* A call that has begun goes on. *)
Step(c) == ParentExists(c) \/ Walk(c) \/ Insert(c) \/ ReadExisting(c) \/ CasWrite(c)
           \/ CountChildren(c) \/ Stamp(c) \/ Remove(c)

Next ==
  \/ \E c \in Clients : Call(c) \/ Step(c)
  \/ \E n \in Names, st \in Statuses : UpdateStatus(n, st)

Spec == Init /\ [][Next]_vars

(* The database answers every statement. *)
LiveSpec == Spec /\ \A c \in Clients : WF_vars(Step(c))

----------------------------------------------------------------------------

(* Rows and structs are resources, a row that was ever written has a version *)
(* and a generation, and a call is about a name.                             *)
TypeOK ==
  /\ row \in [Names -> Row]
  /\ \A n \in Names : row[n].state # "absent" => row[n].rv > 0 /\ row[n].gen > 0
  /\ pc \in [Clients -> {"idle", "exists", "walk", "insert", "read", "cas",
                         "children", "stamp", "remove"}]
  /\ name \in [Clients -> Names]
  /\ copy \in [Clients -> Row]
  /\ base \in [Clients -> Row]
  /\ cur \in [Clients -> Names \cup {NoParent}]
  /\ visited \in [Clients -> SUBSET Names]
  /\ \A c \in Clients : /\ pc[c] = "exists" => copy[c].parent \in Names
                        /\ pc[c] = "walk" => cur[c] \in Names

(* What a version stands for: not the status and not the deletion timestamp, *)
(* which are written without counting it up.                                 *)
Content(r) == <<r.spec, r.gen, r.parent, r.fin>>

(* A version identifies what was written under it: whoever holds a struct    *)
(* with the row's version holds the row's content, so that the version       *)
(* comparison of Update and PartialUpdate never overwrites a content the     *)
(* client has not seen.                                                      *)
VersionIdentifiesContent ==
  \A c \in Clients :
    base[c].rv > 0 /\ base[c].rv = row[name[c]].rv
      => Content(base[c]) = Content(row[name[c]])

(* A successful Update counts the generation up by one if it changes the     *)
(* spec and leaves it alone if it does not, though it compares the spec with *)
(* a row it read in an earlier statement.                                    *)
GenerationFollowsSpec ==
  [][\A c \in Clients :
       LET n == name[c] IN
       pc[c] = "cas" /\ pc'[c] = "idle" /\ row'[n] # row[n] =>
         row'[n].gen = row[n].gen + (IF row'[n].spec # row[n].spec THEN 1 ELSE 0)]_vars

(* A soft-deleted row never changes again: an Update that was under way when *)
(* the row was deleted does not bring it back, though it writes deleted_at.  *)
TombstoneIsFinal ==
  [][\A n \in Names : row[n].state = "deleted" => row'[n] = row[n]]_vars

(* ValidateParent's walk ends, also in a hierarchy that has a cycle or       *)
(* changes underneath it.                                                    *)
WalkEnds == \A c \in Clients : pc[c] = "walk" ~> pc[c] # "walk"

=============================================================================
