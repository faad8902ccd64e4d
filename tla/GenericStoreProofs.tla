------------------------ MODULE GenericStoreProofs ------------------------
(***************************************************************************)
(* Proofs about GenericStore, for any number of names and clients.  IInv   *)
(* adds to the types what a client's struct has to do with the row it was  *)
(* read from, at every point of a call.  The last part is about Pagination *)
(* and shares nothing with the others but the module.                      *)
(***************************************************************************)
EXTENDS StoreRaces, Pagination, FiniteSetTheorems, TLAPS

(* A struct that was read from the store is of a row that exists, and of a   *)
(* version that row has or had; under the same version it has its content.   *)
BaseInv ==
  \A c \in Clients : base[c].rv > 0 =>
    LET r == row[name[c]] IN
    /\ r.state # "absent"
    /\ base[c].rv <= r.rv
    /\ base[c].rv = r.rv => Content(base[c]) = Content(r)

(* How far the client's struct has moved from the one it read. *)
CopyInv ==
  \A c \in Clients :
    /\ copy[c].rv = base[c].rv
    /\ copy[c].rv > 0 => copy[c].state = "live" /\ copy[c].gen > 0
    /\ pc[c] = "idle" => copy[c] = base[c]
    /\ pc[c] = "insert" => copy[c].rv = 0
    /\ pc[c] \in {"read", "cas"} => copy[c].rv > 0
    /\ pc[c] \in {"exists", "walk", "read"} => copy[c].gen = base[c].gen
    /\ pc[c] = "cas" /\ row[name[c]].rv = base[c].rv =>
         copy[c].gen = base[c].gen + (IF copy[c].spec # base[c].spec THEN 1 ELSE 0)

IInv == TypeOK /\ BaseInv /\ CopyInv

(* The empty struct, and every fresh one, is a row with neither version nor  *)
(* generation.                                                               *)
LEMMA FreshRow ==
  /\ NoCopy \in Row /\ NoCopy.rv = 0 /\ NoCopy.gen = 0 /\ NoCopy.state = "absent"
  /\ \A s \in Specs, p \in Names \cup {NoParent}, f \in SUBSET Finalizers :
       LET r == Fresh(s, p, f) IN r \in Row /\ r.rv = 0 /\ r.gen = 0
  <1>1. (CHOOSE s \in Specs : TRUE) \in Specs /\ (CHOOSE s \in Statuses : TRUE) \in Statuses
    BY GenericStoreAssumption
  <1> QED BY <1>1 DEF NoCopy, Fresh, Row

(* Initially the table is empty and nobody holds anything. *)
LEMMA InitIInv == Init => IInv
  <1> SUFFICES ASSUME Init PROVE IInv
    OBVIOUS
  <1> USE DEF Init
  <1>1. TypeOK
    BY FreshRow DEF TypeOK
  <1>2. BaseInv
    BY FreshRow DEF BaseInv
  <1>3. CopyInv
    BY FreshRow DEF CopyInv
  <1> QED BY <1>1, <1>2, <1>3 DEF IInv

(* A failed call leaves the table alone and the client with nothing. *)
LEMMA FailIInv ==
  ASSUME IInv, NEW c \in Clients, Fail(c)
  PROVE  IInv'
  <1> USE DEF IInv, Fail, Return, Hold, Goto
  <1>1. TypeOK'
    BY FreshRow DEF TypeOK
  <1>2. BaseInv'
    BY FreshRow DEF BaseInv, TypeOK
  <1>3. CopyInv'
    BY FreshRow DEF CopyInv, TypeOK
  <1> QED BY <1>1, <1>2, <1>3

(* Get hands out the row itself. *)
LEMMA GetIInv ==
  ASSUME IInv, NEW c \in Clients, NEW n \in Names, Get(c, n)
  PROVE  IInv'
  <1> USE DEF IInv, Get, Hold, Live
  <1>1. TypeOK'
    BY DEF TypeOK
  <1>2. BaseInv'
    BY DEF BaseInv, TypeOK, Row
  <1>3. CopyInv'
    BY DEF CopyInv, TypeOK, Row
  <1> QED BY <1>1, <1>2, <1>3

(* Create begins with a fresh struct. *)
LEMMA StartCreateIInv ==
  ASSUME IInv, NEW c \in Clients, NEW n \in Names, NEW s \in Specs,
         NEW p \in Names \cup {NoParent}, NEW f \in SUBSET Finalizers,
         StartCreate(c, n, s, p, f)
  PROVE  IInv'
  <1> USE DEF IInv, StartCreate, Validate, Goto
  <1> DEFINE r == Fresh(s, p, f)
  <1>0. r \in Row /\ r.rv = 0 /\ r.gen = 0 /\ r.parent = p
    BY FreshRow DEF Fresh
  <1> HIDE DEF r
  <1>a. copy' = [copy EXCEPT ![c] = r]
    BY DEF r
  <1>1. TypeOK'
    BY <1>0, <1>a, FreshRow DEF TypeOK
  <1>2. BaseInv'
    BY FreshRow DEF BaseInv, TypeOK
  <1>3. CopyInv'
    BY <1>0, <1>a, FreshRow DEF CopyInv, TypeOK
  <1> QED BY <1>1, <1>2, <1>3

(* Update begins with an edit of the struct, which keeps version and         *)
(* generation.                                                               *)
LEMMA StartUpdateIInv ==
  ASSUME IInv, NEW c \in Clients, NEW s \in Specs,
         NEW p \in Names \cup {NoParent}, NEW f \in SUBSET Finalizers,
         StartUpdate(c, s, p, f)
  PROVE  IInv'
  <1> USE DEF IInv, StartUpdate, Validate, Goto, HasCopy
  <1> DEFINE r == [copy[c] EXCEPT !.spec = s, !.parent = p, !.fin = f]
  <1>b. copy[c] \in Row
    BY DEF TypeOK
  <1>0. r \in Row /\ r.rv = copy[c].rv /\ r.gen = copy[c].gen
        /\ r.state = copy[c].state /\ r.parent = p
    BY <1>b DEF Row
  <1>a. copy' = [copy EXCEPT ![c] = r]
    BY DEF TypeOK
  <1> HIDE DEF r
  <1>1. TypeOK'
    BY <1>0, <1>a DEF TypeOK
  <1>2. BaseInv'
    BY DEF BaseInv, TypeOK
  <1>3. CopyInv'
    BY <1>0, <1>a DEF CopyInv, TypeOK
  <1> QED BY <1>1, <1>2, <1>3

(* ValidateParent's existence check only decides where the call goes on. *)
LEMMA ParentExistsIInv ==
  ASSUME IInv, NEW c \in Clients, ParentExists(c)
  PROVE  IInv'
  <1>1. CASE Fail(c)
    BY <1>1, FailIInv
  <1>2. CASE ~Fail(c)
    <2> USE <1>2 DEF IInv, ParentExists, Goto
    <2>1. TypeOK'
      BY DEF TypeOK
    <2>2. BaseInv'
      BY DEF BaseInv, TypeOK
    <2>3. CopyInv'
      BY DEF CopyInv, TypeOK
    <2> QED BY <2>1, <2>2, <2>3
  <1> QED BY <1>1, <1>2

(* ValidateParent's walk reads one ancestor and moves on. *)
LEMMA WalkIInv ==
  ASSUME IInv, NEW c \in Clients, Walk(c)
  PROVE  IInv'
  <1>1. CASE Fail(c)
    BY <1>1, FailIInv
  <1>2. CASE ~Fail(c)
    <2> USE <1>2 DEF IInv, Walk, Goto, HasCopy, Visit
    <2>0. \A n \in Names : row[n].parent \in Names \cup {NoParent}
      BY DEF TypeOK, Row
    <2>1. TypeOK'
      BY <2>0 DEF TypeOK
    <2>2. BaseInv'
      BY DEF BaseInv, TypeOK
    <2>3. CopyInv'
      BY DEF CopyInv, TypeOK, Row
    <2> QED BY <2>1, <2>2, <2>3
  <1> QED BY <1>1, <1>2

(* Delete's count of children only decides where the call goes on. *)
LEMMA CountChildrenIInv ==
  ASSUME IInv, NEW c \in Clients, CountChildren(c)
  PROVE  IInv'
  <1>1. CASE Fail(c)
    BY <1>1, FailIInv
  <1>2. CASE ~Fail(c)
    <2> USE <1>2 DEF IInv, CountChildren, Goto
    <2>1. TypeOK'
      BY DEF TypeOK
    <2>2. BaseInv'
      BY DEF BaseInv, TypeOK
    <2>3. CopyInv'
      BY DEF CopyInv, TypeOK
    <2> QED BY <2>1, <2>2, <2>3
  <1> QED BY <1>1, <1>2

(* Delete's read gives the client the row as it is. *)
LEMMA DeleteReadIInv ==
  ASSUME IInv, NEW c \in Clients, NEW n \in Names, DeleteRead(c, n)
  PROVE  IInv'
  <1> USE DEF IInv, DeleteRead, Hold, Live, Goto
  <1>1. TypeOK'
    BY DEF TypeOK
  <1>2. BaseInv'
    BY DEF BaseInv, TypeOK, Row
  <1>3. CopyInv'
    BY DEF CopyInv, TypeOK, Row
  <1> QED BY <1>1, <1>2, <1>3

(* INSERT puts a first version where nobody holds one yet. *)
LEMMA InsertIInv ==
  ASSUME IInv, NEW c \in Clients, Insert(c)
  PROVE  IInv'
  <1>1. CASE Fail(c)
    BY <1>1, FailIInv
  <1>2. CASE ~Fail(c)
    <2> DEFINE v == Initial(copy[c].rv)
               g == Initial(copy[c].gen)
               r == [copy[c] EXCEPT !.state = "live", !.rv = v, !.gen = g]
    <2>a. copy[c] \in Row /\ v \in Nat /\ v > 0 /\ g \in Nat /\ g > 0
      BY DEF IInv, TypeOK, Row, Initial
    <2>c. /\ row[name[c]].state = "absent"
          /\ row' = [row EXCEPT ![name[c]] = r]
          /\ Return(c, r)
      BY <1>2 DEF Insert
    <2> HIDE DEF v, g
    <2>b. r \in Row /\ r.state = "live" /\ r.rv = v /\ r.gen = g
      BY <2>a DEF Row
    <2> HIDE DEF r
    <2> USE <2>a, <2>b, <2>c DEF IInv, Return, Hold, Goto
    <2>1. TypeOK'
      BY DEF TypeOK
    <2>2. BaseInv'
      BY DEF BaseInv, TypeOK, Row
    <2>3. CopyInv'
      BY DEF CopyInv, BaseInv, TypeOK, Row
    <2> QED BY <2>1, <2>2, <2>3
  <1> QED BY <1>1, <1>2

(* If the row Update reads is still of the version the client read, its spec *)
(* is the one the client read; if not, the version has gone up for good.     *)
LEMMA ReadExistingIInv ==
  ASSUME IInv, NEW c \in Clients, ReadExisting(c)
  PROVE  IInv'
  <1>1. CASE Fail(c)
    BY <1>1, FailIInv
  <1>2. CASE ~Fail(c)
    <2> DEFINE g == copy[c].gen + (IF SpecChanged(c) THEN 1 ELSE 0)
    <2> DEFINE r == [copy[c] EXCEPT !.gen = g]
    <2>a. copy[c] \in Row /\ g \in Nat /\ (copy[c].gen > 0 => g > 0)
      BY DEF IInv, TypeOK, Row
    <2>b. r \in Row /\ r.gen = g /\ r.state = copy[c].state /\ r.rv = copy[c].rv
          /\ r.spec = copy[c].spec
      BY <2>a DEF Row
    <2>c. /\ pc[c] = "read"
          /\ copy' = [copy EXCEPT ![c] = r]
          /\ pc' = [pc EXCEPT ![c] = "cas"]
          /\ UNCHANGED <<row, name, base, cur, visited>>
      BY <1>2 DEF ReadExisting, Goto
    <2>d. row[name[c]].rv = base[c].rv =>
            g = base[c].gen + (IF copy[c].spec # base[c].spec THEN 1 ELSE 0)
      BY <2>c DEF IInv, CopyInv, BaseInv, Content, SpecChanged, TypeOK, Row
    <2> HIDE DEF r, g
    <2> USE <2>a, <2>b, <2>c DEF IInv
    <2>1. TypeOK'
      BY DEF TypeOK
    <2>2. BaseInv'
      BY DEF BaseInv, TypeOK
    <2>3. CopyInv'
      BY <2>d DEF CopyInv, TypeOK
    <2> QED BY <2>1, <2>2, <2>3
  <1> QED BY <1>1, <1>2

(* A write by version is one above every version a client has read. *)
LEMMA CasWriteIInv ==
  ASSUME IInv, NEW c \in Clients, CasWrite(c)
  PROVE  IInv'
  <1>1. CASE Fail(c)
    BY <1>1, FailIInv
  <1>2. CASE ~Fail(c)
    <2> DEFINE r == [copy[c] EXCEPT !.rv = @ + 1]
    <2>a. copy[c] \in Row /\ copy[c].rv > 0 /\ copy[c].rv \in Nat
          /\ copy[c].gen > 0 /\ copy[c].state = "live"
      BY DEF IInv, TypeOK, Row, CasWrite, CopyInv
    <2>b. r \in Row /\ r.state = "live" /\ r.rv = copy[c].rv + 1 /\ r.gen > 0
      BY <2>a DEF Row
    <2>c. /\ row[name[c]].rv = copy[c].rv
          /\ row' = [row EXCEPT ![name[c]] = r]
          /\ Return(c, r)
      BY <1>2 DEF CasWrite, Matches
    <2> HIDE DEF r
    <2> USE <2>a, <2>b, <2>c DEF IInv, Return, Hold, Goto
    <2>1. TypeOK'
      BY DEF TypeOK
    <2>2. BaseInv'
      BY DEF BaseInv, TypeOK, Row
    <2>3. CopyInv'
      BY DEF CopyInv, BaseInv, TypeOK, Row
    <2> QED BY <2>1, <2>2, <2>3
  <1> QED BY <1>1, <1>2

(* PartialUpdate raises the version above every one a client has read. *)
LEMMA PartialUpdateIInv ==
  ASSUME IInv, NEW c \in Clients, NEW s \in Specs,
         NEW p \in Names \cup {NoParent}, NEW f \in SUBSET Finalizers,
         PartialUpdate(c, s, p, f)
  PROVE  IInv'
  <1> DEFINE old == row[name[c]]
             v == copy[c].rv + 1
             r == [old EXCEPT !.rv = v, !.spec = s, !.parent = p, !.fin = f]
  <1>a. old \in Row /\ old.state = "live" /\ old.gen > 0 /\ old.rv \in Nat
        /\ v = old.rv + 1
    BY DEF IInv, TypeOK, Row, PartialUpdate, Matches, Live
  <1>c. row' = [row EXCEPT ![name[c]] = r] /\ UNCHANGED callVars
    BY DEF PartialUpdate
  <1>d. old \in Row /\ v \in Nat
    BY <1>a
  <1> HIDE DEF old, v
  <1>b. r \in Row /\ r.state = old.state /\ r.rv = v /\ r.gen = old.gen
    BY <1>d DEF Row
  <1> HIDE DEF r
  <1> USE <1>a, <1>b, <1>c DEF IInv, callVars, old
  <1>1. TypeOK'
    BY DEF TypeOK
  <1>2. BaseInv'
    BY DEF BaseInv, TypeOK, Row
  <1>3. CopyInv'
    BY DEF CopyInv, BaseInv, TypeOK, Row
  <1> QED BY <1>1, <1>2, <1>3

(* A write that leaves version, content and existence of the row alone. *)
LEMMA MarkIInv ==
  ASSUME IInv, NEW n \in Names, NEW r \in Row, row' = [row EXCEPT ![n] = r],
         r.state # "absent", row[n].state # "absent",
         r.rv = row[n].rv, Content(r) = Content(row[n])
  PROVE  /\ UNCHANGED callVars => IInv'
         /\ \A c \in Clients : Return(c, NoCopy) => IInv'
  <1>0. r.gen = row[n].gen
    BY DEF Content
  <1>1. ASSUME UNCHANGED callVars PROVE IInv'
    <2> USE <1>0, <1>1 DEF IInv, callVars
    <2>1. TypeOK'
      BY DEF TypeOK
    <2>2. BaseInv'
      BY DEF BaseInv, TypeOK
    <2>3. CopyInv'
      BY DEF CopyInv, TypeOK
    <2> QED BY <2>1, <2>2, <2>3
  <1>2. ASSUME NEW c \in Clients, Return(c, NoCopy) PROVE IInv'
    <2> USE <1>0, <1>2, FreshRow DEF IInv, Return, Hold, Goto
    <2>1. TypeOK'
      BY DEF TypeOK
    <2>2. BaseInv'
      BY DEF BaseInv, TypeOK
    <2>3. CopyInv'
      BY DEF CopyInv, TypeOK
    <2> QED BY <2>1, <2>2, <2>3
  <1> QED BY <1>1, <1>2

(* Setting the deletion timestamp leaves version and content alone. *)
LEMMA StampIInv ==
  ASSUME IInv, NEW c \in Clients, Stamp(c)
  PROVE  IInv'
  <1>1. CASE ~Live(name[c])
    BY <1>1, FailIInv DEF Stamp, Fail
  <1>2. CASE Live(name[c])
    <2> DEFINE r == [row[name[c]] EXCEPT !.del = TRUE]
    <2>1. row[name[c]] \in Row /\ name[c] \in Names
      BY DEF IInv, TypeOK
    <2>2. r \in Row /\ r.state = "live" /\ r.rv = row[name[c]].rv
          /\ Content(r) = Content(row[name[c]])
      BY <1>2, <2>1 DEF Row, Content, Live
    <2>3. row' = [row EXCEPT ![name[c]] = r] /\ Return(c, NoCopy)
      BY <1>2 DEF Stamp
    <2> HIDE DEF r
    <2> QED BY <1>2, <2>1, <2>2, <2>3, MarkIInv DEF Live
  <1> QED BY <1>1, <1>2

(* The soft-delete leaves version and content alone. *)
LEMMA RemoveIInv ==
  ASSUME IInv, NEW c \in Clients, Remove(c)
  PROVE  IInv'
  <1>1. CASE ~Live(name[c])
    BY <1>1, FailIInv DEF Remove, Fail
  <1>2. CASE Live(name[c])
    <2> DEFINE r == [row[name[c]] EXCEPT !.state = "deleted"]
    <2>1. row[name[c]] \in Row /\ name[c] \in Names
      BY DEF IInv, TypeOK
    <2>2. r \in Row /\ r.state = "deleted" /\ r.rv = row[name[c]].rv
          /\ Content(r) = Content(row[name[c]])
      BY <2>1 DEF Row, Content
    <2>3. row' = [row EXCEPT ![name[c]] = r] /\ Return(c, NoCopy)
      BY <1>2 DEF Remove
    <2> HIDE DEF r
    <2> QED BY <1>2, <2>1, <2>2, <2>3, MarkIInv DEF Live
  <1> QED BY <1>1, <1>2

(* The status update leaves version and content alone. *)
LEMMA UpdateStatusIInv ==
  ASSUME IInv, NEW n \in Names, NEW st \in Statuses, UpdateStatus(n, st)
  PROVE  IInv'
  <1> DEFINE r == [row[n] EXCEPT !.status = st]
  <1>1. row[n] \in Row
    BY DEF IInv, TypeOK
  <1>2. r \in Row /\ r.state = row[n].state /\ r.rv = row[n].rv
        /\ Content(r) = Content(row[n])
    BY <1>1 DEF Row, Content
  <1>3. row' = [row EXCEPT ![n] = r] /\ UNCHANGED callVars /\ row[n].state = "live"
    BY DEF UpdateStatus, Live
  <1> HIDE DEF r
  <1> QED BY <1>1, <1>2, <1>3, MarkIInv

(* IInv is inductive: one case per action. *)
LEMMA NextIInv == IInv /\ [Next]_vars => IInv'
  <1> SUFFICES ASSUME IInv, [Next]_vars PROVE IInv'
    OBVIOUS
  <1>1. ASSUME NEW c \in Clients, Call(c) PROVE IInv'
    <2>1. CASE \E n \in Names : Get(c, n) \/ DeleteRead(c, n)
      BY <2>1, GetIInv, DeleteReadIInv
    <2>2. ASSUME NEW s \in Specs, NEW f \in SUBSET Finalizers,
                 NEW p \in Names \cup {NoParent},
                 \/ \E n \in Names : StartCreate(c, n, s, p, f)
                 \/ StartUpdate(c, s, p, f)
                 \/ PartialUpdate(c, s, p, f)
          PROVE  IInv'
      BY <2>2, StartCreateIInv, StartUpdateIInv, PartialUpdateIInv
    <2> QED BY <1>1, <2>1, <2>2 DEF Call, CallWith
  <1>2. ASSUME NEW c \in Clients, Step(c) PROVE IInv'
    BY <1>2, ParentExistsIInv, WalkIInv, InsertIInv, ReadExistingIInv, CasWriteIInv,
       CountChildrenIInv, StampIInv, RemoveIInv DEF Step
  <1>3. ASSUME NEW n \in Names, NEW st \in Statuses, UpdateStatus(n, st) PROVE IInv'
    BY <1>3, UpdateStatusIInv
  <1>4. CASE UNCHANGED vars
    <2> USE <1>4 DEF vars, callVars, IInv
    <2>1. TypeOK'
      BY DEF TypeOK
    <2>2. BaseInv'
      BY DEF BaseInv
    <2>3. CopyInv'
      BY DEF CopyInv
    <2> QED BY <2>1, <2>2, <2>3
  <1> QED BY <1>1, <1>2, <1>3, <1>4 DEF Next

(* IInv holds in every reachable state. *)
THEOREM IInvAlways == Spec => []IInv
  BY InitIInv, NextIInv, PTL DEF Spec

(* The table and the clients' structs stay in their types. *)
THEOREM TypeCorrect == Spec => []TypeOK
  <1>1. IInv => TypeOK
    BY DEF IInv
  <1> QED BY <1>1, IInvAlways, PTL

(* Optimistic concurrency is sound: equal versions mean equal contents. *)
THEOREM VersionsSound == Spec => []VersionIdentifiesContent
  <1>1. IInv => VersionIdentifiesContent
    BY DEF IInv, BaseInv, VersionIdentifiesContent
  <1> QED BY <1>1, IInvAlways, PTL

(* Update counts the generation exactly when it changes the spec. *)
THEOREM GenerationSound == Spec => GenerationFollowsSpec
  <1> DEFINE Counts(c) ==
        LET n == name[c] IN
        pc[c] = "cas" /\ pc'[c] = "idle" /\ row'[n] # row[n] =>
          row'[n].gen = row[n].gen + (IF row'[n].spec # row[n].spec THEN 1 ELSE 0)
  <1>1. IInv /\ [Next]_vars => [\A c \in Clients : Counts(c)]_vars
    <2> SUFFICES ASSUME IInv, Next, NEW c \in Clients,
                        pc[c] = "cas", pc'[c] = "idle", row'[name[c]] # row[name[c]]
                 PROVE  LET n == name[c] IN
                        row'[n].gen = row[n].gen
                                      + (IF row'[n].spec # row[n].spec THEN 1 ELSE 0)
      OBVIOUS
    <2>1. pc = [d \in Clients |-> pc[d]]
      BY DEF IInv, TypeOK
    <2>2. CasWrite(c)
      <3>1. ASSUME NEW d \in Clients, d # c, Call(d) \/ Step(d) PROVE pc'[c] = pc[c]
        BY <2>1, <3>1 DEF Call, CallWith, Step, Get, DeleteRead, StartCreate, StartUpdate, PartialUpdate,
           ParentExists, Walk, Insert, ReadExisting, CasWrite, CountChildren, Stamp, Remove,
           Validate, Return, Fail, Goto, callVars
      <3>2. ~Call(c)
        BY DEF Call, CallWith, Get, DeleteRead, StartCreate, StartUpdate, PartialUpdate
      <3>3. ASSUME NEW n \in Names, NEW st \in Statuses, UpdateStatus(n, st)
            PROVE  pc'[c] = pc[c]
        BY <3>3 DEF UpdateStatus, callVars
      <3>4. Step(c)
        BY <3>1, <3>2, <3>3 DEF Next
      <3> QED BY <3>4 DEF Step, ParentExists, Walk, Insert, ReadExisting, CountChildren,
                          Stamp, Remove
    <2> DEFINE v == copy[c].rv + 1
               r == [copy[c] EXCEPT !.rv = v]
    <2>3. Matches(c) /\ row' = [row EXCEPT ![name[c]] = r]
      BY <2>2 DEF CasWrite, Fail
    <2>4. copy[c] \in Row /\ v \in Nat /\ name[c] \in Names /\ row \in [Names -> Row]
      BY DEF IInv, TypeOK, Row
    <2> HIDE DEF v
    <2>5. r.gen = copy[c].gen /\ r.spec = copy[c].spec
      BY <2>4 DEF Row
    <2>6. row'[name[c]] = r
      BY <2>3, <2>4
    <2> HIDE DEF r
    <2>7. /\ copy[c].gen = base[c].gen + (IF copy[c].spec # base[c].spec THEN 1 ELSE 0)
          /\ base[c].rv > 0 /\ base[c].rv = row[name[c]].rv
      BY <2>3 DEF IInv, CopyInv, Matches
    <2>8. base[c].gen = row[name[c]].gen /\ base[c].spec = row[name[c]].spec
      BY <2>7 DEF IInv, BaseInv, Content
    <2> QED BY <2>5, <2>6, <2>7, <2>8
  <1> QED BY <1>1, IInvAlways, PTL DEF Spec, GenerationFollowsSpec

(* No write reaches a soft-deleted row. *)
THEOREM TombstoneSound == Spec => TombstoneIsFinal
  <1> DEFINE Final == \A n \in Names : row[n].state = "deleted" => row'[n] = row[n]
  <1>1. IInv /\ [Next]_vars => [Final]_vars
    <2> SUFFICES ASSUME IInv, Next, NEW n \in Names, row[n].state = "deleted"
                 PROVE  row'[n] = row[n]
      OBVIOUS
    <2>0. row \in [Names -> Row] /\ name \in [Clients -> Names]
      BY DEF IInv, TypeOK
    <2>1. ASSUME NEW c \in Clients, Call(c) PROVE row'[n] = row[n]
      BY <2>0, <2>1 DEF Call, CallWith, Get, DeleteRead, StartCreate, StartUpdate, PartialUpdate,
         Matches, Live
    <2>2. ASSUME NEW c \in Clients, Step(c) PROVE row'[n] = row[n]
      <3>1. CASE Insert(c)
        BY <2>0, <3>1 DEF Insert, Fail
      <3>2. CASE CasWrite(c)
        BY <2>0, <3>2 DEF CasWrite, Matches, Live, Fail
      <3>3. CASE Stamp(c) \/ Remove(c)
        BY <2>0, <3>3 DEF Stamp, Remove, Live
      <3> QED BY <2>2, <3>1, <3>2, <3>3 DEF Step, ParentExists, Walk, ReadExisting,
                 CountChildren, Fail
    <2>3. ASSUME NEW m \in Names, NEW st \in Statuses, UpdateStatus(m, st)
          PROVE  row'[n] = row[n]
      BY <2>0, <2>3 DEF UpdateStatus, Live
    <2> QED BY <2>1, <2>2, <2>3 DEF Next
  <1> QED BY <1>1, IInvAlways, PTL DEF Spec, TombstoneIsFinal

----------------------------------------------------------------------------
(* Races.  Short of a race no row changes under a call in progress, so what  *)
(* its statements have found out is still so when it writes.                 *)

(* The parents of the resources in W are in W, as far as they have any. *)
Closed(W) == \A v \in W : Live(v) /\ row[v].parent # NoParent => row[v].parent \in W

(* Those that ValidateParent has visited on its way up, without the resource *)
(* whose parent it validates.                                                *)
Ancestors(c) == visited[c] \ {name[c]}

(* What ValidateParent has found out by each point of a Create or Update. *)
ParentInv(c) ==
  LET p == copy[c].parent IN
  /\ pc[c] \in {"exists", "walk", "insert", "read", "cas"} => p # name[c]
  /\ pc[c] = "walk" =>
       /\ name[c] \in visited[c] /\ Live(p) /\ p \in Ancestors(c) \cup {cur[c]}
       /\ \A v \in Ancestors(c) : row[v].parent \in Ancestors(c) \cup {cur[c]}
  /\ pc[c] \in {"insert", "read", "cas"} /\ p # NoParent =>
       Live(p) /\ p \in Ancestors(c) /\ Closed(Ancestors(c))

(* What Delete has found out. *)
DeleteInv(c) ==
  /\ pc[c] \in {"children", "remove"} => copy[c].fin = row[name[c]].fin
  /\ pc[c] = "remove" => copy[c].fin = {} /\ Children(name[c]) = {}

Forest ==
  /\ \A n \in Names : Live(n) /\ row[n].parent # NoParent => Live(row[n].parent)
  /\ \A S \in SUBSET Names : S # {} => \E n \in S : ~Live(n) \/ row[n].parent \notin S

FreshInv == raced \/ \A c \in Clients : ParentInv(c) /\ DeleteInv(c)

(* What the invariants above read of a row. *)
SameRows ==
  \A n \in Names : /\ row'[n].state = row[n].state /\ row'[n].parent = row[n].parent
                   /\ row'[n].fin = row[n].fin

(* The variables of a call. *)
SameCall(c) ==
  /\ pc'[c] = pc[c] /\ name'[c] = name[c] /\ copy'[c] = copy[c]
  /\ cur'[c] = cur[c] /\ visited'[c] = visited[c]

(* A call is not concerned by a step that leaves it and the rows alone. *)
LEMMA CallStays ==
  ASSUME IInv, NEW c \in Clients, SameRows, SameCall(c), ParentInv(c), DeleteInv(c)
  PROVE  ParentInv(c)' /\ DeleteInv(c)'
  <1>1. \A n \in Names : Live(n)' <=> Live(n)
    BY DEF SameRows, Live
  <1>2. name[c] \in Names /\ Ancestors(c) \subseteq Names /\ copy[c].parent \in Names \cup {NoParent}
    BY DEF IInv, TypeOK, Row, Ancestors
  <1>3. Ancestors(c)' = Ancestors(c) /\ Children(name[c])' = Children(name[c])
    BY <1>1 DEF Ancestors, SameCall, SameRows, Children
  <1>4. Closed(Ancestors(c))' <=> Closed(Ancestors(c))
    BY <1>1, <1>2, <1>3 DEF Closed, SameRows
  <1>5. pc[c] = "walk" => copy[c].parent \in Names
    BY <1>2 DEF ParentInv, IInv, TypeOK
  <1>6. ParentInv(c)'
    BY <1>1, <1>2, <1>3, <1>4, <1>5 DEF ParentInv, SameCall, SameRows
  <1>7. DeleteInv(c)'
    BY <1>2, <1>3 DEF DeleteInv, SameCall, SameRows
  <1> QED BY <1>6, <1>7

(* A client's step is of its own call. *)
LEMMA FrameOf ==
  ASSUME IInv, NEW c \in Clients, Call(c) \/ Step(c), NEW d \in Clients, d # c
  PROVE  SameCall(d)
  <1>0. /\ pc = [e \in Clients |-> pc[e]] /\ name = [e \in Clients |-> name[e]]
        /\ copy = [e \in Clients |-> copy[e]] /\ cur = [e \in Clients |-> cur[e]]
        /\ visited = [e \in Clients |-> visited[e]]
    BY DEF IInv, TypeOK
  <1>1. CASE Call(c)
    BY <1>0, <1>1 DEF Call, CallWith, Get, DeleteRead, StartCreate, StartUpdate, PartialUpdate,
       Validate, Hold, Goto, callVars, SameCall
  <1>2. CASE Step(c)
    BY <1>0, <1>2 DEF Step, ParentExists, Walk, Insert, ReadExisting, CasWrite, CountChildren,
       Stamp, Remove, Return, Fail, Hold, Goto, SameCall
  <1> QED BY <1>1, <1>2

(* Nor is a call by a step of another client, if that is no race. *)
LEMMA OthersStay ==
  ASSUME IInv, NEW c \in Clients, Call(c) \/ Step(c), ~Race,
         NEW d \in Clients, d # c, ParentInv(d), DeleteInv(d)
  PROVE  ParentInv(d)' /\ DeleteInv(d)'
  <1>1. SameCall(d)
    BY FrameOf
  <1>2. CASE pc[d] = "idle"
    BY <1>1, <1>2 DEF SameCall, ParentInv, DeleteInv
  <1>3. CASE pc[d] # "idle"
    <2>1. \A n \in Names : row'[n] = [row[n] EXCEPT !.status = row'[n].status]
      BY <1>1, <1>3 DEF Race, SameCall
    <2>2. \A n \in Names : row[n] \in Row
      BY DEF IInv, TypeOK
    <2>3. SameRows
      BY <2>1, <2>2 DEF SameRows, Row
    <2> QED BY <1>1, <2>3, CallStays
  <1> QED BY <1>2, <1>3

(* The failure of a call, like its return, leaves nothing to be known. *)
LEMMA IdleFresh ==
  ASSUME IInv, NEW c \in Clients, pc'[c] = "idle"
  PROVE  ParentInv(c)' /\ DeleteInv(c)'
  BY DEF ParentInv, DeleteInv

(* A turn of the walk: the ancestor is a new one, and its parent is next. *)
LEMMA WalkFresh ==
  ASSUME IInv, NEW c \in Clients, ParentInv(c), Walk(c)
  PROVE  ParentInv(c)' /\ DeleteInv(c)'
  <1>0. pc = [e \in Clients |-> pc[e]] /\ cur = [e \in Clients |-> cur[e]]
        /\ visited = [e \in Clients |-> visited[e]]
    BY DEF IInv, TypeOK
  <1>1. CASE Fail(c)
    BY <1>0, <1>1, IdleFresh DEF Fail, Return, Goto
  <1>2. CASE ~Fail(c)
    <2> DEFINE up == IF Live(cur[c]) THEN row[cur[c]].parent ELSE NoParent
    <2>1. /\ pc[c] = "walk" /\ cur[c] \notin visited[c]
          /\ UNCHANGED <<row, name, copy, base>>
          /\ visited'[c] = visited[c] \cup {cur[c]}
          /\ \/ up = NoParent /\ pc'[c] \in {"read", "insert"}
             \/ up # NoParent /\ pc'[c] = "walk" /\ cur'[c] = up
      BY <1>0, <1>2 DEF Walk, Goto, Circular, Visit
    <2>2. DeleteInv(c)'
      BY <2>1 DEF DeleteInv
    <2>3. /\ name[c] \in visited[c] /\ name[c] # cur[c]
          /\ Ancestors(c)' = Ancestors(c) \cup {cur[c]}
      BY <2>1 DEF ParentInv, Ancestors
    <2>4. /\ copy[c].parent # name[c] /\ Live(copy[c].parent) /\ Live(copy[c].parent)'
          /\ copy'[c].parent = copy[c].parent /\ copy[c].parent \in Ancestors(c)'
          /\ \A v \in Ancestors(c) : row[v].parent \in Ancestors(c)'
      BY <2>1, <2>3 DEF ParentInv, Live
    <2>5. CASE up # NoParent
      <3>1. row[cur[c]].parent = cur'[c] /\ pc'[c] = "walk"
        BY <2>1, <2>5
      <3>2. \A v \in Ancestors(c)' : row'[v].parent \in Ancestors(c)' \cup {cur'[c]}
        BY <2>1, <2>3, <2>4, <3>1
      <3> QED BY <2>1, <2>2, <2>3, <2>4, <3>1, <3>2 DEF ParentInv
    <2>6. CASE up = NoParent
      <3>1. Closed(Ancestors(c))'
        BY <2>1, <2>3, <2>4, <2>6 DEF Closed, Live
      <3>2. pc'[c] \in {"read", "insert"}
        BY <2>1, <2>6
      <3> QED BY <2>1, <2>2, <2>4, <3>1, <3>2 DEF ParentInv
    <2> QED BY <2>5, <2>6
  <1> QED BY <1>1, <1>2

(* The client's own step. *)
LEMMA OwnFresh ==
  ASSUME IInv, NEW c \in Clients, ParentInv(c), DeleteInv(c), Call(c) \/ Step(c)
  PROVE  ParentInv(c)' /\ DeleteInv(c)'
  <1>0. pc = [e \in Clients |-> pc[e]] /\ copy = [e \in Clients |-> copy[e]]
        /\ name = [e \in Clients |-> name[e]] /\ cur = [e \in Clients |-> cur[e]]
        /\ visited = [e \in Clients |-> visited[e]] /\ copy[c] \in Row
    BY DEF IInv, TypeOK
  <1>1. ASSUME NEW n \in Names, Get(c, n) \/ DeleteRead(c, n) PROVE ParentInv(c)' /\ DeleteInv(c)'
    BY <1>0, <1>1 DEF Get, DeleteRead, Hold, Goto, ParentInv, DeleteInv
  <1>2. ASSUME NEW n \in Names, NEW s \in Specs, NEW p \in Names \cup {NoParent},
               NEW f \in SUBSET Finalizers, StartCreate(c, n, s, p, f)
        PROVE  ParentInv(c)' /\ DeleteInv(c)'
    <2>1. copy'[c].parent = p /\ name'[c] = n /\ p # n
          /\ pc'[c] = IF p = NoParent THEN "insert" ELSE "exists"
      BY <1>0, <1>2 DEF StartCreate, Fresh, Validate, Goto
    <2> QED BY <2>1 DEF ParentInv, DeleteInv
  <1>3. ASSUME NEW s \in Specs, NEW p \in Names \cup {NoParent},
               NEW f \in SUBSET Finalizers, StartUpdate(c, s, p, f)
        PROVE  ParentInv(c)' /\ DeleteInv(c)'
    <2>1. copy'[c].parent = p /\ name'[c] = name[c] /\ p # name[c]
          /\ pc'[c] = IF p = NoParent THEN "read" ELSE "exists"
      BY <1>0, <1>3 DEF StartUpdate, Row, Validate, Goto
    <2> QED BY <2>1 DEF ParentInv, DeleteInv
  <1>4. ASSUME NEW s \in Specs, NEW p \in Names \cup {NoParent},
               NEW f \in SUBSET Finalizers, PartialUpdate(c, s, p, f)
        PROVE  ParentInv(c)' /\ DeleteInv(c)'
    BY <1>4, IdleFresh DEF PartialUpdate, callVars
  <1>5. CASE ParentExists(c)
    <2>1. CASE Fail(c)
      BY <1>0, <2>1, IdleFresh DEF Fail, Return, Goto
    <2>2. CASE ~Fail(c)
      <3>1. /\ pc[c] = "exists" /\ pc'[c] = "walk" /\ Live(copy[c].parent) /\ UNCHANGED <<row, name, copy>>
            /\ cur'[c] = copy[c].parent /\ visited'[c] = {name[c]}
        BY <1>0, <1>5, <2>2 DEF ParentExists, Goto
      <3> QED BY <3>1 DEF ParentInv, DeleteInv, Ancestors, Live
    <2> QED BY <2>1, <2>2
  <1>6. CASE Walk(c)
    BY <1>6, WalkFresh
  <1>7. CASE ReadExisting(c)
    <2>1. CASE Fail(c)
      BY <1>0, <2>1, IdleFresh DEF Fail, Return, Goto
    <2>2. CASE ~Fail(c)
      <3>1. /\ pc[c] = "read" /\ pc'[c] = "cas" /\ UNCHANGED <<row, name, cur, visited>>
            /\ copy'[c].parent = copy[c].parent
        BY <1>0, <1>7, <2>2 DEF ReadExisting, Goto, Row
      <3>2. /\ Ancestors(c)' = Ancestors(c) /\ Closed(Ancestors(c))' = Closed(Ancestors(c))
            /\ Live(copy[c].parent)' = Live(copy[c].parent)
        BY <3>1 DEF Ancestors, Closed, Live
      <3> QED BY <3>1, <3>2 DEF ParentInv, DeleteInv
    <2> QED BY <2>1, <2>2
  <1>8. CASE CountChildren(c)
    <2>1. CASE Fail(c)
      BY <1>0, <2>1, IdleFresh DEF Fail, Return, Goto
    <2>2. CASE ~Fail(c)
      <3>1. /\ pc[c] = "children" /\ UNCHANGED <<row, name, copy>> /\ Children(name[c]) = {}
            /\ \/ pc'[c] = "remove" /\ copy[c].fin = {}
               \/ pc'[c] = "stamp"
        BY <1>0, <1>8, <2>2 DEF CountChildren, FinalizersPending, Goto
      <3>2. Children(name[c])' = Children(name[c])
        BY <3>1 DEF Children, Live
      <3> QED BY <3>1, <3>2 DEF ParentInv, DeleteInv
    <2> QED BY <2>1, <2>2
  <1>9. CASE Insert(c) \/ CasWrite(c) \/ Stamp(c) \/ Remove(c)
    BY <1>0, <1>9, IdleFresh DEF Insert, CasWrite, Stamp, Remove, Fail, Return, Goto
  <1>10. CASE Call(c)
    BY <1>1, <1>2, <1>3, <1>4, <1>10 DEF Call, CallWith
  <1> QED BY <1>5, <1>6, <1>7, <1>8, <1>9, <1>10 DEF Step

(* Fresh knowledge stays fresh. *)
LEMMA FreshNext == IInv /\ FreshInv /\ [RaceNext]_raceVars => FreshInv'
  <1> SUFFICES ASSUME IInv, FreshInv, [RaceNext]_raceVars, ~raced', NEW d \in Clients
               PROVE  ParentInv(d)' /\ DeleteInv(d)'
    BY DEF FreshInv
  <1>1. CASE UNCHANGED raceVars
    <2>1. ~raced /\ SameRows /\ SameCall(d)
      BY <1>1 DEF raceVars, vars, callVars, SameRows, SameCall
    <2> QED BY <2>1, CallStays DEF FreshInv
  <1>2. CASE RaceNext
    <2>1. ~raced /\ ~Race /\ ParentInv(d) /\ DeleteInv(d) /\ Next
      BY <1>2 DEF RaceNext, NoteRace, FreshInv
    <2>2. ASSUME NEW c \in Clients, Call(c) \/ Step(c) PROVE ParentInv(d)' /\ DeleteInv(d)'
      <3>1. CASE c = d
        BY <2>1, <2>2, <3>1, OwnFresh
      <3>2. CASE c # d
        BY <2>1, <2>2, <3>2, OthersStay
      <3> QED BY <3>1, <3>2
    <2>3. ASSUME NEW n \in Names, NEW st \in Statuses, UpdateStatus(n, st)
          PROVE  ParentInv(d)' /\ DeleteInv(d)'
      <3>1. SameRows
        BY <2>3 DEF IInv, TypeOK, Row, UpdateStatus, SameRows
      <3>2. SameCall(d)
        BY <2>3 DEF UpdateStatus, callVars, SameCall
      <3> QED BY <2>1, <3>1, <3>2, CallStays
    <2> QED BY <2>1, <2>2, <2>3 DEF Next
  <1> QED BY <1>1, <1>2

(* A row whose parent was validated joins a forest: a set that is closed     *)
(* under parents and contains it would have contained one without it.        *)
LEMMA JoinForest ==
  ASSUME IInv, Forest, NEW c \in Clients, NEW r \in Row,
         row' = [row EXCEPT ![name[c]] = r], r.state = "live", r.parent = copy[c].parent,
         pc[c] \in {"insert", "cas"}, ParentInv(c)
  PROVE  Forest'
  <1> DEFINE n == name[c]
             p == copy[c].parent
             W == Ancestors(c)
  <1>1. /\ n \in Names /\ p # n /\ p \in Names \cup {NoParent} /\ n \notin W /\ W \subseteq Names
        /\ p # NoParent => Live(p) /\ p \in W /\ Closed(W)
    BY DEF IInv, TypeOK, Row, ParentInv, Ancestors
  <1>2. /\ row'[n].state = "live" /\ row'[n].parent = p
        /\ \A m \in Names : m # n => row'[m] = row[m] /\ (Live(m)' <=> Live(m))
    BY <1>1 DEF IInv, TypeOK, Live
  <1>3. ASSUME NEW m \in Names, Live(m)', row'[m].parent # NoParent
        PROVE  row'[row'[m].parent].state = "live"
    <2>1. CASE m = n
      BY <1>1, <1>2, <1>3, <2>1 DEF Live
    <2>2. CASE m # n
      <3>1. Live(m) /\ row'[m].parent = row[m].parent /\ row[m].parent \in Names
        BY <1>2, <1>3, <2>2 DEF IInv, TypeOK, Row
      <3>2. Live(row[m].parent)
        BY <1>3, <3>1 DEF Forest
      <3> QED BY <1>2, <3>1, <3>2 DEF Live
    <2> QED BY <2>1, <2>2
  <1>4. ASSUME NEW S \in SUBSET Names, S # {}, \A m \in S : Live(m)' /\ row'[m].parent \in S
        PROVE  FALSE
    <2>1. CASE n \notin S
      <3>1. \A m \in S : Live(m) /\ row[m].parent \in S
        BY <1>2, <1>4, <2>1
      <3> QED BY <1>4, <3>1 DEF Forest
    <2>2. CASE n \in S
      <3>1. p \in S /\ p # NoParent
        BY <1>2, <1>4, <2>2, GenericStoreAssumption
      <3>2. p \in S \cap W
        BY <1>1, <3>1
      <3>3. \A m \in S \cap W : Live(m) /\ row[m].parent \in S \cap W
        BY <1>1, <1>2, <1>4, <3>1, GenericStoreAssumption DEF Closed
      <3> QED BY <3>2, <3>3 DEF Forest
    <2> QED BY <2>1, <2>2
  <1>5. \A S \in SUBSET Names : S # {} => \E m \in S : ~Live(m)' \/ row'[m].parent \notin S
    BY <1>4
  <1> QED BY <1>3, <1>5 DEF Forest, Live

(* A step that takes no resource away from under another, and gives none a   *)
(* parent, keeps a forest.                                                   *)
LEMMA KeepForest ==
  ASSUME IInv, Forest,
         \A n \in Names : /\ Live(n)' => Live(n)
                          /\ row'[n].parent \in {row[n].parent, NoParent}
                          /\ Live(n) /\ ~Live(n)' => Children(n) = {}
  PROVE  Forest'
  <1>1. ASSUME NEW m \in Names, Live(m)', row'[m].parent # NoParent
        PROVE  row'[row'[m].parent].state = "live"
    <2>1. Live(m) /\ row'[m].parent = row[m].parent
      BY <1>1, Zenon
    <2>2. row \in [Names -> Row]
      BY Zenon DEF IInv, TypeOK
    <2>3. row[m].parent \in Names
      BY <1>1, <2>1, <2>2 DEF Row
    <2>4. Live(row[m].parent)
      BY <1>1, <2>1, Zenon DEF Forest
    <2>5. m \in Children(row[m].parent)
      BY <2>1 DEF Children
    <2> QED BY <2>1, <2>3, <2>4, <2>5 DEF Live
  <1>2. ASSUME NEW S \in SUBSET Names, S # {}, \A m \in S : Live(m)' /\ row'[m].parent \in S
        PROVE  FALSE
    <2>1. \A m \in S : Live(m) /\ row[m].parent \in S
      BY <1>2, GenericStoreAssumption
    <2> QED BY <1>2, <2>1 DEF Forest
  <1> QED BY <1>1, <1>2 DEF Forest, Live

LEMMA ForestNext ==
  ASSUME PartialParents \subseteq {NoParent}
  PROVE  IInv /\ FreshInv /\ (raced \/ Forest) /\ [RaceNext]_raceVars => (raced \/ Forest)'
  <1>a. raced /\ [RaceNext]_raceVars => raced'
    BY Zenon DEF RaceNext, NoteRace, raceVars
  <1> SUFFICES ASSUME IInv, FreshInv, Forest, ~raced, [RaceNext]_raceVars PROVE Forest'
    BY <1>a
  <1>0. row \in [Names -> Row] /\ name \in [Clients -> Names] /\ copy \in [Clients -> Row]
    BY DEF IInv, TypeOK
  <1>1. ASSUME row' = row PROVE Forest'
    BY <1>1 DEF Forest, Live
  <1>2. ASSUME NEW c \in Clients, Insert(c) PROVE Forest'
    <2>1. CASE Fail(c)
      BY <1>1, <2>1 DEF Fail
    <2>2. CASE ~Fail(c)
      <3> DEFINE v == Initial(copy[c].rv)
                 g == Initial(copy[c].gen)
                 r == [copy[c] EXCEPT !.state = "live", !.rv = v, !.gen = g]
      <3>1. copy[c] \in Row /\ v \in Nat /\ g \in Nat
        BY <1>0 DEF Row, Initial
      <3>2. row' = [row EXCEPT ![name[c]] = r] /\ pc[c] = "insert" /\ ParentInv(c)
        BY <1>2, <2>2 DEF Insert, FreshInv
      <3> HIDE DEF v, g
      <3>3. r \in Row /\ r.state = "live" /\ r.parent = copy[c].parent
        BY <3>1 DEF Row
      <3> HIDE DEF r
      <3> QED BY <3>2, <3>3, JoinForest
    <2> QED BY <2>1, <2>2
  <1>3. ASSUME NEW c \in Clients, CasWrite(c) PROVE Forest'
    <2>1. CASE Fail(c)
      BY <1>1, <2>1 DEF Fail
    <2>2. CASE ~Fail(c)
      <3> DEFINE v == copy[c].rv + 1
                 r == [copy[c] EXCEPT !.rv = v]
      <3>1. copy[c] \in Row /\ v \in Nat
        BY <1>0 DEF Row
      <3>2. row' = [row EXCEPT ![name[c]] = r] /\ pc[c] = "cas" /\ ParentInv(c) /\ copy[c].state = "live"
        BY <1>3, <2>2 DEF CasWrite, FreshInv, IInv, CopyInv
      <3> HIDE DEF v
      <3>3. r \in Row /\ r.state = "live" /\ r.parent = copy[c].parent
        BY <3>1, <3>2 DEF Row
      <3> HIDE DEF r
      <3> QED BY <3>2, <3>3, JoinForest
    <2> QED BY <2>1, <2>2
  <1>4. ASSUME NEW c \in Clients, Stamp(c) PROVE Forest'
    BY <1>0, <1>4, KeepForest DEF Stamp, Live, Row
  <1>5. ASSUME NEW c \in Clients, Remove(c) PROVE Forest'
    <2>1. Children(name[c]) = {}
      BY <1>5 DEF Remove, FreshInv, DeleteInv
    <2>2. \A n \in Names : /\ row'[n].state = "live" => row[n].state = "live"
                           /\ row'[n].parent = row[n].parent
                           /\ row[n].state = "live" /\ row'[n].state # "live" => n = name[c]
      BY <1>0, <1>5 DEF Remove, Live, Row
    <2> QED BY <2>1, <2>2, KeepForest DEF Live
  <1>6. ASSUME NEW n \in Names, NEW st \in Statuses, UpdateStatus(n, st) PROVE Forest'
    BY <1>0, <1>6, KeepForest DEF UpdateStatus, Live, Row
  <1>7. ASSUME NEW c \in Clients, NEW s \in Specs, NEW f \in SUBSET Finalizers,
               NEW p \in Names \cup {NoParent},
               p \in PartialParents \cup {row[name[c]].parent}, PartialUpdate(c, s, p, f)
        PROVE  Forest'
    <2> DEFINE n == name[c]
               v == copy[c].rv + 1
               r == [row[n] EXCEPT !.rv = v, !.spec = s, !.parent = p, !.fin = f]
    <2>1. row[n] \in Row /\ v \in Nat /\ n \in Names
      BY <1>0 DEF Row
    <2>2. row' = [row EXCEPT ![n] = r]
      BY <1>7 DEF PartialUpdate
    <2> HIDE DEF v, n
    <2>3. r.state = row[n].state /\ r.parent = p
      BY <2>1 DEF Row
    <2>4. p \in {row[n].parent, NoParent}
      BY <1>7 DEF n
    <2> HIDE DEF r
    <2>5. \A m \in Names : /\ row'[m].state = row[m].state
                           /\ row'[m].parent \in {row[m].parent, NoParent}
      BY <1>0, <2>1, <2>2, <2>3, <2>4
    <2> QED BY <2>5, KeepForest DEF Live
  <1>8. ASSUME NEW c \in Clients, Call(c) PROVE Forest'
    BY <1>1, <1>7, <1>8 DEF Call, CallWith, Get, DeleteRead, StartCreate, StartUpdate
  <1>9. ASSUME NEW c \in Clients, Step(c) PROVE Forest'
    BY <1>1, <1>2, <1>3, <1>4, <1>5, <1>9
    DEF Step, ParentExists, Walk, ReadExisting, CountChildren, Fail
  <1> QED BY <1>1, <1>6, <1>8, <1>9 DEF RaceNext, NoteRace, Next, raceVars, vars

(* Races are only counted: GenericStore runs as before. *)
LEMMA RaceSpecIInv == RaceSpec => [](IInv /\ FreshInv)
  <1>1. RaceInit => IInv /\ FreshInv
    BY InitIInv DEF RaceInit, Init, FreshInv, ParentInv, DeleteInv
  <1>2. IInv /\ FreshInv /\ [RaceNext]_raceVars => (IInv /\ FreshInv)'
    <2>1. [RaceNext]_raceVars => [Next]_vars
      BY DEF RaceNext, NoteRace, raceVars
    <2> QED BY <2>1, NextIInv, FreshNext
  <1> QED BY <1>1, <1>2, PTL DEF RaceSpec

(* Short of a race, and if nobody sets a parent by PartialUpdate, which      *)
(* validates none, Create, Update and Delete keep the hierarchy a forest:    *)
(* ValidateParent's walk and HasChildren are enough for any hierarchy.       *)
THEOREM ForestSound ==
  ASSUME PartialParents \subseteq {NoParent}
  PROVE  RaceSpec => []ForestUnlessRaced
  <1>1. RaceInit => raced \/ Forest
    BY FreshRow DEF RaceInit, Init, Forest, Live
  <1>2. IInv /\ FreshInv /\ (raced \/ Forest) /\ [RaceNext]_raceVars => (raced \/ Forest)'
    BY ForestNext
  <1>3. raced \/ Forest => ForestUnlessRaced
    BY DEF Forest, ForestUnlessRaced
  <1> QED BY <1>1, <1>2, <1>3, RaceSpecIInv, PTL DEF RaceSpec

(* Short of a race, Delete soft-deletes no row that has finalizers: those it *)
(* looks at are those of its first statement.                                *)
THEOREM FinalizersBlock == RaceSpec => FinalizersBlockUnlessRaced
  <1> DEFINE Blocks == raced \/ \A n \in Names : Live(n) /\ row[n].fin # {} => Live(n)'
  <1>1. IInv /\ FreshInv /\ [RaceNext]_raceVars => [Blocks]_raceVars
    <2> SUFFICES ASSUME IInv, FreshInv, RaceNext, ~raced, NEW n \in Names, Live(n), row[n].fin # {}
                 PROVE  Live(n)'
      OBVIOUS
    <2>0. row \in [Names -> Row] /\ name \in [Clients -> Names] /\ copy \in [Clients -> Row]
      BY DEF IInv, TypeOK
    <2>1. ASSUME NEW c \in Clients, Call(c) PROVE Live(n)'
      <3>1. ASSUME NEW s \in Specs, NEW f \in SUBSET Finalizers, NEW p \in Names \cup {NoParent},
                   PartialUpdate(c, s, p, f)
            PROVE  Live(n)'
        <4> DEFINE v == copy[c].rv + 1
                   r == [row[name[c]] EXCEPT !.rv = v, !.spec = s, !.parent = p, !.fin = f]
        <4>1. row' = [row EXCEPT ![name[c]] = r]
          BY <3>1 DEF PartialUpdate
        <4>2. row[name[c]] \in Row /\ name[c] \in Names
          BY <2>0
        <4>3. r.state = row[name[c]].state
          BY <4>2 DEF Row
        <4> HIDE DEF r
        <4> QED BY <2>0, <4>1, <4>2, <4>3 DEF Live
      <3> QED BY <2>1, <3>1 DEF Call, CallWith, Get, DeleteRead, StartCreate, StartUpdate, Live
    <2>2. ASSUME NEW c \in Clients, Step(c) PROVE Live(n)'
      <3>1. CASE Insert(c)
        BY <2>0, <3>1 DEF Insert, Fail, Live, Row
      <3>2. CASE CasWrite(c)
        BY <2>0, <3>2 DEF CasWrite, Fail, Live, Row, IInv, CopyInv
      <3>3. CASE Stamp(c)
        BY <2>0, <3>3 DEF Stamp, Live, Row
      <3>4. CASE Remove(c)
        <4>1. name[c] # n
          BY <3>4 DEF Remove, FreshInv, DeleteInv
        <4> QED BY <2>0, <3>4, <4>1 DEF Remove, Live
      <3> QED BY <2>2, <3>1, <3>2, <3>3, <3>4 DEF Step, ParentExists, Walk, ReadExisting,
                 CountChildren, Fail, Live
    <2>3. ASSUME NEW m \in Names, NEW st \in Statuses, UpdateStatus(m, st) PROVE Live(n)'
      BY <2>0, <2>3 DEF UpdateStatus, Live, Row
    <2> QED BY <2>1, <2>2, <2>3 DEF RaceNext, NoteRace, Next
  <1> QED BY <1>1, RaceSpecIInv, PTL DEF RaceSpec, FinalizersBlockUnlessRaced

----------------------------------------------------------------------------

(***************************************************************************)
(* List, page by page: Pagination.  PageInv says what a row created or     *)
(* deleted does to the rows on either side of the client's offset.         *)
(***************************************************************************)

(* How many rows of t come before x. *)
Rank(t, x) == Cardinality({y \in t : y < x})

(* Positions are distinct, grow with the rows, and are below the number of   *)
(* rows.                                                                     *)
LEMMA RankOrder ==
  ASSUME NEW t \in SUBSET Int, IsFiniteSet(t)
  PROVE  /\ Cardinality(t) \in Nat
         /\ \A x \in t : Rank(t, x) \in 0 .. Cardinality(t) - 1
         /\ \A x, z \in t : x < z => Rank(t, x) < Rank(t, z)
         /\ \A x, z \in t : Rank(t, x) = Rank(t, z) => x = z
  <1> DEFINE B(x) == {y \in t : y < x}
  <1>1. \A x : IsFiniteSet(B(x)) /\ Cardinality(B(x)) \in Nat
    BY FS_Subset, FS_CardinalityType
  <1>2. Cardinality(t) \in Nat
    BY FS_CardinalityType
  <1>3. ASSUME NEW x \in t PROVE Cardinality(B(x)) < Cardinality(t)
    <2>1. B(x) \in SUBSET t /\ x \notin B(x)
      OBVIOUS
    <2>2. Cardinality(B(x)) <= Cardinality(t) /\ Cardinality(t) # Cardinality(B(x))
      BY <2>1, FS_Subset
    <2> QED BY <1>1, <1>2, <2>2
  <1>4. ASSUME NEW x \in t, NEW z \in t, x < z PROVE Cardinality(B(x)) < Cardinality(B(z))
    <2>1. ~(x < x) /\ \A y \in t : y < x => y < z
      BY <1>4
    <2>2. B(x) \in SUBSET B(z) /\ x \in B(z) /\ x \notin B(x)
      BY <1>4, <2>1, Zenon
    <2>3. Cardinality(B(x)) <= Cardinality(B(z)) /\ Cardinality(B(z)) # Cardinality(B(x))
      BY <1>1, <2>2, FS_Subset
    <2> QED BY <1>1, <2>3
  <1>5. \A x : Rank(t, x) = Cardinality(B(x))
    BY DEF Rank
  <1> HIDE DEF B
  <1>6. \A x \in t : Rank(t, x) \in 0 .. Cardinality(t) - 1
    BY <1>1, <1>2, <1>3, <1>5
  <1>7. \A x, z \in t : x < z => Rank(t, x) < Rank(t, z)
    BY <1>4, <1>5
  <1>8. ASSUME NEW x \in t, NEW z \in t, Rank(t, x) = Rank(t, z) PROVE x = z
    <2>1. x \in Int /\ z \in Int /\ Rank(t, x) \in Int
      BY <1>1, <1>5
    <2>2. ~(x < z) /\ ~(z < x)
      BY <1>7, <1>8, <2>1
    <2> QED BY <2>1, <2>2
  <1> QED BY <1>2, <1>6, <1>7, <1>8

(* The first o rows are o rows, or all there are. *)
LEMMA FirstRows ==
  ASSUME NEW t \in SUBSET Int, IsFiniteSet(t), NEW o \in Nat
  PROVE  /\ Page(t, 0, o) = {x \in t : Rank(t, x) < o}
         /\ IsFiniteSet(Page(t, 0, o))
         /\ Cardinality(Page(t, 0, o)) = IF o <= Cardinality(t) THEN o ELSE Cardinality(t)
  <1> DEFINE n == Cardinality(t)
             m == IF o <= n THEN o ELSE n
             P == {x \in t : Rank(t, x) < o}
             f == [x \in t |-> Rank(t, x)]
             g == [x \in P |-> Rank(t, x)]
  <1>1. n \in Nat /\ m \in Nat
    BY RankOrder
  <1>2. Page(t, 0, o) = P
    <2>1. \A x \in t : 0 <= Rank(t, x) /\ 0 + o = o
      BY RankOrder
    <2>2. Page(t, 0, o) = {x \in t : 0 <= Rank(t, x) /\ Rank(t, x) < 0 + o}
      BY Zenon DEF Page, Rank
    <2> QED BY <2>1, <2>2, Zenon
  <1>3. IsFiniteSet(P)
    BY FS_Subset
  <1>4. IsFiniteSet(0 .. n - 1) /\ Cardinality(0 .. n - 1) = n
    BY <1>1, FS_Interval
  <1>5. IsFiniteSet(0 .. m - 1) /\ Cardinality(0 .. m - 1) = m
    <2> HIDE DEF m
    <2>1. IsFiniteSet(0 .. m - 1) /\ Cardinality(0 .. m - 1) = IF 0 > m - 1 THEN 0 ELSE m - 1 - 0 + 1
      BY <1>1, FS_Interval
    <2> QED BY <1>1, <2>1
  <1>6. f \in Injection(t, 0 .. n - 1)
    BY RankOrder DEF Injection, IsInjective
  <1>7. f \in Surjection(t, 0 .. n - 1)
    BY <1>4, <1>6, FS_Injection
  <1>8. g \in Injection(P, 0 .. m - 1)
    <2>1. \A x \in P : x \in t /\ Rank(t, x) \in 0 .. n - 1 /\ Rank(t, x) < o
      BY RankOrder
    <2>2. \A x \in P : Rank(t, x) \in 0 .. m - 1
      BY <1>1, <2>1
    <2>3. \A x, z \in P : g[x] = g[z] => x = z
      BY <2>1, RankOrder
    <2>4. g \in [P -> 0 .. m - 1]
      BY <2>2
    <2> HIDE DEF g, P, m
    <2> QED BY <2>3, <2>4 DEF Injection, IsInjective
  <1>9. g \in Surjection(P, 0 .. m - 1)
    <2>1. ASSUME NEW i \in 0 .. m - 1 PROVE \E x \in P : Rank(t, x) = i
      <3>1. i \in 0 .. n - 1 /\ i < o
        BY <1>1
      <3>2. PICK x \in t : f[x] = i
        BY <1>7, <3>1 DEF Surjection
      <3> QED BY <3>1, <3>2
    <2> QED BY <1>8, <2>1 DEF Surjection, Injection
  <1>10. Cardinality(P) = m
    BY <1>5, <1>8, <1>9, FS_Injection
  <1> QED BY <1>2, <1>3, <1>10
(* The rows of a page are none of those before it; *)
LEMMA PageIsNew ==
  ASSUME NEW t \in SUBSET Int, IsFiniteSet(t), NEW o \in Nat, NEW l \in Nat,
         NEW items, items = Page(t, o, l)
  PROVE  /\ IsFiniteSet(items) /\ Cardinality(items) \in Nat
         /\ items \subseteq t /\ Page(t, 0, o) \cap items = {}
  <1>1. items = {x \in t : o <= Rank(t, x) /\ Rank(t, x) < o + l}
    BY Zenon DEF Page, Rank
  <1>2. IsFiniteSet(items) /\ items \subseteq t /\ Cardinality(items) \in Nat
    BY <1>1, FS_Subset, FS_CardinalityType
  <1>3. \A x \in t : ~(Rank(t, x) < o /\ o <= Rank(t, x))
    <2>1. \A x \in t : Rank(t, x) \in Nat
      BY RankOrder
    <2> QED BY <2>1
  <1>4. Page(t, 0, o) = {x \in t : Rank(t, x) < o}
    BY FirstRows
  <1>5. Page(t, 0, o) \cap items = {}
    BY <1>1, <1>3, <1>4, Zenon
  <1> QED BY <1>2, <1>5

(* with them they are the first rows up to where the next page begins, *)
LEMMA PageFollows ==
  ASSUME NEW t \in SUBSET Int, IsFiniteSet(t), NEW o \in Nat, NEW l \in Nat,
         NEW items, items = Page(t, o, l), NEW k, k = o + Cardinality(items)
  PROVE  Page(t, 0, k) = Page(t, 0, o) \cup items
  <1> DEFINE n == Cardinality(t)
             F(i) == Page(t, 0, i)
  <1>1. n \in Nat /\ \A x \in t : Rank(t, x) \in Nat
    BY RankOrder
  <1>2. /\ items = {x \in t : o <= Rank(t, x) /\ Rank(t, x) < o + l}
        /\ IsFiniteSet(items) /\ Cardinality(items) \in Nat /\ F(o) \cap items = {}
    <2>1. items = {x \in t : o <= Rank(t, x) /\ Rank(t, x) < o + l}
      BY Zenon DEF Page, Rank
    <2>2. IsFiniteSet(items) /\ Cardinality(items) \in Nat
      BY PageIsNew
    <2>3. Page(t, 0, o) \cap items = {}
      BY PageIsNew
    <2> QED BY <2>1, <2>2, <2>3, Zenon
  <1>3. \A i \in Nat : /\ F(i) = {x \in t : Rank(t, x) < i}
                        /\ IsFiniteSet(F(i))
                        /\ Cardinality(F(i)) = IF i <= n THEN i ELSE n
    BY FirstRows
  <1> HIDE DEF F
  <1>4. F(o + l) = F(o) \cup items
    <2>1. o + l \in Nat /\ o <= o + l
      OBVIOUS
    <2>2. \A x \in t : Rank(t, x) < o + l
                          <=> Rank(t, x) < o \/ (o <= Rank(t, x) /\ Rank(t, x) < o + l)
      BY <1>1, <2>1
    <2>3. F(o + l) = {x \in t : Rank(t, x) < o + l} /\ F(o) = {x \in t : Rank(t, x) < o}
      BY <1>3, <2>1
    <2> QED BY <1>2, <2>2, <2>3, Zenon
  <1>5. Cardinality(F(o + l)) = Cardinality(F(o)) + Cardinality(items)
    <2>1. IsFiniteSet(F(o))
      BY <1>3
    <2>2. Cardinality(F(o) \cup items) =
            Cardinality(F(o)) + Cardinality(items) - Cardinality(F(o) \cap items)
      BY <1>2, <2>1, FS_Union
    <2>3. Cardinality(F(o)) \in Nat /\ Cardinality(F(o) \cap items) = 0
      BY <1>2, <2>1, FS_EmptySet, FS_CardinalityType
    <2>4. Cardinality(F(o + l)) = Cardinality(F(o) \cup items)
      BY <1>4, Zenon
    <2> QED BY <1>2, <2>2, <2>3, <2>4
  <1>6. \A i \in Nat : i >= n => F(i) = t
    <2>1. \A i \in Nat : F(i) \in SUBSET t
      BY <1>3
    <2>2. \A i \in Nat : i >= n => Cardinality(t) = Cardinality(F(i))
      BY <1>1, <1>3
    <2> QED BY <2>1, <2>2, FS_Subset
  <1>7. k = o + l \/ (k >= n /\ o + l >= n)
    <2>1. /\ Cardinality(F(o)) = IF o <= n THEN o ELSE n
          /\ Cardinality(F(o + l)) = IF o + l <= n THEN o + l ELSE n
      BY <1>3
    <2> QED BY <1>1, <1>2, <1>5, <2>1
  <1>8. k \in Nat /\ F(k) = F(o + l)
    BY <1>2, <1>6, <1>7
  <1> QED BY <1>4, <1>8, Zenon DEF F

(* and what is left is what lies beyond. *)
LEMMA RowsBeyond ==
  ASSUME NEW t \in SUBSET Int, IsFiniteSet(t), NEW k \in Nat
  PROVE  Cardinality(t \ Page(t, 0, k)) =
           IF k <= Cardinality(t) THEN Cardinality(t) - k ELSE 0
  <1> DEFINE F == Page(t, 0, k)
  <1>1. Cardinality(t) \in Nat
    BY RankOrder
  <1>2. F = {x \in t : Rank(t, x) < k}
    BY FirstRows
  <1>3. Cardinality(F) = IF k <= Cardinality(t) THEN k ELSE Cardinality(t)
    BY FirstRows
  <1> HIDE DEF F
  <1>4. t \cap F = F
    BY <1>2
  <1>5. Cardinality(t \ F) = Cardinality(t) - Cardinality(t \cap F)
    BY FS_Difference
  <1>6. Cardinality(t \ F) = Cardinality(t) - Cardinality(F)
    BY <1>4, <1>5, Zenon
  <1> QED BY <1>1, <1>3, <1>6 DEF F

(* A row more puts itself and at most one row out of the first o. *)
LEMMA OneRowMore ==
  ASSUME NEW t \in SUBSET Int, IsFiniteSet(t), NEW x \in Int, x \notin t, NEW o \in Nat
  PROVE  /\ Page(t \cup {x}, 0, o) \subseteq Page(t, 0, o) \cup {x}
         /\ IsFiniteSet(Page(t, 0, o) \ Page(t \cup {x}, 0, o))
         /\ Cardinality(Page(t, 0, o) \ Page(t \cup {x}, 0, o)) <= 1
  <1> DEFINE u == t \cup {x}
             D == Page(t, 0, o) \ Page(u, 0, o)
  <1>1. u \in SUBSET Int /\ IsFiniteSet(u)
    BY FS_AddElement
  <1>2. /\ Page(t, 0, o) = {y \in t : Rank(t, y) < o}
        /\ Page(u, 0, o) = {y \in u : Rank(u, y) < o}
    BY <1>1, FirstRows
  <1>3. ASSUME NEW y \in t
        PROVE  /\ Rank(t, y) \in Nat /\ Rank(u, y) \in Nat
               /\ Rank(t, y) <= Rank(u, y) /\ Rank(u, y) <= Rank(t, y) + 1
    <2> DEFINE B == {z \in t : z < y}
    <2>1. IsFiniteSet(B) /\ Cardinality(B) \in Nat
      BY FS_Subset, FS_CardinalityType
    <2>2. {z \in u : z < y} = IF x < y THEN B \cup {x} ELSE B
      OBVIOUS
    <2>3. Cardinality(B \cup {x}) = Cardinality(B) + 1
      BY <2>1, FS_AddElement
    <2> HIDE DEF B
    <2>4. Rank(u, y) = IF x < y THEN Cardinality(B) + 1 ELSE Cardinality(B)
      BY <2>2, <2>3 DEF Rank
    <2>5. Rank(t, y) = Cardinality(B)
      BY DEF Rank, B
    <2> QED BY <2>1, <2>4, <2>5
  <1>4. Page(u, 0, o) \subseteq Page(t, 0, o) \cup {x}
    <2>1. ASSUME NEW y \in t, Rank(u, y) < o PROVE Rank(t, y) < o
      BY <1>3, <2>1
    <2> QED BY <1>2, <2>1, Zenon
  <1>5. ASSUME NEW y \in D PROVE y \in t /\ Rank(t, y) = o - 1
    <2>1. y \in t /\ Rank(t, y) < o /\ ~(Rank(u, y) < o)
      BY <1>2, Zenon
    <2>2. Rank(t, y) \in Nat /\ Rank(u, y) \in Nat /\ Rank(u, y) <= Rank(t, y) + 1
      BY <1>3, <2>1, Zenon
    <2> HIDE DEF u
    <2> QED BY <2>1, <2>2
  <1>6. \A y, z \in D : y = z
    BY <1>5, RankOrder
  <1> HIDE DEF D
  <1>7. D = {} \/ \E y : D = {y}
    BY <1>6
  <1>8. IsFiniteSet(D) /\ Cardinality(D) <= 1
    <2>1. D = {} => IsFiniteSet(D) /\ Cardinality(D) = 0
      BY FS_EmptySet, Zenon
    <2>2. ASSUME NEW y, D = {y} PROVE IsFiniteSet(D) /\ Cardinality(D) = 1
      BY <2>2, FS_Singleton, Zenon
    <2> QED BY <1>7, <2>1, <2>2
  <1> QED BY <1>4, <1>8 DEF D
(* Of what the client was sent, the part that lies ahead of its offset, and  *)
(* of what was there all the time, the part that slipped behind it unseen.   *)
Behind == Page(table, 0, offset)
Ahead == (got \cap table) \ Behind
Slipped == (kept \cap Behind) \ got

PageTypes ==
  /\ used \subseteq Resources /\ table \subseteq used /\ kept \subseteq table
  /\ got \subseteq used /\ again \subseteq used
  /\ step \in {"idle", "count", "find", "done"}
  /\ offset \in Nat /\ total \in Nat /\ inserts \in Nat /\ deletes \in Nat

(* Each row created puts at most one row that was sent ahead again, and each *)
(* one deleted lets at most one slip behind; what COUNT found can have grown *)
(* only by rows created since.                                               *)
PageInv ==
  /\ Cardinality(again) <= inserts
  /\ step \in {"count", "find"} =>
       /\ Cardinality(again) + Cardinality(Ahead) <= inserts
       /\ Cardinality(Slipped) <= deletes
  /\ step = "find" => Cardinality(table) <= total + inserts
  /\ step = "done" => Cardinality(kept \ got) <= inserts + deletes

(* All the sets are finite. *)
LEMMA Subsets ==
  ASSUME NEW S, NEW T, IsFiniteSet(T), S \subseteq T
  PROVE  IsFiniteSet(S) /\ Cardinality(S) \in Nat /\ Cardinality(T) \in Nat
         /\ Cardinality(S) <= Cardinality(T)
  BY FS_Subset, FS_CardinalityType

LEMMA Unions ==
  ASSUME NEW R, NEW S, NEW T, IsFiniteSet(S), IsFiniteSet(T), R \subseteq S \cup T
  PROVE  /\ IsFiniteSet(R) /\ Cardinality(R) \in Nat
         /\ Cardinality(S) \in Nat /\ Cardinality(T) \in Nat
         /\ Cardinality(R) <= Cardinality(S) + Cardinality(T)
  <1>1. /\ IsFiniteSet(S \cup T) /\ Cardinality(S) \in Nat /\ Cardinality(T) \in Nat
        /\ Cardinality(S \cup T) = Cardinality(S) + Cardinality(T) - Cardinality(S \cap T)
    BY FS_Union, FS_CardinalityType
  <1>2. Cardinality(S \cap T) \in Nat
    BY FS_Intersection, FS_CardinalityType
  <1>3. /\ IsFiniteSet(R) /\ Cardinality(R) \in Nat /\ Cardinality(S \cup T) \in Nat
        /\ Cardinality(R) <= Cardinality(S \cup T)
    BY <1>1, Subsets
  <1> QED BY <1>1, <1>2, <1>3

LEMMA PageFinite ==
  ASSUME PageTypes
  PROVE  /\ table \in SUBSET Int /\ used \in SUBSET Int
         /\ IsFiniteSet(used) /\ IsFiniteSet(table) /\ IsFiniteSet(got) /\ IsFiniteSet(again)
         /\ IsFiniteSet(kept) /\ IsFiniteSet(Ahead) /\ IsFiniteSet(Slipped)
  <1>1. IsFiniteSet(Resources) /\ Resources \subseteq Int
    BY FS_Interval, PaginationAssumption DEF Resources
  <1>2. IsFiniteSet(used) /\ used \in SUBSET Int
    BY <1>1, FS_Subset DEF PageTypes
  <1>3. \A S : S \subseteq used => IsFiniteSet(S)
    BY <1>2, FS_Subset
  <1>4. /\ table \subseteq used /\ got \subseteq used /\ again \subseteq used
        /\ kept \subseteq used /\ Ahead \subseteq used /\ Slipped \subseteq used
    BY DEF PageTypes, Ahead, Slipped
  <1> QED BY <1>2, <1>3, <1>4

(* A page takes what it repeats out of what lies ahead; the last one leaves  *)
(* only what was created after COUNT, or had slipped behind.                 *)
LEMMA FindStep ==
  ASSUME PageTypes, PageInv, NEW l \in Limits, Find(l)
  PROVE  PageTypes' /\ PageInv'
  <1> DEFINE e == Effective(l)
             items == Page(table, offset, e)
             k == offset + Cardinality(items)
             first == Behind \cup items
             n == Cardinality(table)
  <1>1. /\ step = "find" /\ UNCHANGED <<table, used, total, kept, inserts, deletes>>
        /\ got' = got \cup items /\ again' = again \cup (got \cap items)
        /\ \/ k < total /\ step' = "count" /\ offset' = k
           \/ ~(k < total) /\ step' = "done" /\ offset' = offset
    BY DEF Find, NextOffset, More
  <1>2. e \in Nat
    BY PaginationAssumption DEF Effective
  <1>3. /\ items \subseteq table /\ Behind \cap items = {} /\ Cardinality(items) \in Nat
        /\ Page(table, 0, k) = first
        /\ Cardinality(table \ first) = IF k <= n THEN n - k ELSE 0
    <2>1. table \in SUBSET Int /\ IsFiniteSet(table) /\ offset \in Nat
      BY PageFinite DEF PageTypes
    <2> HIDE DEF e
    <2> HIDE DEF items
    <2>2. items = Page(table, offset, e)
      BY DEF items
    <2>3. items \subseteq table /\ Behind \cap items = {} /\ Cardinality(items) \in Nat
      <3>1. items \subseteq table
        BY <1>2, <2>1, <2>2, PageIsNew
      <3>2. Cardinality(items) \in Nat
        BY <1>2, <2>1, <2>2, PageIsNew
      <3>3. Page(table, 0, offset) \cap items = {}
        BY <1>2, <2>1, <2>2, PageIsNew
      <3> QED BY <3>1, <3>2, <3>3, Zenon DEF Behind
    <2>4. k \in Nat
      BY <2>1, <2>3
    <2> HIDE DEF k
    <2>5. k = offset + Cardinality(items)
      BY DEF k
    <2>6. Page(table, 0, k) = Behind \cup items
      BY <1>2, <2>1, <2>2, <2>5, PageFollows DEF Behind
    <2>7. Cardinality(table \ Page(table, 0, k)) = IF k <= n THEN n - k ELSE 0
      BY <2>1, <2>4, RowsBeyond
    <2> QED BY <2>3, <2>6, <2>7
  <1> HIDE DEF items
  <1>4. PageTypes'
    BY <1>1, <1>3 DEF PageTypes
  <1>5. /\ Cardinality(again) + Cardinality(Ahead) <= inserts
        /\ Cardinality(Slipped) <= deletes /\ n <= total + inserts
    BY <1>1 DEF PageInv
  <1>6. /\ IsFiniteSet(table) /\ IsFiniteSet(again) /\ IsFiniteSet(Ahead) /\ IsFiniteSet(Slipped)
        /\ n \in Nat /\ Cardinality(again) \in Nat /\ Cardinality(Ahead) \in Nat
        /\ Cardinality(Slipped) \in Nat /\ inserts \in Nat /\ deletes \in Nat /\ total \in Nat
    BY PageFinite, FS_CardinalityType DEF PageTypes
  <1>7. /\ Cardinality(again') \in Nat
        /\ Cardinality(again') <= Cardinality(again) + Cardinality(Ahead \cap items)
        /\ Cardinality(Ahead \ items) = Cardinality(Ahead) - Cardinality(Ahead \cap items)
        /\ Cardinality(Ahead \cap items) \in Nat /\ Cardinality(Ahead \ items) \in Nat
    <2>1. got \cap items = Ahead \cap items
      BY <1>3 DEF Ahead
    <2>2. /\ IsFiniteSet(Ahead \cap items) /\ IsFiniteSet(Ahead \ items)
          /\ Cardinality(Ahead \ items) = Cardinality(Ahead) - Cardinality(Ahead \cap items)
      BY <1>6, FS_Intersection, FS_Difference
    <2>3. Cardinality(again') \in Nat
            /\ Cardinality(again') <= Cardinality(again) + Cardinality(Ahead \cap items)
      BY <1>1, <1>6, <2>1, <2>2, Unions
    <2> QED BY <2>2, <2>3, FS_CardinalityType
  <1>8. Cardinality(again') <= inserts'
    BY <1>1, <1>5, <1>6, <1>7
  <1>9. CASE k < total /\ step' = "count" /\ offset' = k
    <2>1. Behind' = first
      BY <1>1, <1>3, <1>9 DEF Behind
    <2>2. Ahead' = Ahead \ items /\ Slipped' \subseteq Slipped
      BY <1>1, <2>1 DEF Ahead, Slipped
    <2>3. Cardinality(Slipped') \in Nat /\ Cardinality(Slipped') <= Cardinality(Slipped)
      BY <1>6, <2>2, Subsets
    <2>4. /\ Cardinality(again') + Cardinality(Ahead') <= inserts'
          /\ Cardinality(Slipped') <= deletes'
      BY <1>1, <1>5, <1>6, <1>7, <2>2, <2>3
    <2> QED BY <1>4, <1>8, <1>9, <2>4 DEF PageInv
  <1>10. CASE ~(k < total) /\ step' = "done" /\ offset' = offset
    <2>1. kept' \ got' \subseteq Slipped \cup (table \ first)
      BY <1>1 DEF Slipped, PageTypes
    <2>2. IsFiniteSet(table \ first)
      BY <1>6, FS_Subset
    <2>3. /\ Cardinality(kept' \ got') \in Nat
          /\ Cardinality(kept' \ got') <= Cardinality(Slipped) + Cardinality(table \ first)
      BY <1>6, <2>1, <2>2, Unions
    <2>4. k \in Nat
      BY <1>3 DEF PageTypes
    <2> HIDE DEF k, n, first
    <2>5. Cardinality(kept' \ got') <= inserts' + deletes'
      BY <1>1, <1>3, <1>5, <1>6, <1>10, <2>3, <2>4
    <2> QED BY <1>4, <1>8, <1>10, <2>5 DEF PageInv
  <1> QED BY <1>1, <1>9, <1>10

(* Create: one row that was sent may come again; *)
LEMMA CreateStep ==
  ASSUME PageTypes, PageInv, NEW x \in Resources, Create(x)
  PROVE  PageTypes' /\ PageInv'
  <1>1. /\ UNCHANGED <<step, offset, total, got, again, kept, deletes>>
        /\ x \notin used /\ table' = table \cup {x} /\ used' = used \cup {x}
        /\ inserts' = inserts + 1
    BY DEF Create, list
  <1>2. PageTypes'
    BY <1>1 DEF PageTypes
  <1>3. /\ x \in Int /\ x \notin table /\ x \notin got /\ x \notin kept /\ offset \in Nat
        /\ inserts \in Nat /\ deletes \in Nat /\ total \in Nat
    BY <1>1, PaginationAssumption DEF PageTypes, Resources
  <1>4. /\ Behind' \subseteq Behind \cup {x}
        /\ IsFiniteSet(Behind \ Behind') /\ Cardinality(Behind \ Behind') <= 1
    BY <1>1, <1>3, PageFinite, OneRowMore DEF Behind
  <1>5. Ahead' \subseteq Ahead \cup (Behind \ Behind') /\ Slipped' \subseteq Slipped
    BY <1>1, <1>3, <1>4 DEF Ahead, Slipped
  <1>6. /\ Cardinality(Ahead') \in Nat /\ Cardinality(Ahead) \in Nat
        /\ Cardinality(Behind \ Behind') \in Nat
        /\ Cardinality(Ahead') <= Cardinality(Ahead) + Cardinality(Behind \ Behind')
    BY <1>4, <1>5, PageFinite, Unions
  <1>7. /\ Cardinality(Slipped') \in Nat /\ Cardinality(Slipped) \in Nat
        /\ Cardinality(Slipped') <= Cardinality(Slipped)
    BY <1>5, PageFinite, Subsets
  <1>8. Cardinality(table') = Cardinality(table) + 1 /\ Cardinality(table) \in Nat
    BY <1>1, <1>3, PageFinite, FS_AddElement, FS_CardinalityType
  <1>9. Cardinality(again) \in Nat /\ Cardinality(kept \ got) \in Nat
    BY PageFinite, FS_Difference, FS_CardinalityType
  <1>10. Cardinality(again') <= inserts'
    <2>1. Cardinality(again) <= inserts
      BY Zenon DEF PageInv
    <2>2. Cardinality(again') = Cardinality(again)
      BY <1>1, Zenon
    <2> QED BY <1>1, <1>3, <1>9, <2>1, <2>2
  <1>11. step' \in {"count", "find"} =>
           /\ Cardinality(again') + Cardinality(Ahead') <= inserts'
           /\ Cardinality(Slipped') <= deletes'
    <2>1. step \in {"count", "find"} =>
            /\ Cardinality(again) + Cardinality(Ahead) <= inserts
            /\ Cardinality(Slipped) <= deletes
      BY DEF PageInv
    <2>2. Cardinality(Ahead') <= Cardinality(Ahead) + 1
      BY <1>4, <1>6
    <2>3. Cardinality(again') = Cardinality(again) /\ inserts' = inserts + 1
          /\ deletes' = deletes /\ step' = step
      BY <1>1
    <2> QED BY <1>3, <1>6, <1>7, <1>9, <2>1, <2>2, <2>3
  <1>12. step' = "find" => Cardinality(table') <= total' + inserts'
    BY <1>1, <1>3, <1>8 DEF PageInv
  <1>13. step' = "done" => Cardinality(kept' \ got') <= inserts' + deletes'
    BY <1>1, <1>3, <1>9 DEF PageInv
  <1> QED BY <1>2, <1>10, <1>11, <1>12, <1>13 DEF PageInv

(* Delete: one row may slip behind. *)
LEMMA DeleteStep ==
  ASSUME PageTypes, PageInv, NEW x \in Resources, Delete(x)
  PROVE  PageTypes' /\ PageInv'
  <1>1. /\ UNCHANGED <<step, offset, total, got, again, used, inserts>>
        /\ x \in table /\ table' = table \ {x} /\ kept' = kept \ {x}
        /\ deletes' = deletes + 1
    BY DEF Delete, list
  <1>2. PageTypes'
    BY <1>1 DEF PageTypes
  <1>3. /\ x \in Int /\ offset \in Nat /\ table = table' \cup {x} /\ x \notin table'
        /\ inserts \in Nat /\ deletes \in Nat /\ total \in Nat
    BY <1>1, PaginationAssumption DEF PageTypes, Resources
  <1>4. table' \in SUBSET Int /\ IsFiniteSet(table')
    BY <1>1, PageFinite, FS_Subset
  <1>5. /\ Behind \subseteq Behind' \cup {x}
        /\ IsFiniteSet(Behind' \ Behind) /\ Cardinality(Behind' \ Behind) <= 1
    BY <1>1, <1>3, <1>4, OneRowMore DEF Behind
  <1>6. Ahead' \subseteq Ahead /\ Slipped' \subseteq Slipped \cup (Behind' \ Behind)
    BY <1>1, <1>3, <1>5 DEF Ahead, Slipped
  <1>7. /\ Cardinality(Slipped') \in Nat /\ Cardinality(Slipped) \in Nat
        /\ Cardinality(Behind' \ Behind) \in Nat
        /\ Cardinality(Slipped') <= Cardinality(Slipped) + Cardinality(Behind' \ Behind)
    BY <1>5, <1>6, PageFinite, Unions
  <1>8. /\ Cardinality(Ahead') \in Nat /\ Cardinality(Ahead) \in Nat
        /\ Cardinality(Ahead') <= Cardinality(Ahead)
    BY <1>6, PageFinite, Subsets
  <1>9. /\ Cardinality(table') \in Nat /\ Cardinality(table) \in Nat
        /\ Cardinality(table') <= Cardinality(table)
    BY <1>1, PageFinite, Subsets
  <1>10. /\ Cardinality(kept' \ got') \in Nat /\ Cardinality(kept \ got) \in Nat
         /\ Cardinality(kept' \ got') <= Cardinality(kept \ got)
    <2>1. IsFiniteSet(kept \ got) /\ kept' \ got' \subseteq kept \ got
      BY <1>1, PageFinite, FS_Difference
    <2> QED BY <2>1, Subsets
  <1>11. Cardinality(again) \in Nat
    BY PageFinite, FS_CardinalityType
  <1>12. Cardinality(again') <= inserts'
    BY <1>1 DEF PageInv
  <1>13. step' \in {"count", "find"} =>
           /\ Cardinality(again') + Cardinality(Ahead') <= inserts'
           /\ Cardinality(Slipped') <= deletes'
    <2>1. step \in {"count", "find"} =>
            /\ Cardinality(again) + Cardinality(Ahead) <= inserts
            /\ Cardinality(Slipped) <= deletes
      BY DEF PageInv
    <2>2. Cardinality(Slipped') <= Cardinality(Slipped) + 1
      BY <1>5, <1>7
    <2>3. Cardinality(again') = Cardinality(again) /\ inserts' = inserts
          /\ deletes' = deletes + 1 /\ step' = step
      BY <1>1
    <2> QED BY <1>3, <1>7, <1>8, <1>11, <2>1, <2>2, <2>3
  <1>14. step' = "find" => Cardinality(table') <= total' + inserts'
    BY <1>1, <1>3, <1>9 DEF PageInv
  <1>15. step' = "done" => Cardinality(kept' \ got') <= inserts' + deletes'
    BY <1>1, <1>3, <1>10 DEF PageInv
  <1> QED BY <1>2, <1>12, <1>13, <1>14, <1>15 DEF PageInv

LEMMA PagesNext ==
  PageTypes /\ PageInv /\ [ListNext]_listVars
    => PageTypes' /\ PageInv'
  <1> SUFFICES ASSUME PageTypes, PageInv, [ListNext]_listVars
               PROVE  PageTypes' /\ PageInv'
    OBVIOUS
  <1>1. Cardinality(table) \in Nat /\ inserts \in Nat
    BY PageFinite, FS_CardinalityType DEF PageTypes
  <1>2. CASE Begin
    <2>1. /\ UNCHANGED <<table, used>> /\ step' = "count" /\ offset' = 0 /\ total' = 0
          /\ got' = {} /\ again' = {} /\ kept' = table /\ inserts' = 0 /\ deletes' = 0
      BY <1>2 DEF Begin
    <2>2. Behind' = {}
      <3>1. Cardinality(Behind') = 0 /\ IsFiniteSet(Behind')
        BY <1>1, <2>1, PageFinite, FirstRows DEF Behind
      <3> QED BY <3>1, FS_EmptySet
    <2>3. Ahead' = {} /\ Slipped' = {} /\ Cardinality({}) = 0
      BY <2>1, <2>2, FS_EmptySet DEF Ahead, Slipped
    <2>4. PageTypes'
      BY <2>1 DEF PageTypes
    <2> QED BY <2>1, <2>3, <2>4 DEF PageInv
  <1>3. CASE Count
    <2>1. /\ UNCHANGED <<table, used, offset, got, again, kept, inserts, deletes>>
          /\ step = "count" /\ step' = "find" /\ total' = Cardinality(table)
      BY <1>3 DEF Count
    <2>2. Ahead' = Ahead /\ Slipped' = Slipped
      BY <2>1 DEF Ahead, Slipped, Behind
    <2>3. PageTypes'
      BY <1>1, <2>1 DEF PageTypes
    <2> QED BY <1>1, <2>1, <2>2, <2>3 DEF PageInv
  <1>4. CASE Finish
    BY <1>4 DEF Finish, PageTypes, PageInv
  <1>5. CASE UNCHANGED listVars
    BY <1>5 DEF listVars, list, PageTypes, PageInv, Ahead, Slipped, Behind
  <1> QED BY <1>2, <1>3, <1>4, <1>5, FindStep, CreateStep, DeleteStep DEF ListNext

LEMMA PagesInit == ListInit => PageTypes /\ PageInv
  <1> SUFFICES ASSUME ListInit PROVE PageTypes /\ PageInv
    OBVIOUS
  <1>1. PageTypes
    BY DEF ListInit, PageTypes
  <1> QED BY <1>1, FS_EmptySet DEF ListInit, PageInv

(* However many rows there are and whatever limits the client asks for, what *)
(* List's tokens lead it through repeats at most one resource for each one   *)
(* created meanwhile, and misses at most one for each created or deleted.    *)
THEOREM PagesAccurate == ListSpec => []PagesAreAccurate
  <1>1. PageTypes /\ PageInv => PagesAreAccurate
    BY DEF PageTypes, PageInv, PagesAreAccurate
  <1> QED BY PagesInit, PagesNext, <1>1, PTL DEF ListSpec

(* As long as nothing is written, the rows are those of the beginning.       *)
Quiet == step # "idle" /\ inserts = 0 /\ deletes = 0 => table = kept /\ got \subseteq table

LEMMA QuietNext ==
  ASSUME PageTypes, Quiet, [ListNext]_listVars
  PROVE  Quiet'
  <1>1. CASE Begin
    BY <1>1 DEF Begin, Quiet
  <1>2. CASE Count
    BY <1>2 DEF Count, Quiet
  <1>3. ASSUME NEW l \in Limits, Find(l) PROVE Quiet'
    <2>1. /\ step = "find" /\ UNCHANGED <<table, kept, inserts, deletes>>
          /\ got' = got \cup Page(table, offset, Effective(l))
      BY <1>3 DEF Find
    <2>2. Page(table, offset, Effective(l)) \subseteq table
      BY DEF Page
    <2> QED BY <2>1, <2>2 DEF Quiet
  <1>4. CASE Finish
    BY <1>4 DEF Finish, Quiet
  <1>5. ASSUME NEW x \in Resources, Create(x) \/ Delete(x) PROVE Quiet'
    BY <1>5 DEF Create, Delete, PageTypes, Quiet
  <1>6. CASE UNCHANGED listVars
    BY <1>6 DEF listVars, list, Quiet
  <1> QED BY <1>1, <1>2, <1>3, <1>4, <1>5, <1>6 DEF ListNext

(* A listing during which nobody creates or deletes anything returns every   *)
(* live resource, no other, and none of them twice, whatever limit each of   *)
(* its requests asks List for.                                               *)
THEOREM QuietListingIsExact ==
  ListSpec => [](step = "done" /\ inserts = 0 /\ deletes = 0
                   => got = table /\ again = {})
  <1> DEFINE Exact == step = "done" /\ inserts = 0 /\ deletes = 0 => got = table /\ again = {}
  <1>1. ListInit => Quiet
    BY DEF ListInit, Quiet
  <1>2. PageTypes /\ PageInv /\ Quiet => Exact
    <2> SUFFICES ASSUME PageTypes, PageInv, Quiet, step = "done", inserts = 0, deletes = 0
                 PROVE  got = table /\ again = {}
      OBVIOUS
    <2>1. Cardinality(again) <= 0 /\ Cardinality(kept \ got) <= 0
      BY DEF PageInv
    <2>2. IsFiniteSet(again) /\ IsFiniteSet(kept \ got)
      BY PageFinite, FS_Difference
    <2>3. Cardinality(again) = 0 /\ Cardinality(kept \ got) = 0
      BY <2>1, <2>2, FS_CardinalityType
    <2>4. again = {} /\ kept \ got = {}
      BY <2>2, <2>3, FS_EmptySet
    <2> QED BY <2>4 DEF Quiet
  <1>3. PageTypes /\ PageInv /\ Quiet /\ [ListNext]_listVars
          => PageTypes' /\ PageInv' /\ Quiet'
    BY PagesNext, QuietNext
  <1> HIDE DEF Exact
  <1>4. ListSpec => []Exact
    BY PagesInit, <1>1, <1>2, <1>3, PTL DEF ListSpec
  <1> QED BY <1>4 DEF Exact

=============================================================================
