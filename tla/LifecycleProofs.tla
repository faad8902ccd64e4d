-------------------------- MODULE LifecycleProofs --------------------------
(***************************************************************************)
(* Proofs about Lifecycle and Sidecars, for any providers, dependencies,   *)
(* features and sidecars: the depth-first search of provider/registry.go   *)
(* orders the providers soundly, and what is done in that order, and       *)
(* undone in reverse, keeps to it whatever fails.                          *)
(***************************************************************************)
EXTENDS Sidecars, TLAPS

Phases == {"register", "resolve", "init", "serve", "drain", "shutdown", "close", "exited"}

Types ==
  /\ deps \in [Names -> SUBSET Names] /\ listed \in [Names -> 0 .. 2]
  /\ phase \in Phases /\ providers \subseteq Names
  /\ visited \in [Names -> 0 .. 2] /\ rest \in [Names -> SUBSET Names]
  /\ stack \in Seq(Names) /\ order \in Seq(Names) /\ halted \in Seq(Names)
  /\ up \in Nat
  /\ conn \in [Names -> {"none", "open", "closed"}] /\ rpc \in [Names -> Nat]
  /\ sidecar \in [Names -> {"dead", "new", "ready", "stopped"}]

Distinct(q) == \A i, j \in DOMAIN q : q[i] = q[j] => i = j

(* Of the search: marks, calls and results agree. *)
MarkInv ==
  /\ Distinct(order) /\ Distinct(stack)
  /\ \A p \in Names : /\ visited[p] = 2 <=> p \in Range(order)
                      /\ visited[p] = 1 <=> p \in Range(stack)
  /\ Range(order) \subseteq providers /\ Range(stack) \subseteq providers

(* What a call has looked at is done, or is the call it is waiting for. *)
StackInv ==
  \A i \in DOMAIN stack :
    /\ rest[stack[i]] \subseteq deps[stack[i]]
    /\ \A q \in deps[stack[i]] \ rest[stack[i]] :
         q \in Range(order) \/ (i < Len(stack) /\ q = stack[i + 1])
    /\ i < Len(stack) => stack[i + 1] \in deps[stack[i]]

OrderInv ==
  \A i \in DOMAIN order : \A q \in deps[order[i]] : \E j \in 1 .. i - 1 : order[j] = q

(* What is true of the order and of what runs in each phase. *)
PhaseInv ==
  /\ phase = "register" => stack = <<>> /\ order = <<>>
  /\ phase \notin {"register", "resolve", "exited"} =>
       stack = <<>> /\ Range(order) = providers
  /\ phase \in {"register", "resolve"} => up = 0
  /\ phase \in {"serve", "drain", "shutdown", "close"} => up = Len(order)
  /\ phase \notin {"shutdown", "close", "exited"} => halted = <<>>
  /\ err # "none" => phase = "exited"

(* Providers are halted in the reverse of the order, when all were up. *)
HaltedInv ==
  /\ up <= Len(order) /\ Len(halted) <= Len(order)
  /\ halted # <<>> => up = Len(order)
  /\ \A i \in DOMAIN halted : halted[i] = order[Len(order) - i + 1]

OrderedInv == MarkInv /\ StackInv /\ OrderInv /\ PhaseInv /\ HaltedInv /\ RejectionsAreRight

(* Sidecars are initialized in the order, and known to be from then on. *)
ReadyInv ==
  /\ \A p \in Names : rpc[p] > 0 =>
       /\ \E i \in DOMAIN order : i <= up + 1 /\ order[i] = p
       /\ sidecar[p] \in {"ready", "stopped"} \/ p \in crashed
  /\ \A i \in 1 .. up : External(order[i]) => rpc[order[i]] > 0
  /\ accepting # {} => up = Len(order) /\ phase \notin {"register", "resolve", "init"}
  /\ \A p \in Names, kind \in {"http", "hook"} : <<p, kind>> \in calls => rpc[p] > 0
  /\ early \subseteq crashed

(* Whom the server is connected to it will register; whom it has halted it   *)
(* has told.                                                                 *)
ClosedInv ==
  /\ \A p \in Names : conn[p] # "none" => External(p) /\ (listed[p] > 0 \/ p \in providers)
  /\ phase \notin {"register", "exited"} => \A p \in Names : listed[p] = 0
  /\ \A p \in Range(halted) : External(p) => conn[p] = "closed" /\ p \in told
  /\ \A p \in told : External(p)
  /\ phase = "close" /\ ~failed => Len(halted) = Len(order)

LifeInv == Types /\ OrderedInv /\ ReadyInv /\ ClosedInv

----------------------------------------------------------------------------
(* Sequences *)

LEMMA AppendFacts ==
  ASSUME NEW q \in Seq(Names), NEW x \in Names
  PROVE  /\ Append(q, x) \in Seq(Names) /\ Len(Append(q, x)) = Len(q) + 1 /\ Len(q) \in Nat
         /\ DOMAIN Append(q, x) = 1 .. Len(q) + 1 /\ DOMAIN q = 1 .. Len(q)
         /\ Append(q, x)[Len(q) + 1] = x /\ \A i \in 1 .. Len(q) : Append(q, x)[i] = q[i]
         /\ Range(Append(q, x)) = Range(q) \cup {x}
  <1>1. /\ Append(q, x) \in Seq(Names) /\ Len(Append(q, x)) = Len(q) + 1 /\ Len(q) \in Nat
        /\ DOMAIN Append(q, x) = 1 .. Len(q) + 1 /\ DOMAIN q = 1 .. Len(q)
        /\ Append(q, x)[Len(q) + 1] = x /\ \A i \in 1 .. Len(q) : Append(q, x)[i] = q[i]
    OBVIOUS
  <1>2. 1 .. Len(q) + 1 = 1 .. Len(q) \cup {Len(q) + 1}
    BY <1>1
  <1>3. \A y : (\E i \in DOMAIN Append(q, x) : Append(q, x)[i] = y)
                 <=> ((\E i \in DOMAIN q : q[i] = y) \/ y = x)
    BY <1>1, <1>2, Zenon
  <1>4. Range(Append(q, x)) = Range(q) \cup {x}
    BY <1>3 DEF Range
  <1> QED BY <1>1, <1>4

LEMMA OuterFacts ==
  ASSUME NEW q \in Seq(Names), q # <<>>
  PROVE  /\ Len(q) \in Nat \ {0} /\ DOMAIN q = 1 .. Len(q) /\ Len(q) \in DOMAIN q
         /\ Innermost(q) \in Names
         /\ Innermost(q) = q[Len(q)] /\ Innermost(q) \in Range(q)
         /\ Outer(q) \in Seq(Names) /\ Len(Outer(q)) = Len(q) - 1
         /\ DOMAIN Outer(q) = 1 .. Len(q) - 1
         /\ \A i \in 1 .. Len(q) - 1 : Outer(q)[i] = q[i]
         /\ Range(q) = Range(Outer(q)) \cup {Innermost(q)}
  <1>1. Len(q) \in Nat \ {0} /\ DOMAIN q = 1 .. Len(q) /\ Len(q) \in DOMAIN q
    <2>1. Len(q) \in Nat /\ DOMAIN q = 1 .. Len(q)
      OBVIOUS
    <2>2. Len(q) # 0
      OBVIOUS
    <2> QED BY <2>1, <2>2
  <1>2. Innermost(q) = q[Len(q)] /\ Innermost(q) \in Range(q)
    BY <1>1 DEF Innermost, Range
  <1>3. /\ Outer(q) \in Seq(Names) /\ Len(Outer(q)) = Len(q) - 1
        /\ DOMAIN Outer(q) = 1 .. Len(q) - 1
        /\ \A i \in 1 .. Len(q) - 1 : Outer(q)[i] = q[i]
    BY <1>1 DEF Outer
  <1>4. 1 .. Len(q) = 1 .. Len(q) - 1 \cup {Len(q)}
    BY <1>1
  <1>5. \A y : (\E i \in DOMAIN q : q[i] = y)
                 <=> ((\E i \in DOMAIN Outer(q) : Outer(q)[i] = y) \/ y = Innermost(q))
    BY <1>1, <1>2, <1>3, <1>4, Zenon
  <1>6. Range(q) = Range(Outer(q)) \cup {Innermost(q)}
    BY <1>5 DEF Range
  <1>7. Innermost(q) \in Names
    BY <1>1, <1>2
  <1> QED BY <1>1, <1>2, <1>3, <1>6, <1>7

LEMMA DistinctAppend ==
  ASSUME NEW q \in Seq(Names), NEW x \in Names, Distinct(q), x \notin Range(q)
  PROVE  Distinct(Append(q, x))
  <1>1. \A i \in DOMAIN q : q[i] # x
    BY DEF Range
  <1> QED BY <1>1 DEF Distinct

LEMMA DistinctOuter ==
  ASSUME NEW q \in Seq(Names), q # <<>>, Distinct(q)
  PROVE  Distinct(Outer(q)) /\ Innermost(q) \notin Range(Outer(q))
  <1>1. /\ Len(q) \in Nat \ {0} /\ DOMAIN q = 1 .. Len(q) /\ Innermost(q) = q[Len(q)]
        /\ DOMAIN Outer(q) = 1 .. Len(q) - 1
        /\ \A i \in 1 .. Len(q) - 1 : Outer(q)[i] = q[i]
    BY OuterFacts
  <1>2. Distinct(Outer(q))
    BY <1>1 DEF Distinct
  <1>3. \A i \in 1 .. Len(q) - 1 : q[i] # q[Len(q)]
    BY <1>1 DEF Distinct
  <1> QED BY <1>1, <1>2, <1>3 DEF Range

----------------------------------------------------------------------------
(* The search *)

SearchInv == MarkInv /\ StackInv /\ OrderInv

(* Registration and what comes after the search do not touch it. *)
LEMMA SearchKept ==
  ASSUME SearchInv, UNCHANGED <<deps, searchVars>>, providers \subseteq providers'
  PROVE  SearchInv'
  BY DEF SearchInv, MarkInv, StackInv, OrderInv, searchVars

(* visit(q) begins: a root, or the dependency the innermost call looks at. *)
LEMMA EnterKeeps ==
  ASSUME Types, SearchInv, NEW q \in providers, visited[q] = 0, NEW r, Enter(q, r),
         \/ stack = <<>> /\ r = rest
         \/ /\ stack # <<>> /\ q \in rest[Innermost(stack)]
            /\ r = [rest EXCEPT ![Innermost(stack)] = Without(@, q)],
         UNCHANGED <<deps, providers>>
  PROVE  SearchInv'
  <1>1. /\ q \in Names /\ stack \in Seq(Names) /\ order' = order
        /\ visited' = [visited EXCEPT ![q] = 1] /\ stack' = Append(stack, q)
        /\ rest' = [r EXCEPT ![q] = deps[q]]
    BY DEF Types, Enter, Begin
  <1>2. q \notin Range(stack) /\ q \notin Range(order)
    BY <1>1 DEF SearchInv, MarkInv
  <1>3. /\ stack' \in Seq(Names) /\ Len(stack') = Len(stack) + 1 /\ Len(stack) \in Nat
        /\ DOMAIN stack' = 1 .. Len(stack) + 1 /\ DOMAIN stack = 1 .. Len(stack)
        /\ stack'[Len(stack) + 1] = q /\ \A i \in 1 .. Len(stack) : stack'[i] = stack[i]
        /\ Range(stack') = Range(stack) \cup {q}
    BY <1>1, AppendFacts
  <1>4. MarkInv'
    <2>1. Distinct(stack')
      BY <1>1, <1>2, DistinctAppend DEF SearchInv, MarkInv
    <2>2. \A p \in Names : visited'[p] = IF p = q THEN 1 ELSE visited[p]
      BY <1>1 DEF Types
    <2> QED BY <1>1, <1>2, <1>3, <2>1, <2>2 DEF SearchInv, MarkInv
  <1>5. \A i \in 1 .. Len(stack) : stack[i] \in Names /\ stack[i] # q
    BY <1>1, <1>2, <1>3 DEF Range
  <1>6. StackInv'
    <2> SUFFICES ASSUME NEW i \in 1 .. Len(stack) + 1
                 PROVE  /\ rest'[stack'[i]] \subseteq deps[stack'[i]]
                        /\ \A d \in deps[stack'[i]] \ rest'[stack'[i]] :
                             d \in Range(order) \/ (i < Len(stack') /\ d = stack'[i + 1])
                        /\ i < Len(stack') => stack'[i + 1] \in deps[stack'[i]]
      BY <1>1, <1>3 DEF StackInv
    <2>1. r \in [Names -> SUBSET Names]
      <3>1. \A x \in Names : [rest EXCEPT ![x] = Without(@, q)] \in [Names -> SUBSET Names]
        BY DEF Types, Without
      <3>2. stack # <<>> => Innermost(stack) \in Names
        BY <1>1, OuterFacts DEF Range
      <3>3. CASE r = rest
        BY <3>3 DEF Types
      <3>4. CASE stack # <<>> /\ r = [rest EXCEPT ![Innermost(stack)] = Without(@, q)]
        BY <3>1, <3>2, <3>4
      <3> QED BY <3>3, <3>4
    <2>2. CASE i = Len(stack) + 1
      BY <1>1, <1>3, <2>1, <2>2
    <2>3. CASE i < Len(stack)
      <3>1. /\ i \in 1 .. Len(stack) /\ i + 1 \in 1 .. Len(stack)
            /\ stack'[i] = stack[i] /\ stack'[i + 1] = stack[i + 1]
        BY <1>3, <2>3
      <3>2. stack # <<>> /\ stack[i] # Innermost(stack)
        <4>1. stack # <<>>
          BY <1>3, <3>1
        <4>2. Innermost(stack) = stack[Len(stack)] /\ Len(stack) \in DOMAIN stack
          BY <1>1, <4>1, OuterFacts
        <4> QED BY <1>3, <2>3, <3>1, <4>1, <4>2 DEF SearchInv, MarkInv, Distinct
      <3>3. rest'[stack[i]] = rest[stack[i]]
        <4>1. rest'[stack[i]] = r[stack[i]]
          BY <1>1, <1>5, <2>1, <3>1
        <4>2. r[stack[i]] = rest[stack[i]]
          BY <1>5, <3>1, <3>2 DEF Types
        <4> QED BY <4>1, <4>2
      <3>4. /\ rest[stack[i]] \subseteq deps[stack[i]]
            /\ \A d \in deps[stack[i]] \ rest[stack[i]] : d \in Range(order) \/ d = stack[i + 1]
            /\ stack[i + 1] \in deps[stack[i]]
        BY <1>3, <2>3, <3>1 DEF SearchInv, StackInv
      <3> QED BY <2>3, <1>3, <3>1, <3>3, <3>4
    <2>4. CASE i = Len(stack)
      <3>1. stack # <<>> /\ i \in 1 .. Len(stack)
        BY <1>3, <2>4
      <3>2. Innermost(stack) = stack[i]
        BY <1>1, <2>4, <3>1, OuterFacts
      <3>3. /\ stack'[i] = stack[i] /\ stack'[i + 1] = q /\ i < Len(stack')
        BY <1>3, <2>4, <3>1
      <3>4. rest'[stack[i]] = rest[stack[i]] \ {q} /\ q \in rest[stack[i]]
        <4>1. rest'[stack[i]] = r[stack[i]]
          BY <1>1, <1>5, <2>1, <3>1
        <4>2. r[stack[i]] = rest[stack[i]] \ {q} /\ q \in rest[stack[i]]
          BY <1>5, <3>1, <3>2 DEF Types, Without
        <4> QED BY <4>1, <4>2
      <3>5. /\ rest[stack[i]] \subseteq deps[stack[i]]
            /\ \A d \in deps[stack[i]] \ rest[stack[i]] : d \in Range(order)
        BY <1>3, <2>4, <3>1 DEF SearchInv, StackInv
      <3> QED BY <3>3, <3>4, <3>5
    <2>5. i = Len(stack) + 1 \/ i < Len(stack) \/ i = Len(stack)
      <3>1. \A n \in Nat : \A j \in 1 .. n + 1 : j = n + 1 \/ j < n \/ j = n
        OBVIOUS
      <3>2. Len(stack) \in Nat
        BY <1>3
      <3> QED BY <3>1, <3>2, Zenon
    <2> QED BY <2>2, <2>3, <2>4, <2>5, Zenon
  <1>7. OrderInv'
    BY <1>1 DEF SearchInv, OrderInv
  <1> QED BY <1>4, <1>6, <1>7 DEF SearchInv

(* A dependency that is done is looked at: there is nothing to do. *)
LEMMA SkipKeeps ==
  ASSUME Types, SearchInv, stack # <<>>, NEW q \in rest[Innermost(stack)], q \in Range(order),
         rest' = [rest EXCEPT ![Innermost(stack)] = Without(@, q)],
         UNCHANGED <<deps, providers, visited, stack, order>>
  PROVE  SearchInv'
  <1>1. /\ Len(stack) \in Nat \ {0} /\ DOMAIN stack = 1 .. Len(stack) /\ Len(stack) \in DOMAIN stack
        /\ Innermost(stack) = stack[Len(stack)]
    BY OuterFacts DEF Types
  <1>2. \A i \in DOMAIN stack : stack[i] \in Names
    BY DEF Types
  <1>3. \A p \in Names : rest'[p] = IF p = Innermost(stack) THEN rest[p] \ {q} ELSE rest[p]
    BY DEF Types, Without
  <1>4. StackInv'
    <2> SUFFICES ASSUME NEW i \in DOMAIN stack
                 PROVE  /\ rest'[stack[i]] \subseteq deps[stack[i]]
                        /\ \A d \in deps[stack[i]] \ rest'[stack[i]] :
                             d \in Range(order) \/ (i < Len(stack) /\ d = stack[i + 1])
                        /\ i < Len(stack) => stack[i + 1] \in deps[stack[i]]
      BY DEF StackInv
    <2>1. /\ rest[stack[i]] \subseteq deps[stack[i]]
          /\ \A d \in deps[stack[i]] \ rest[stack[i]] :
               d \in Range(order) \/ (i < Len(stack) /\ d = stack[i + 1])
          /\ i < Len(stack) => stack[i + 1] \in deps[stack[i]]
      BY DEF SearchInv, StackInv
    <2>2. rest'[stack[i]] \in {rest[stack[i]], rest[stack[i]] \ {q}}
      BY <1>2, <1>3
    <2> QED BY <2>1, <2>2
  <1> QED BY <1>4 DEF SearchInv, MarkInv, OrderInv

(* visit returns: all that its provider depends on is in the order. *)
LEMMA ReturnKeeps ==
  ASSUME Types, SearchInv, stack # <<>>, rest[Innermost(stack)] = {},
         visited' = [visited EXCEPT ![Innermost(stack)] = 2], order' = Append(order, Innermost(stack)),
         stack' = Outer(stack), UNCHANGED <<deps, providers, rest>>
  PROVE  SearchInv'
  <1> DEFINE p == Innermost(stack)
             n == Len(stack)
  <1>1. /\ n \in Nat \ {0} /\ DOMAIN stack = 1 .. n /\ n \in DOMAIN stack
        /\ p = stack[n] /\ p \in Range(stack)
        /\ stack' \in Seq(Names) /\ Len(stack') = n - 1 /\ DOMAIN stack' = 1 .. n - 1
        /\ \A i \in 1 .. n - 1 : stack'[i] = stack[i]
        /\ Range(stack) = Range(stack') \cup {p}
    BY OuterFacts DEF Types
  <1>2. Distinct(stack') /\ p \notin Range(stack')
    BY DistinctOuter DEF Types, SearchInv, MarkInv
  <1>3. p \in Names /\ p \notin Range(order)
    <2>1. p \in Names
      BY <1>1 DEF Types
    <2> QED BY <1>1, <2>1 DEF SearchInv, MarkInv
  <1>4. order \in Seq(Names)
    BY DEF Types
  <1>5. /\ order' \in Seq(Names) /\ Len(order') = Len(order) + 1 /\ Len(order) \in Nat
        /\ DOMAIN order' = 1 .. Len(order) + 1 /\ DOMAIN order = 1 .. Len(order)
        /\ order'[Len(order) + 1] = p /\ \A i \in 1 .. Len(order) : order'[i] = order[i]
        /\ Range(order') = Range(order) \cup {p}
    BY <1>3, <1>4, AppendFacts
  <1>6. deps[p] \subseteq Range(order)
    <2>1. \A q \in deps[p] \ rest[p] : q \in Range(order) \/ (n < n /\ q = stack[n + 1])
      BY <1>1 DEF SearchInv, StackInv
    <2> QED BY <1>1, <2>1
  <1>7. visited'[p] = 2 /\ \A x \in Names : x # p => visited'[x] = visited[x]
    BY <1>3 DEF Types
  <1> HIDE DEF p, n
  <1>8. MarkInv'
    <2>1. Distinct(order')
      BY <1>3, <1>4, DistinctAppend DEF SearchInv, MarkInv, p
    <2> QED BY <1>1, <1>2, <1>3, <1>5, <1>7, <2>1 DEF SearchInv, MarkInv
  <1>9. StackInv'
    <2> SUFFICES ASSUME NEW i \in 1 .. n - 1
                 PROVE  /\ rest[stack'[i]] \subseteq deps[stack'[i]]
                        /\ \A d \in deps[stack'[i]] \ rest[stack'[i]] :
                             d \in Range(order') \/ (i < Len(stack') /\ d = stack'[i + 1])
                        /\ i < Len(stack') => stack'[i + 1] \in deps[stack'[i]]
      BY <1>1 DEF StackInv
    <2>1. /\ i \in DOMAIN stack /\ i < n /\ stack'[i] = stack[i]
          /\ i < Len(stack') => stack'[i + 1] = stack[i + 1]
          /\ ~(i < Len(stack')) => stack[i + 1] = p
      BY <1>1
    <2>2. /\ rest[stack[i]] \subseteq deps[stack[i]]
          /\ \A d \in deps[stack[i]] \ rest[stack[i]] : d \in Range(order) \/ d = stack[i + 1]
          /\ stack[i + 1] \in deps[stack[i]]
      BY <2>1 DEF SearchInv, StackInv, n
    <2> QED BY <1>5, <2>1, <2>2
  <1>10. OrderInv'
    <2> SUFFICES ASSUME NEW i \in 1 .. Len(order) + 1, NEW q \in deps[order'[i]]
                 PROVE  \E j \in 1 .. i - 1 : order'[j] = q
      BY <1>5 DEF OrderInv
    <2>1. CASE i = Len(order) + 1
      <3>1. q \in Range(order)
        BY <1>5, <1>6, <2>1
      <3>2. PICK j \in 1 .. Len(order) : order[j] = q
        BY <1>5, <3>1 DEF Range
      <3> QED BY <1>5, <2>1, <3>2
    <2>2. CASE i # Len(order) + 1
      <3>1. i \in DOMAIN order /\ order'[i] = order[i]
        BY <1>5, <2>2
      <3>2. PICK j \in 1 .. i - 1 : order[j] = q
        BY <3>1 DEF SearchInv, OrderInv
      <3>3. order'[j] = order[j]
        BY <1>5, <3>1, <3>2
      <3> QED BY <3>2, <3>3
    <2> QED BY <2>1, <2>2
  <1> QED BY <1>8, <1>9, <1>10 DEF SearchInv

(* A dependency that is in progress closes a cycle: it is on the stack, and  *)
(* each call from there on depends on the next.                              *)
LEMMA CircularIsRight ==
  ASSUME Types, SearchInv, stack # <<>>, NEW q \in rest[Innermost(stack)], visited[q] = 1
  PROVE  \E ps \in SUBSET providers : Cyclic(ps)
  <1> DEFINE n == Len(stack)
  <1>1. n \in Nat \ {0} /\ DOMAIN stack = 1 .. n /\ n \in DOMAIN stack /\ Innermost(stack) = stack[n]
    BY OuterFacts DEF Types
  <1>2. q \in deps[stack[n]] /\ q \in Names
    <2>1. q \in deps[stack[n]] /\ stack[n] \in Names
      BY <1>1 DEF SearchInv, StackInv, Types
    <2> QED BY <2>1 DEF Types
  <1>3. PICK k \in 1 .. n : stack[k] = q
    BY <1>1, <1>2 DEF SearchInv, MarkInv, Range
  <1> DEFINE ps == {stack[i] : i \in k .. n}
  <1>4. ps \in SUBSET providers /\ q \in ps
    <2>1. \A i \in k .. n : stack[i] \in Range(stack)
      BY <1>1 DEF Range
    <2>2. q \in ps
      BY <1>3
    <2> QED BY <2>1, <2>2 DEF SearchInv, MarkInv
  <1>5. ASSUME NEW p \in ps PROVE deps[p] \cap ps # {}
    <2>1. PICK i \in k .. n : p = stack[i]
      OBVIOUS
    <2>2. CASE i = n
      BY <1>2, <1>4, <2>1, <2>2
    <2>3. CASE i < n
      <3>1. i \in DOMAIN stack /\ i + 1 \in k .. n
        BY <1>1, <2>3
      <3>2. stack[i + 1] \in deps[stack[i]]
        BY <2>3, <3>1 DEF SearchInv, StackInv
      <3> QED BY <2>1, <3>1, <3>2
    <2> QED BY <1>1, <2>2, <2>3
  <1> QED BY <1>4, <1>5 DEF Cyclic

----------------------------------------------------------------------------
(* The order, step by step *)

(* Steps that leave the order, what runs and why it ended as they are. *)
LEMMA OrderedKept ==
  ASSUME OrderedInv, UNCHANGED <<deps, searchVars, providers, up, halted, phase, err>>
  PROVE  OrderedInv'
  <1>1. MarkInv' /\ StackInv' /\ OrderInv'
    BY SearchKept DEF OrderedInv, SearchInv
  <1>2. PhaseInv' /\ HaltedInv'
    BY DEF OrderedInv, PhaseInv, HaltedInv, searchVars
  <1>3. RejectionsAreRight'
    BY DEF OrderedInv, RejectionsAreRight, Cyclic
  <1> QED BY <1>1, <1>2, <1>3 DEF OrderedInv

(* logger.Fatal for another reason than the search's. *)
LEMMA FatalKept ==
  ASSUME OrderedInv, NEW why \in {"duplicate", "conflict", "connect", "init", "serve"}, Fatal(why),
         UNCHANGED <<deps, searchVars, up, halted>>, providers \subseteq providers'
  PROVE  OrderedInv'
  <1>1. MarkInv' /\ StackInv' /\ OrderInv'
    BY SearchKept DEF OrderedInv, SearchInv
  <1>2. PhaseInv' /\ HaltedInv'
    BY DEF OrderedInv, PhaseInv, HaltedInv, searchVars, Fatal
  <1>3. RejectionsAreRight'
    BY DEF RejectionsAreRight, Fatal
  <1> QED BY <1>1, <1>2, <1>3 DEF OrderedInv

LEMMA RegisterKeeps ==
  ASSUME Types, OrderedInv, NEW p \in Names, Register(p)
  PROVE  OrderedInv' /\ providers' \subseteq Names /\ listed' \in [Names -> 0 .. 2]
         /\ phase' \in Phases
  <1>1. /\ UNCHANGED <<deps, searchVars, up, halted>> /\ providers \subseteq providers'
        /\ providers' \subseteq Names /\ phase = "register"
    BY DEF Register, configVars, Types
  <1>2. listed' \in [Names -> 0 .. 2]
    BY DEF Register, Types
  <1>3. CASE Fatal("duplicate") \/ Fatal("conflict")
    BY <1>1, <1>2, <1>3, FatalKept DEF Fatal, Phases
  <1>4. CASE UNCHANGED <<phase, err>>
    <2>1. MarkInv' /\ StackInv' /\ OrderInv'
      BY <1>1, SearchKept DEF OrderedInv, SearchInv
    <2>2. PhaseInv' /\ HaltedInv'
      BY <1>1, <1>4 DEF OrderedInv, PhaseInv, HaltedInv, searchVars
    <2>3. RejectionsAreRight'
      BY <1>1, <1>4 DEF OrderedInv, PhaseInv, RejectionsAreRight
    <2> QED BY <1>1, <1>2, <1>4, <2>1, <2>2, <2>3 DEF OrderedInv, Types
  <1> QED BY <1>3, <1>4 DEF Register

(* A step of the search. *)
LEMMA VisitKeeps ==
  ASSUME Types, OrderedInv, NEW q \in Names, VisitRoot(q) \/ VisitDependency(q) \/ VisitReturns
  PROVE  /\ OrderedInv' /\ visited' \in [Names -> 0 .. 2] /\ rest' \in [Names -> SUBSET Names]
         /\ stack' \in Seq(Names) /\ order' \in Seq(Names) /\ phase' \in Phases
  <1>1. /\ phase = "resolve" /\ UNCHANGED <<deps, feats, listed, providers, owner, up, halted>>
        /\ up = 0 /\ halted = <<>> /\ err = "none"
    BY DEF VisitRoot, VisitDependency, VisitReturns, configVars, registerVars, OrderedInv, PhaseInv
  <1>2. SearchInv
    BY DEF OrderedInv, SearchInv
  <1>3. HaltedInv /\ Len(order) \in Nat
    BY DEF OrderedInv, Types
  <1>4. ASSUME SearchInv', UNCHANGED <<phase, err>>, order' \in Seq(Names) PROVE OrderedInv'
    <2>1. PhaseInv'
      BY <1>1, <1>4 DEF OrderedInv, PhaseInv
    <2>2. HaltedInv'
      BY <1>1, <1>4 DEF HaltedInv
    <2>3. RejectionsAreRight'
      BY <1>1, <1>4 DEF RejectionsAreRight
    <2> QED BY <1>4, <2>1, <2>2, <2>3 DEF OrderedInv, SearchInv
  <1>5. ASSUME NEW why \in {"missing", "circular"}, Fatal(why), UNCHANGED searchVars,
               why = "missing" => \E p \in providers : deps[p] \ providers # {},
               why = "circular" => \E ps \in SUBSET providers : Cyclic(ps)
        PROVE  OrderedInv'
    <2>1. MarkInv' /\ StackInv' /\ OrderInv'
      BY <1>1, <1>2, <1>5, SearchKept DEF SearchInv
    <2>2. PhaseInv' /\ HaltedInv'
      BY <1>1, <1>5 DEF OrderedInv, PhaseInv, HaltedInv, searchVars, Fatal
    <2>3. RejectionsAreRight'
      BY <1>1, <1>5 DEF RejectionsAreRight, Fatal, Cyclic
    <2> QED BY <2>1, <2>2, <2>3 DEF OrderedInv
  <1>6. ASSUME NEW r \in [Names -> SUBSET Names], Enter(q, r)
        PROVE  /\ visited' \in [Names -> 0 .. 2] /\ rest' \in [Names -> SUBSET Names]
               /\ stack' \in Seq(Names) /\ order' \in Seq(Names) /\ UNCHANGED <<phase, err>>
    BY <1>6 DEF Enter, Begin, Types
  <1>7. CASE VisitRoot(q)
    <2>1. SearchInv'
      BY <1>1, <1>2, <1>7, EnterKeeps DEF VisitRoot
    <2>2. rest \in [Names -> SUBSET Names] /\ Enter(q, rest)
      BY <1>7 DEF VisitRoot, Types
    <2> QED BY <1>1, <1>4, <1>6, <2>1, <2>2 DEF Types
  <1>8. CASE VisitDependency(q)
    <2> DEFINE l == [rest EXCEPT ![Innermost(stack)] = Without(@, q)]
    <2>1. stack # <<>> /\ q \in rest[Innermost(stack)]
      BY <1>8 DEF VisitDependency
    <2>2. Innermost(stack) \in Range(stack) /\ Innermost(stack) \in Names
      BY <2>1, OuterFacts DEF Types
    <2>3. l \in [Names -> SUBSET Names]
      BY <2>2 DEF Types, Without
    <2>4. CASE q \notin providers /\ Fatal("missing") /\ UNCHANGED searchVars
      <3>1. Innermost(stack) \in providers
        BY <1>2, <2>2 DEF SearchInv, MarkInv
      <3>2. q \in deps[Innermost(stack)]
        <4>1. Len(stack) \in DOMAIN stack /\ Innermost(stack) = stack[Len(stack)]
          BY <2>1, OuterFacts DEF Types
        <4> QED BY <1>2, <2>1, <4>1 DEF SearchInv, StackInv
      <3>3. OrderedInv'
        BY <1>5, <2>4, <3>1, <3>2
      <3> QED BY <2>4, <3>3 DEF Types, searchVars, Fatal, Phases
    <2>5. CASE visited[q] = 1 /\ Fatal("circular") /\ UNCHANGED searchVars
      <3>1. \E ps \in SUBSET providers : Cyclic(ps)
        BY <1>2, <2>1, <2>5, CircularIsRight
      <3>2. OrderedInv'
        BY <1>5, <2>5, <3>1
      <3> QED BY <2>5, <3>2 DEF Types, searchVars, Fatal, Phases
    <2>6. CASE visited[q] = 2 /\ rest' = l /\ UNCHANGED <<visited, stack, order, phase, err>>
      <3>1. q \in Range(order)
        BY <1>2, <2>6 DEF SearchInv, MarkInv
      <3>2. SearchInv'
        BY <1>1, <1>2, <2>1, <2>6, <3>1, SkipKeeps
      <3> QED BY <1>4, <2>3, <2>6, <3>2 DEF Types
    <2>7. CASE q \in providers /\ visited[q] = 0 /\ Enter(q, l)
      <3>1. SearchInv'
        BY <1>1, <1>2, <2>1, <2>7, EnterKeeps
      <3> QED BY <1>1, <1>4, <1>6, <2>3, <2>7, <3>1 DEF Types
    <2> QED BY <1>8, <2>4, <2>5, <2>6, <2>7 DEF VisitDependency
  <1>9. CASE VisitReturns
    <2>1. stack # <<>>
      BY <1>9 DEF VisitReturns
    <2>2. Innermost(stack) \in Names /\ Outer(stack) \in Seq(Names)
      BY <2>1, OuterFacts DEF Types
    <2>3. /\ visited' \in [Names -> 0 .. 2] /\ stack' \in Seq(Names) /\ order' \in Seq(Names)
          /\ UNCHANGED <<rest, phase, err>>
      BY <1>9, <2>2 DEF VisitReturns, Types, Done
    <2>4. SearchInv'
      BY <1>1, <1>2, <1>9, ReturnKeeps DEF VisitReturns, Done
    <2> QED BY <1>4, <2>3, <2>4 DEF Types
  <1> QED BY <1>7, <1>8, <1>9

(* The phases before and after the search, and the loops of InitAll. *)
LEMMA PhaseKeeps ==
  ASSUME Types, OrderedInv, Resolve \/ Resolved \/ Serve \/ Signal \/ Drained \/ Exit
  PROVE  OrderedInv' /\ phase' \in Phases
  <1>1. UNCHANGED <<deps, providers, searchVars, up, halted, err>> /\ phase' \in Phases
    BY DEF Resolve, Resolved, Serve, Signal, Drained, Exit, configVars, registerVars, Phases
  <1>2. MarkInv' /\ StackInv' /\ OrderInv'
    BY <1>1, SearchKept DEF OrderedInv, SearchInv
  <1>3. HaltedInv' /\ RejectionsAreRight'
    BY <1>1 DEF OrderedInv, HaltedInv, RejectionsAreRight, Cyclic, searchVars
  <1>4. PhaseInv'
    <2>1. CASE Resolved
      <3>1. Range(order) = providers
        <4>1. Range(stack) = {}
          BY <2>1 DEF Resolved, Range
        <4>2. \A p \in Names : visited[p] \in 0 .. 2 /\ visited[p] # 1
          BY <4>1 DEF Types, OrderedInv, MarkInv
        <4>3. \A p \in providers : visited[p] = 2
          BY <2>1, <4>2 DEF Resolved, AllVisited, Types
        <4> QED BY <4>3 DEF Types, OrderedInv, MarkInv
      <3> QED BY <1>1, <2>1, <3>1 DEF Resolved, OrderedInv, PhaseInv, searchVars
    <2>2. CASE Serve
      <3>1. up = Len(order)
        BY <2>2 DEF Serve, MoreToInit, OrderedInv, HaltedInv, Types
      <3> QED BY <1>1, <2>2, <3>1 DEF Serve, OrderedInv, PhaseInv, searchVars
    <2>3. CASE Resolve \/ Signal \/ Drained \/ Exit
      BY <1>1, <2>3 DEF Resolve, Signal, Drained, Exit, OrderedInv, PhaseInv, searchVars
    <2> QED BY <2>1, <2>2, <2>3
  <1> QED BY <1>1, <1>2, <1>3, <1>4 DEF OrderedInv

(* One more provider is up. *)
LEMMA UpKeeps ==
  ASSUME Types, OrderedInv, phase = "init", MoreToInit, up' = up + 1,
         UNCHANGED <<deps, providers, searchVars, halted, phase, err>>
  PROVE  OrderedInv' /\ up' \in Nat
  <1>1. MarkInv' /\ StackInv' /\ OrderInv'
    BY SearchKept DEF OrderedInv, SearchInv
  <1>2. up + 1 \in Nat /\ up + 1 <= Len(order) /\ halted = <<>>
    BY DEF Types, MoreToInit, OrderedInv, PhaseInv
  <1>3. HaltedInv'
    BY <1>2 DEF OrderedInv, HaltedInv, searchVars
  <1>4. PhaseInv' /\ RejectionsAreRight'
    BY DEF OrderedInv, PhaseInv, RejectionsAreRight, Cyclic, searchVars
  <1> QED BY <1>1, <1>2, <1>3, <1>4 DEF OrderedInv

(* One more is down, the last that is not, ... *)
LEMMA DownKeeps ==
  ASSUME Types, OrderedInv, phase = "shutdown", Len(halted) < Len(order),
         halted' = Append(halted, NextDown),
         UNCHANGED <<deps, providers, searchVars, up, phase, err>>
  PROVE  /\ OrderedInv' /\ halted' \in Seq(Names) /\ NextDown \in Names
         /\ Len(halted') = Len(halted) + 1 /\ Range(halted') = Range(halted) \cup {NextDown}
  <1>1. order \in Seq(Names) /\ halted \in Seq(Names) /\ Len(order) \in Nat /\ Len(halted) \in Nat
    BY DEF Types
  <1>2. Len(order) - Len(halted) \in 1 .. Len(order)
    BY <1>1
  <1>3. NextDown = order[Len(order) - Len(halted)] /\ NextDown \in Names
    BY <1>1, <1>2 DEF NextDown
  <1>4. /\ halted' \in Seq(Names) /\ Len(halted') = Len(halted) + 1
        /\ DOMAIN halted' = 1 .. Len(halted) + 1 /\ DOMAIN halted = 1 .. Len(halted)
        /\ halted'[Len(halted) + 1] = NextDown
        /\ \A i \in 1 .. Len(halted) : halted'[i] = halted[i]
        /\ Range(halted') = Range(halted) \cup {NextDown}
    BY <1>1, <1>3, AppendFacts
  <1>5. MarkInv' /\ StackInv' /\ OrderInv'
    BY SearchKept DEF OrderedInv, SearchInv
  <1>6. up = Len(order) /\ order' = order /\ up' = up
    BY DEF OrderedInv, PhaseInv, searchVars
  <1>7. \A i \in 1 .. Len(halted) + 1 : halted'[i] = order[Len(order) - i + 1]
    <2> TAKE i \in 1 .. Len(halted) + 1
    <2>1. CASE i = Len(halted) + 1
      <3>1. Len(order) - i + 1 = Len(order) - Len(halted)
        BY <1>1, <2>1
      <3> QED BY <1>3, <1>4, <2>1, <3>1
    <2>2. CASE i # Len(halted) + 1
      <3>1. i \in 1 .. Len(halted)
        BY <1>1, <2>2
      <3> QED BY <1>4, <3>1 DEF OrderedInv, HaltedInv
    <2> QED BY <2>1, <2>2
  <1>8. HaltedInv'
    BY <1>1, <1>4, <1>6, <1>7 DEF HaltedInv
  <1>9. PhaseInv' /\ RejectionsAreRight'
    BY DEF OrderedInv, PhaseInv, RejectionsAreRight, Cyclic, searchVars
  <1> QED BY <1>3, <1>4, <1>5, <1>8, <1>9 DEF OrderedInv

(* ... or ShutdownAll is over. *)
LEMMA CloseKeeps ==
  ASSUME OrderedInv, phase = "shutdown", phase' = "close",
         UNCHANGED <<deps, providers, searchVars, up, halted, err>>
  PROVE  OrderedInv'
  <1>1. MarkInv' /\ StackInv' /\ OrderInv'
    BY SearchKept DEF OrderedInv, SearchInv
  <1>2. PhaseInv' /\ HaltedInv' /\ RejectionsAreRight'
    BY DEF OrderedInv, PhaseInv, HaltedInv, RejectionsAreRight, Cyclic, searchVars
  <1> QED BY <1>1, <1>2 DEF OrderedInv

(* Steps of sidecars alone. *)
Aside(p) ==
  \/ Send(p, "http") \/ Send(p, "hook") \/ CrashSidecar(p) \/ StartSidecar(p)
  \/ \E kind \in {"http", "hook"} : Served(p, kind)

LEMMA AsideKeeps ==
  ASSUME Types, OrderedInv, NEW p \in Names, Aside(p)
  PROVE  Types' /\ OrderedInv'
  <1>1. UNCHANGED <<deps, listed, providers, searchVars, up, halted, phase, err, conn, rpc>>
    BY DEF Aside, Send, Served, CrashSidecar, StartSidecar, vars, configVars, registerVars
  <1>2. sidecar' \in [Names -> {"dead", "new", "ready", "stopped"}]
    BY DEF Aside, Send, Served, CrashSidecar, StartSidecar, Types
  <1> QED BY <1>1, <1>2, OrderedKept DEF Types, searchVars

LEMMA NextUpIsNext ==
  ASSUME Types, MoreToInit
  PROVE  up + 1 \in DOMAIN order /\ NextUp = order[up + 1] /\ NextUp \in Names
  <1>1. \A n, m \in Nat : n < m => n + 1 \in 1 .. m
    OBVIOUS
  <1>2. up + 1 \in 1 .. Len(order)
    BY <1>1 DEF Types, MoreToInit
  <1> QED BY <1>2 DEF Types, NextUp

LEMMA NextOrdered == Types /\ OrderedInv /\ [SidecarsNext]_allVars => Types' /\ OrderedInv'
  <1> SUFFICES ASSUME Types, OrderedInv, [SidecarsNext]_allVars PROVE Types' /\ OrderedInv'
    OBVIOUS
  <1> USE DEF configVars, registerVars
  <1>1. ASSUME NEW p \in Names, RegisterBuiltin(p) \/ RegisterExternalProviders(p)
        PROVE  Types' /\ OrderedInv'
    <2>1. Register(p) /\ UNCHANGED sidecarVars
      BY <1>1 DEF RegisterBuiltin, RegisterExternalProviders
    <2>2. UNCHANGED <<deps, searchVars, up, halted, conn, rpc, sidecar>>
      BY <2>1 DEF Register, sidecarVars
    <2> QED BY <2>1, <2>2, RegisterKeeps DEF Types, searchVars
  <1>2. ASSUME NEW p \in Names, Connect(p) PROVE Types' /\ OrderedInv'
    <2>1. UNCHANGED <<deps, providers, searchVars, up, halted, sidecar, rpc>>
      BY <1>2 DEF Connect
    <2>2. /\ listed' \in [Names -> 0 .. 2] /\ conn' \in [Names -> {"none", "open", "closed"}]
          /\ UNCHANGED <<phase, err>> \/ Fatal("connect")
      <3>1. CASE ConnectExternalProvider(p)
        BY <3>1 DEF ConnectExternalProvider, Types
      <3>2. CASE discoverFromDirectory(p)
        <4>1. [listed EXCEPT ![p] = 0] \in [Names -> 0 .. 2]
          BY DEF Types
        <4> QED BY <3>1, <3>2, <4>1 DEF discoverFromDirectory, Types
      <3>3. CASE Fatal("connect") /\ UNCHANGED <<listed, conn>>
        BY <3>3 DEF Types
      <3> QED BY <1>2, <3>1, <3>2, <3>3 DEF Connect, DiscoverExternalProviders
    <2>3. phase' \in Phases
      BY <2>2 DEF Fatal, Phases, Types
    <2>4. OrderedInv'
      BY <2>1, <2>2, OrderedKept, FatalKept
    <2> QED BY <2>1, <2>2, <2>3, <2>4 DEF Types, searchVars
  <1>3. ASSUME NEW p \in Names, Aside(p) PROVE Types' /\ OrderedInv'
    BY <1>3, AsideKeeps
  <1>4. CASE InitBuiltin \/ InitExternal
    <2>1. /\ UNCHANGED <<deps, listed, providers, searchVars, halted, conn>>
          /\ phase = "init" /\ MoreToInit
          /\ \/ up' \in {up, up + 1} /\ UNCHANGED <<phase, err>>
             \/ Fatal("init") /\ UNCHANGED up
      BY <1>4 DEF InitBuiltin, InitExternal, InitNext, InitFailed, sidecarVars
    <2>2. OrderedInv' /\ up' \in Nat /\ phase' \in Phases
      <3>1. CASE up' = up + 1 /\ UNCHANGED <<phase, err>>
        BY <2>1, <3>1, UpKeeps DEF Types
      <3>2. CASE UNCHANGED <<up, phase, err>>
        BY <2>1, <3>2, OrderedKept DEF Types
      <3>3. CASE Fatal("init") /\ UNCHANGED up
        BY <2>1, <3>3, FatalKept DEF Types, Fatal, Phases
      <3> QED BY <2>1, <3>1, <3>2, <3>3
    <2>3. /\ rpc' \in [Names -> Nat]
          /\ sidecar' \in [Names -> {"dead", "new", "ready", "stopped"}]
      <3>1. CASE UNCHANGED <<rpc, sidecar>>
        BY <3>1 DEF Types
      <3>2. CASE /\ rpc' = [rpc EXCEPT ![NextUp] = @ + 1]
                 /\ sidecar' = IF rpc[NextUp] = 0 THEN [sidecar EXCEPT ![NextUp] = "ready"] ELSE sidecar
        <4>1. rpc' \in [Names -> Nat]
          BY <2>1, <3>2, NextUpIsNext DEF Types
        <4>2. sidecar' \in [Names -> {"dead", "new", "ready", "stopped"}]
          BY <3>2 DEF Types
        <4> QED BY <4>1, <4>2
      <3> QED BY <1>4, <3>1, <3>2 DEF InitBuiltin, InitExternal, sidecarVars
    <2> QED BY <2>1, <2>2, <2>3 DEF Types, searchVars
  <1>5. CASE /\ Resolve \/ Resolved \/ Serve \/ Signal \/ Drained \/ Exit
             /\ UNCHANGED sidecarVars
    <2>1. UNCHANGED <<deps, listed, providers, searchVars, up, halted, conn, rpc, sidecar>>
      BY <1>5 DEF Resolve, Resolved, Serve, Signal, Drained, Exit, sidecarVars
    <2> QED BY <1>5, <2>1, PhaseKeeps DEF Types, searchVars
  <1>6. CASE ServeFails /\ UNCHANGED sidecarVars
    <2>1. /\ UNCHANGED <<deps, listed, providers, searchVars, up, halted, conn, rpc, sidecar>>
          /\ Fatal("serve")
      BY <1>6 DEF ServeFails, sidecarVars
    <2> QED BY <2>1, FatalKept DEF Types, searchVars, Fatal, Phases
  <1>7. ASSUME NEW q \in Names, VisitRoot(q) \/ VisitDependency(q) \/ VisitReturns,
               UNCHANGED sidecarVars
        PROVE  Types' /\ OrderedInv'
    <2>1. UNCHANGED <<deps, listed, providers, up, halted, conn, rpc, sidecar>>
      BY <1>7 DEF VisitRoot, VisitDependency, VisitReturns, sidecarVars
    <2> QED BY <1>7, <2>1, VisitKeeps DEF Types
  <1>8. CASE ShutdownBuiltin \/ CloseExternal
    <2>1. /\ UNCHANGED <<deps, listed, providers, searchVars, up, err, rpc, sidecar>>
          /\ phase = "shutdown" /\ conn' \in [Names -> {"none", "open", "closed"}]
          /\ \/ /\ Len(halted) < Len(order) /\ halted' = Append(halted, NextDown)
                /\ UNCHANGED phase
             \/ phase' = "close" /\ UNCHANGED halted
      BY <1>8 DEF ShutdownBuiltin, ShutdownNext, CloseExternal, Types
    <2>2. OrderedInv' /\ halted' \in Seq(Names) /\ phase' \in Phases
      <3>1. CASE Len(halted) < Len(order) /\ halted' = Append(halted, NextDown) /\ UNCHANGED phase
        BY <2>1, <3>1, DownKeeps DEF Types
      <3>2. CASE phase' = "close" /\ UNCHANGED halted
        BY <2>1, <3>2, CloseKeeps DEF Types, Phases
      <3> QED BY <2>1, <3>1, <3>2
    <2> QED BY <2>1, <2>2 DEF Types, searchVars
  <1>9. CASE ShutdownExternal
    <2>1. /\ UNCHANGED <<deps, listed, providers, searchVars, up, halted, phase, err, conn, rpc>>
          /\ sidecar' \in [Names -> {"dead", "new", "ready", "stopped"}]
      BY <1>9 DEF ShutdownExternal, ShutdownFailed, Types
    <2> QED BY <2>1, OrderedKept DEF Types, searchVars
  <1>10. CASE UNCHANGED allVars
    <2>1. UNCHANGED <<deps, listed, providers, searchVars, up, halted, phase, err, conn, rpc, sidecar>>
      BY <1>10 DEF allVars, vars, sidecarVars
    <2> QED BY <2>1, OrderedKept DEF Types, searchVars
  <1>11. ASSUME NEW p \in Names, proxyHandler(p) \/ makeAsyncHookHandler(p) \/ CrashSidecar(p)
                \/ StartSidecar(p) \/ \E kind \in {"http", "hook"} : Served(p, kind)
         PROVE  Types' /\ OrderedInv'
    BY <1>3, <1>11 DEF Aside, proxyHandler, makeAsyncHookHandler
  <1>12. CASE Search /\ UNCHANGED sidecarVars
    <2>1. CASE Resolved
      BY <1>5, <1>12, <2>1
    <2>2. CASE VisitReturns
      <3>1. stack # <<>>
        BY <2>2 DEF VisitReturns
      <3>2. Innermost(stack) \in Names
        BY <3>1, OuterFacts DEF Types
      <3> QED BY <1>7, <1>12, <2>2, <3>2
    <2> QED BY <1>7, <1>12, <2>1, <2>2 DEF Search
  <1> QED BY <1>1, <1>2, <1>4, <1>5, <1>6, <1>8, <1>9, <1>10, <1>11, <1>12
          DEF SidecarsNext, SidecarStep

LEMMA InitOrdered == SidecarsInit => Types /\ OrderedInv
  <1> SUFFICES ASSUME SidecarsInit PROVE Types /\ OrderedInv
    OBVIOUS
  <1> USE DEF SidecarsInit, Init
  <1>1. Types
    <2>1. listed \in [Names -> 0 .. 2] /\ deps \in [Names -> SUBSET Names]
      BY LifecycleAssumption
    <2> QED BY <2>1 DEF Types, Phases
  <1>2. Range(<<>>) = {} /\ Distinct(<<>>)
    BY DEF Range, Distinct
  <1>3. MarkInv /\ StackInv /\ OrderInv
    BY <1>2 DEF MarkInv, StackInv, OrderInv
  <1>4. PhaseInv /\ HaltedInv /\ RejectionsAreRight
    BY DEF PhaseInv, HaltedInv, RejectionsAreRight
  <1> QED BY <1>1, <1>3, <1>4 DEF OrderedInv

(* The order that the search of registry.go leaves, whichever way it goes    *)
(* through the providers, has every provider after all it depends on, none   *)
(* of them twice and, when the search succeeds, none left out.               *)
THEOREM DependenciesAreFirst == SidecarsSpec => []DependenciesFirst
  <1>1. Types /\ OrderedInv => DependenciesFirst
    <2> SUFFICES ASSUME Types, OrderedInv PROVE DependenciesFirst
      OBVIOUS
    <2>1. phase = "init" => Range(order) = providers
      BY DEF OrderedInv, PhaseInv
    <2>2. \A i \in DOMAIN order : \A j \in 1 .. i - 1 : order[j] # order[i]
      <3>1. \A i \in DOMAIN order : \A j \in 1 .. i - 1 : j \in DOMAIN order /\ j # i
        BY DEF Types
      <3> QED BY <3>1 DEF OrderedInv, MarkInv, Distinct
    <2> QED BY <2>1, <2>2 DEF OrderedInv, OrderInv, DependenciesFirst
  <1> QED BY <1>1, InitOrdered, NextOrdered, PTL DEF SidecarsSpec

(* The search of registry.go reports a cycle only if some of the registered  *)
(* providers depend on each other in one, and a missing provider only if a   *)
(* registered one depends on a provider that is not.                         *)
THEOREM OnlyRejectsWrong == SidecarsSpec => []RejectionsAreRight
  <1>1. OrderedInv => RejectionsAreRight
    BY DEF OrderedInv
  <1> QED BY <1>1, InitOrdered, NextOrdered, PTL DEF SidecarsSpec

(* Providers that are up are the first of the order. *)
LEMMA UpIsPrefix ==
  ASSUME Types, OrderedInv
  PROVE  \A i \in DOMAIN order : order[i] \in Up <=> i <= up - Len(halted)
  <1>1. /\ Len(order) \in Nat /\ Len(halted) \in Nat /\ up \in Nat
        /\ DOMAIN order = 1 .. Len(order) /\ DOMAIN halted = 1 .. Len(halted)
    BY DEF Types
  <1>2. /\ up <= Len(order) /\ Len(halted) <= Len(order)
        /\ halted # <<>> => up = Len(order)
        /\ \A i \in DOMAIN halted : halted[i] = order[Len(order) - i + 1]
    BY DEF OrderedInv, HaltedInv
  <1>3. \A i, j \in DOMAIN order : order[i] = order[j] => i = j
    BY DEF OrderedInv, MarkInv, Distinct
  <1> TAKE i \in DOMAIN order
  <1>4. order[i] \in {order[j] : j \in 1 .. up} <=> i <= up
    <2>1. ASSUME order[i] \in {order[j] : j \in 1 .. up} PROVE i <= up
      <3>1. PICK j \in 1 .. up : order[i] = order[j]
        BY <2>1
      <3>2. j \in DOMAIN order
        <4>1. \A n, m \in Nat : m <= n => 1 .. m \subseteq 1 .. n
          OBVIOUS
        <4>2. 1 .. up \subseteq 1 .. Len(order)
          BY <1>1, <1>2, <4>1
        <4> QED BY <1>1, <4>2
      <3>3. i = j
        BY <1>3, <3>1, <3>2
      <3> QED BY <1>1, <3>3
    <2>2. i <= up => i \in 1 .. up
      BY <1>1
    <2> QED BY <2>1, <2>2
  <1>5. order[i] \in Range(halted) <=> i > Len(order) - Len(halted)
    <2>1. ASSUME order[i] \in Range(halted) PROVE i > Len(order) - Len(halted)
      <3>1. PICK j \in 1 .. Len(halted) : order[i] = halted[j]
        BY <1>1, <2>1 DEF Range
      <3>2. Len(order) - j + 1 \in DOMAIN order
        <4>1. \A n, m \in Nat : m <= n => \A k \in 1 .. m : n - k + 1 \in 1 .. n
          OBVIOUS
        <4>2. Len(order) - j + 1 \in 1 .. Len(order)
          BY <1>1, <1>2, <4>1
        <4> QED BY <1>1, <4>2, Zenon
      <3>3. i = Len(order) - j + 1
        BY <1>1, <1>2, <1>3, <3>1, <3>2
      <3> QED BY <1>1, <3>3
    <2>2. ASSUME i > Len(order) - Len(halted) PROVE order[i] \in Range(halted)
      <3>1. Len(order) - i + 1 \in 1 .. Len(halted) /\ Len(order) - (Len(order) - i + 1) + 1 = i
        BY <1>1, <2>2
      <3>2. halted[Len(order) - i + 1] = order[i]
        BY <1>1, <1>2, <3>1
      <3> QED BY <1>1, <3>1, <3>2 DEF Range
    <2> QED BY <2>1, <2>2
  <1>6. (i <= up /\ ~(i > Len(order) - Len(halted))) <=> i <= up - Len(halted)
    <2>1. CASE halted = <<>>
      <3>1. Len(halted) = 0
        BY <2>1
      <3> QED BY <1>1, <1>2, <3>1
    <2>2. CASE halted # <<>>
      BY <1>1, <1>2, <2>2
    <2> QED BY <2>1, <2>2
  <1> QED BY <1>4, <1>5, <1>6 DEF Up

(* At every moment of InitAll and ShutdownAll, also after a failure, what a  *)
(* provider that is up depends on is up, too.                                *)
THEOREM UpClosed == SidecarsSpec => []UpIsClosed
  <1>1. Types /\ OrderedInv => UpIsClosed
    <2> SUFFICES ASSUME Types, OrderedInv, NEW p \in Up, NEW q \in deps[p] PROVE q \in Up
      BY DEF UpIsClosed
    <2>1. up \in Nat /\ up <= Len(order) /\ Len(halted) \in Nat /\ DOMAIN order = 1 .. Len(order)
      BY DEF Types, OrderedInv, HaltedInv
    <2>2. PICK i \in 1 .. up : p = order[i]
      BY DEF Up
    <2>3. i \in DOMAIN order
      BY <2>1
    <2>4. PICK j \in 1 .. i - 1 : order[j] = q
      BY <2>2, <2>3 DEF OrderedInv, OrderInv
    <2>5. j \in DOMAIN order /\ i <= up - Len(halted)
      BY <2>1, <2>2, <2>3, UpIsPrefix
    <2>6. j <= up - Len(halted)
      BY <2>1, <2>5
    <2> QED BY <2>4, <2>5, <2>6, UpIsPrefix
  <1> QED BY <1>1, InitOrdered, NextOrdered, PTL DEF SidecarsSpec

----------------------------------------------------------------------------
(* Sidecars are ready before they are called *)

LEMMA ReadyKept ==
  ASSUME Types, ReadyInv, UNCHANGED <<entry, rpc, up, order, calls, early, crashed>>,
         \A p \in Names : sidecar[p] \in {"ready", "stopped"} => sidecar'[p] \in {"ready", "stopped"},
         accepting' # {} => up = Len(order) /\ phase' \notin {"register", "resolve", "init"}
  PROVE  ReadyInv'
  <1> USE DEF ReadyInv
  <1>1. (\A p \in Names : rpc[p] > 0 =>
          /\ \E i \in DOMAIN order : i <= up + 1 /\ order[i] = p
          /\ sidecar[p] \in {"ready", "stopped"} \/ p \in crashed)'
    OBVIOUS
  <1>2. (\A i \in 1 .. up : External(order[i]) => rpc[order[i]] > 0)'
    BY DEF External
  <1>3. (\A p \in Names, kind \in {"http", "hook"} : <<p, kind>> \in calls => rpc[p] > 0)'
    OBVIOUS
  <1> QED BY <1>1, <1>2, <1>3

(* The search may add to the order. *)
LEMMA ReadyGrows ==
  ASSUME Types, ReadyInv, NEW x \in Names, order' = Append(order, x), up = 0, accepting' = {},
         UNCHANGED <<entry, rpc, up, calls, early, crashed, sidecar>>
  PROVE  ReadyInv'
  <1>1. /\ DOMAIN order' = 1 .. Len(order) + 1 /\ DOMAIN order = 1 .. Len(order)
        /\ Len(order) \in Nat /\ \A i \in 1 .. Len(order) : order'[i] = order[i]
    BY AppendFacts DEF Types
  <1>2. 1 .. Len(order) \subseteq 1 .. Len(order) + 1
    BY <1>1
  <1>3. (\A p \in Names : rpc[p] > 0 =>
          /\ \E i \in DOMAIN order : i <= up + 1 /\ order[i] = p
          /\ sidecar[p] \in {"ready", "stopped"} \/ p \in crashed)'
    <2> SUFFICES ASSUME NEW p \in Names, rpc[p] > 0
                 PROVE  /\ \E i \in DOMAIN order' : i <= up + 1 /\ order'[i] = p
                        /\ sidecar[p] \in {"ready", "stopped"} \/ p \in crashed
      OBVIOUS
    <2>1. PICK i \in DOMAIN order : i <= up + 1 /\ order[i] = p
      BY DEF ReadyInv
    <2>2. i \in DOMAIN order' /\ order'[i] = p
      BY <1>1, <1>2, <2>1
    <2> QED BY <2>1, <2>2 DEF ReadyInv
  <1>4. 1 .. up' = {}
    OBVIOUS
  <1> QED BY <1>3, <1>4 DEF ReadyInv

LEMMA UpReady ==
  ASSUME Types, ReadyInv, MoreToInit, phase = "init", ~External(NextUp), up' = up + 1,
         UNCHANGED <<entry, rpc, order, calls, early, crashed, sidecar, accepting>>
  PROVE  ReadyInv'
  <1>1. 1 .. up + 1 = 1 .. up \cup {up + 1} /\ up \in Nat
    BY DEF Types
  <1>2. (\A i \in 1 .. up : External(order[i]) => rpc[order[i]] > 0)'
    BY <1>1, NextUpIsNext DEF ReadyInv, External
  <1>3. \A i \in DOMAIN order : i <= up + 1 => i <= up + 1 + 1
    BY <1>1 DEF Types
  <1> QED BY <1>2, <1>3 DEF ReadyInv

(* One of the three calls of an external provider's Init. *)
LEMMA InitReady ==
  ASSUME Types, ReadyInv, MoreToInit, phase = "init",
         rpc' = [rpc EXCEPT ![NextUp] = @ + 1],
         sidecar' = IF rpc[NextUp] = 0 THEN [sidecar EXCEPT ![NextUp] = "ready"] ELSE sidecar,
         up' \in {up, up + 1},
         UNCHANGED <<entry, order, calls, early, crashed, accepting>>
  PROVE  ReadyInv'
  <1>0. up \in Nat /\ (up' = up \/ up' = up + 1)
    BY DEF Types
  <1>1. 1 .. up + 1 = 1 .. up \cup {up + 1} /\ up \in Nat
    <2>1. \A n \in Nat : 1 .. n + 1 = 1 .. n \cup {n + 1}
      OBVIOUS
    <2> QED BY <1>0, <2>1
  <1>2. up + 1 \in DOMAIN order /\ NextUp = order[up + 1] /\ NextUp \in Names
    BY NextUpIsNext
  <1>3. /\ \A p \in Names : rpc[p] > 0 => rpc'[p] > 0
        /\ rpc'[NextUp] > 0
        /\ \A p \in Names : p # NextUp => rpc'[p] = rpc[p] /\ sidecar'[p] = sidecar[p]
    BY <1>2 DEF Types
  <1>4. sidecar'[NextUp] \in {"ready", "stopped"} \/ NextUp \in crashed
    <2>1. CASE rpc[NextUp] = 0
      BY <1>2, <2>1 DEF Types
    <2>2. CASE rpc[NextUp] # 0
      <3>1. rpc[NextUp] > 0
        BY <1>2, <2>2 DEF Types
      <3> QED BY <1>2, <2>2, <3>1 DEF ReadyInv
    <2> QED BY <2>1, <2>2
  <1>5. up + 1 <= up' + 1 /\ \A i \in DOMAIN order : i <= up + 1 => i <= up' + 1
    <2>1. /\ \A n \in Nat : n + 1 <= n + 1 /\ n + 1 <= n + 1 + 1
          /\ \A n, k \in Nat : k <= n + 1 => k <= n + 1 + 1
      OBVIOUS
    <2>2. DOMAIN order \subseteq Nat
      BY DEF Types
    <2>3. CASE up' = up
      BY <1>0, <2>1, <2>3
    <2>4. CASE up' = up + 1
      BY <1>0, <2>1, <2>2, <2>4
    <2> QED BY <1>0, <2>3, <2>4
  <1>6. (\A p \in Names : rpc[p] > 0 =>
          /\ \E i \in DOMAIN order : i <= up + 1 /\ order[i] = p
          /\ sidecar[p] \in {"ready", "stopped"} \/ p \in crashed)'
    <2> SUFFICES ASSUME NEW p \in Names, rpc'[p] > 0
                 PROVE  /\ \E i \in DOMAIN order : i <= up' + 1 /\ order[i] = p
                        /\ sidecar'[p] \in {"ready", "stopped"} \/ p \in crashed
      OBVIOUS
    <2>1. CASE p = NextUp
      BY <1>2, <1>4, <1>5, <2>1
    <2>2. CASE p # NextUp
      BY <1>3, <1>5, <2>2 DEF ReadyInv
    <2> QED BY <2>1, <2>2
  <1>7. (\A i \in 1 .. up : External(order[i]) => rpc[order[i]] > 0)'
    <2> SUFFICES ASSUME NEW i \in 1 .. up + 1, External(order[i]) PROVE rpc'[order[i]] > 0
      <3>1. 1 .. up' \subseteq 1 .. up + 1
        BY <1>1
      <3> QED BY <3>1 DEF External
    <2>1. CASE i = up + 1
      BY <1>2, <1>3, <2>1
    <2>2. CASE i \in 1 .. up
      <3>1. up + 1 <= Len(order)
        BY <1>1, <1>2 DEF Types
      <3>2. i \in DOMAIN order
        BY <1>1, <2>2, <3>1 DEF Types
      <3>3. order[i] \in Names
        BY <3>2 DEF Types
      <3> QED BY <1>3, <2>2, <3>3 DEF ReadyInv
    <2> QED BY <1>1, <2>1, <2>2
  <1>8. accepting' = {}
    BY DEF ReadyInv
  <1>9. (\A p \in Names, kind \in {"http", "hook"} : <<p, kind>> \in calls => rpc[p] > 0)'
    BY <1>3 DEF ReadyInv
  <1> QED BY <1>6, <1>7, <1>8, <1>9 DEF ReadyInv

LEMMA AsideReady ==
  ASSUME Types, ReadyInv, NEW p \in Names, Aside(p)
  PROVE  ReadyInv'
  <1> DEFINE Known(q) == sidecar[q] \in {"ready", "stopped"} \/ q \in crashed
  <1>1. UNCHANGED <<entry, rpc, up, order, accepting, phase>>
    BY DEF Aside, Send, Served, CrashSidecar, StartSidecar, vars, searchVars
  <1>2. SUFFICES /\ \A q \in Names : rpc[q] > 0 => Known(q)'
                 /\ \A q \in Names, kind \in {"http", "hook"} : <<q, kind>> \in calls' => rpc[q] > 0
                 /\ early' \subseteq crashed'
    <2>1. (\A i \in 1 .. up : External(order[i]) => rpc[order[i]] > 0)'
      BY <1>1 DEF ReadyInv, External
    <2>2. (accepting # {} => up = Len(order) /\ phase \notin {"register", "resolve", "init"})'
      BY <1>1 DEF ReadyInv
    <2>3. \A q \in Names : rpc[q] > 0 => \E i \in DOMAIN order : i <= up + 1 /\ order[i] = q
      BY DEF ReadyInv
    <2> QED BY <1>1, <1>2, <2>1, <2>2, <2>3 DEF ReadyInv
  <1>3. \A q \in Names : rpc[q] > 0 => Known(q)
    BY DEF ReadyInv
  <1>4. /\ \A q \in Names, kind \in {"http", "hook"} : <<q, kind>> \in calls => rpc[q] > 0
        /\ early \subseteq crashed
    BY DEF ReadyInv
  <1>5. ASSUME NEW kind \in {"http", "hook"}, Send(p, kind)
        PROVE  /\ \A q \in Names : rpc[q] > 0 => Known(q)'
               /\ \A q \in Names, k \in {"http", "hook"} : <<q, k>> \in calls' => rpc[q] > 0
               /\ early' \subseteq crashed'
    <2>1. rpc[p] > 0
      <3>1. PICK i \in DOMAIN order : order[i] = p
        BY <1>5 DEF Send, Range
      <3>2. i \in 1 .. up /\ External(order[i])
        <4>1. up = Len(order) /\ External(p)
          BY <1>5 DEF Send, ReadyInv
        <4> QED BY <3>1, <4>1 DEF Types
      <3> QED BY <3>1, <3>2 DEF ReadyInv
    <2> QED BY <1>3, <1>4, <1>5, <2>1 DEF Send
  <1>6. ASSUME NEW kind \in {"http", "hook"}, Served(p, kind)
        PROVE  /\ \A q \in Names : rpc[q] > 0 => Known(q)'
               /\ \A q \in Names, k \in {"http", "hook"} : <<q, k>> \in calls' => rpc[q] > 0
               /\ early' \subseteq crashed'
    <2>1. sidecar[p] = "new" => p \in crashed
      BY <1>3, <1>4, <1>6 DEF Served
    <2>2. early' \subseteq crashed'
      BY <1>4, <1>6, <2>1 DEF Served
    <2> QED BY <1>3, <1>4, <1>6, <2>2 DEF Served
  <1>7. ASSUME CrashSidecar(p)
        PROVE  /\ \A q \in Names : rpc[q] > 0 => Known(q)'
               /\ \A q \in Names, k \in {"http", "hook"} : <<q, k>> \in calls' => rpc[q] > 0
               /\ early' \subseteq crashed'
    <2>1. /\ sidecar' = [sidecar EXCEPT ![p] = "dead"] /\ calls' \subseteq calls /\ early' = early
          /\ crashed' = IF sidecar[p] = "new" THEN crashed ELSE crashed \cup {p}
      BY <1>7 DEF CrashSidecar
    <2>2. ASSUME NEW q \in Names, rpc[q] > 0 PROVE Known(q)'
      <3>1. CASE q = p
        BY <1>3, <2>1, <2>2, <3>1
      <3>2. CASE q # p
        BY <1>3, <2>1, <2>2, <3>2 DEF Types
      <3> QED BY <3>1, <3>2
    <2> QED BY <1>4, <2>1, <2>2
  <1>8. ASSUME StartSidecar(p)
        PROVE  /\ \A q \in Names : rpc[q] > 0 => Known(q)'
               /\ \A q \in Names, k \in {"http", "hook"} : <<q, k>> \in calls' => rpc[q] > 0
               /\ early' \subseteq crashed'
    <2>1. /\ sidecar' = [sidecar EXCEPT ![p] = "new"] /\ sidecar[p] = "dead"
          /\ UNCHANGED <<calls, early, crashed>>
      BY <1>8 DEF StartSidecar, Alive
    <2>2. ASSUME NEW q \in Names, rpc[q] > 0 PROVE Known(q)'
      <3>1. CASE q = p
        BY <1>3, <2>1, <2>2, <3>1
      <3>2. CASE q # p
        BY <1>3, <2>1, <2>2, <3>2 DEF Types
      <3> QED BY <3>1, <3>2
    <2> QED BY <1>4, <2>1, <2>2
  <1> QED BY <1>5, <1>6, <1>7, <1>8 DEF Aside

LEMMA NextReady ==
  ASSUME Types, OrderedInv, ReadyInv, [SidecarsNext]_allVars
  PROVE  ReadyInv'
  <1> USE DEF configVars, registerVars
  <1>1. /\ phase \in {"register", "resolve", "init"} => accepting = {}
        /\ accepting # {} => up = Len(order)
    BY DEF ReadyInv
  <1>2. ASSUME NEW p \in Names, RegisterBuiltin(p) \/ RegisterExternalProviders(p) \/ Connect(p)
        PROVE  ReadyInv'
    <2>1. /\ phase = "register"
          /\ UNCHANGED <<entry, rpc, up, order, calls, early, crashed, sidecar, accepting>>
      BY <1>2 DEF RegisterBuiltin, RegisterExternalProviders, Connect, Register, sidecarVars, searchVars
    <2> QED BY <1>1, <2>1, ReadyKept
  <1>3. ASSUME NEW p \in Names, Aside(p) PROVE ReadyInv'
    BY <1>3, AsideReady
  <1>4. CASE /\ Resolve \/ Resolved \/ Serve \/ Signal \/ Drained \/ Exit \/ ServeFails
             /\ UNCHANGED sidecarVars
    <2>1. UNCHANGED <<entry, rpc, up, order, calls, early, crashed, sidecar>>
      BY <1>4 DEF Resolve, Resolved, Serve, Signal, Drained, Exit, ServeFails, sidecarVars, searchVars
    <2>2. accepting' # {} => up = Len(order) /\ phase' \notin {"register", "resolve", "init"}
      <3>1. CASE Serve
        <4>1. up = Len(order)
          BY <3>1 DEF Serve, MoreToInit, OrderedInv, HaltedInv, Types
        <4> QED BY <3>1, <4>1 DEF Serve
      <3>2. CASE Resolve \/ Resolved
        BY <1>1, <3>2 DEF Resolve, Resolved
      <3>3. CASE Signal \/ Drained \/ Exit \/ ServeFails
        BY <1>1, <3>3 DEF Signal, Drained, Exit, ServeFails, Fatal
      <3> QED BY <1>4, <3>1, <3>2, <3>3
    <2> QED BY <2>1, <2>2, ReadyKept
  <1>5. ASSUME NEW q \in Names, VisitRoot(q) \/ VisitDependency(q), UNCHANGED sidecarVars
        PROVE  ReadyInv'
    <2>1. /\ phase = "resolve"
          /\ UNCHANGED <<entry, rpc, up, order, calls, early, crashed, sidecar, accepting>>
      BY <1>5 DEF VisitRoot, VisitDependency, Enter, sidecarVars, searchVars
    <2> QED BY <1>1, <2>1, ReadyKept
  <1>6. CASE VisitReturns /\ UNCHANGED sidecarVars
    <2>1. /\ phase = "resolve" /\ stack # <<>> /\ order' = Append(order, Innermost(stack))
          /\ UNCHANGED <<entry, rpc, up, calls, early, crashed, sidecar, accepting>>
      BY <1>6 DEF VisitReturns, sidecarVars
    <2>2. up = 0 /\ accepting' = {}
      BY <1>1, <2>1 DEF OrderedInv, PhaseInv
    <2>3. Innermost(stack) \in Names
      BY <2>1, OuterFacts DEF Types
    <2> QED BY <2>1, <2>2, <2>3, ReadyGrows
  <1>7. CASE InitBuiltin
    <2>1. /\ phase = "init" /\ MoreToInit /\ ~External(NextUp)
          /\ up' = up + 1 \/ UNCHANGED up
          /\ UNCHANGED <<entry, rpc, order, calls, early, crashed, sidecar, accepting>>
      BY <1>7 DEF InitBuiltin, InitNext, sidecarVars, searchVars
    <2> QED BY <1>1, <2>1, UpReady, ReadyKept
  <1>8. CASE InitExternal
    <2>1. /\ phase = "init" /\ MoreToInit
          /\ UNCHANGED <<entry, order, calls, early, crashed, accepting>>
      BY <1>8 DEF InitExternal, searchVars
    <2>2. \/ UNCHANGED <<up, rpc, sidecar>>
          \/ /\ rpc' = [rpc EXCEPT ![NextUp] = @ + 1]
             /\ sidecar' = IF rpc[NextUp] = 0 THEN [sidecar EXCEPT ![NextUp] = "ready"] ELSE sidecar
             /\ up' \in {up, up + 1}
      BY <1>8 DEF InitExternal, InitFailed
    <2>3. CASE UNCHANGED <<up, rpc, sidecar>>
      BY <1>1, <2>1, <2>3, ReadyKept
    <2> QED BY <2>1, <2>2, <2>3, InitReady
  <1>9. CASE ShutdownBuiltin \/ ShutdownExternal \/ CloseExternal
    <2>1. /\ phase = "shutdown" /\ phase' \in {"shutdown", "close"}
          /\ UNCHANGED <<entry, rpc, up, order, calls, early, crashed, accepting>>
      BY <1>9 DEF ShutdownBuiltin, ShutdownNext, ShutdownExternal, ShutdownFailed,
                  CloseExternal, searchVars
    <2>2. \A p \in Names : sidecar[p] \in {"ready", "stopped"} => sidecar'[p] \in {"ready", "stopped"}
      <3>1. UNCHANGED sidecar \/ sidecar' = [sidecar EXCEPT ![NextDown] = "stopped"]
        BY <1>9 DEF ShutdownBuiltin, ShutdownExternal, CloseExternal
      <3> QED BY <3>1 DEF Types
    <2> QED BY <1>1, <2>1, <2>2, ReadyKept
  <1>10. CASE UNCHANGED allVars
    <2>1. UNCHANGED <<entry, rpc, up, order, calls, early, crashed, sidecar, accepting, phase>>
      BY <1>10 DEF allVars, vars, sidecarVars, searchVars
    <2> QED BY <1>1, <2>1, ReadyKept DEF ReadyInv
  <1>11. ASSUME NEW p \in Names, proxyHandler(p) \/ makeAsyncHookHandler(p) \/ CrashSidecar(p)
                \/ StartSidecar(p) \/ \E kind \in {"http", "hook"} : Served(p, kind)
         PROVE  ReadyInv'
    BY <1>3, <1>11 DEF Aside, proxyHandler, makeAsyncHookHandler
  <1> QED BY <1>2, <1>4, <1>5, <1>6, <1>7, <1>8, <1>9, <1>10, <1>11
          DEF SidecarsNext, SidecarStep, Search

----------------------------------------------------------------------------
(* Sidecars are told to end, and connections closed *)

LEMMA ClosedKept ==
  ASSUME Types, ClosedInv, UNCHANGED <<entry, conn, told, failed, halted, listed, providers>>,
         phase' = "close" => UNCHANGED <<phase, order>>,
         phase \in {"register", "exited"} => phase' \in {"register", "exited"}
  PROVE  ClosedInv'
  <1>1. (\A p \in Names : conn[p] # "none" => External(p) /\ (listed[p] > 0 \/ p \in providers))'
    BY DEF ClosedInv, External
  <1>2. (phase \notin {"register", "exited"} => \A p \in Names : listed[p] = 0)'
    BY DEF ClosedInv
  <1>3. (\A p \in Range(halted) : External(p) => conn[p] = "closed" /\ p \in told)'
    BY DEF ClosedInv, External, Range
  <1>4. (\A p \in told : External(p))'
    BY DEF ClosedInv, External
  <1>5. (phase = "close" /\ ~failed => Len(halted) = Len(order))'
    BY DEF ClosedInv
  <1> QED BY <1>1, <1>2, <1>3, <1>4, <1>5 DEF ClosedInv

LEMMA RegisterClosed ==
  ASSUME Types, ClosedInv, NEW x \in Names, Register(x), UNCHANGED sidecarVars
  PROVE  ClosedInv'
  <1>1. /\ phase = "register" /\ phase' \in {"register", "exited"}
        /\ listed' = [listed EXCEPT ![x] = @ - 1] /\ providers' = providers \cup {x}
        /\ UNCHANGED <<entry, conn, told, halted>>
    BY DEF Register, Fatal, sidecarVars
  <1>2. (\A p \in Names : conn[p] # "none" => External(p) /\ (listed[p] > 0 \/ p \in providers))'
    <2>1. \A p \in Names : p # x => listed'[p] = listed[p]
      BY <1>1 DEF Types
    <2> QED BY <1>1, <2>1 DEF ClosedInv, External
  <1>3. (\A p \in Range(halted) : External(p) => conn[p] = "closed" /\ p \in told)'
    BY <1>1 DEF ClosedInv, External, Range
  <1>4. (\A p \in told : External(p))'
    BY <1>1 DEF ClosedInv, External
  <1> QED BY <1>1, <1>2, <1>3, <1>4 DEF ClosedInv

LEMMA ConnectClosed ==
  ASSUME Types, OrderedInv, ClosedInv, NEW x \in Names, Connect(x)
  PROVE  ClosedInv'
  <1> USE DEF configVars
  <1>1. /\ phase = "register" /\ listed[x] > 0 /\ conn[x] = "none" /\ halted' = <<>>
        /\ UNCHANGED <<entry, told, providers>>
    BY DEF Connect, OrderedInv, PhaseInv
  <1>2. phase' \in {"register", "exited"}
    BY <1>1 DEF Connect, DiscoverExternalProviders, discoverFromDirectory,
                ConnectExternalProvider, Fatal
  <1>3. (\A p \in Names : conn[p] # "none" => External(p) /\ (listed[p] > 0 \/ p \in providers))'
    <2>1. \/ conn' = [conn EXCEPT ![x] = "open"] /\ UNCHANGED listed /\ External(x)
          \/ UNCHANGED conn /\ (UNCHANGED listed \/ listed' = [listed EXCEPT ![x] = 0])
      BY DEF Connect, DiscoverExternalProviders, discoverFromDirectory,
             ConnectExternalProvider, External
    <2>2. \A p \in Names : p # x => conn'[p] = conn[p] /\ listed'[p] = listed[p]
      BY <2>1 DEF Types
    <2>3. conn'[x] # "none" => External(x) /\ listed'[x] > 0
      BY <1>1, <2>1 DEF Types
    <2> QED BY <1>1, <2>2, <2>3 DEF ClosedInv, External
  <1>4. Range(halted') = {}
    BY <1>1 DEF Range
  <1>5. (\A p \in told : External(p))'
    BY <1>1 DEF ClosedInv, External
  <1> QED BY <1>2, <1>3, <1>4, <1>5 DEF ClosedInv

LEMMA NextDownIsNext ==
  ASSUME Types, OrderedInv, phase = "shutdown", Len(halted) < Len(order)
  PROVE  NextDown \in Names /\ NextDown \in providers
  <1>1. \A n, m \in Nat : m < n => n - m \in 1 .. n
    OBVIOUS
  <1>2. Len(order) - Len(halted) \in DOMAIN order
    BY <1>1 DEF Types
  <1>3. NextDown \in Range(order)
    BY <1>2 DEF NextDown, Range
  <1> QED BY <1>3 DEF OrderedInv, MarkInv, Types

LEMMA ShutdownClosed ==
  ASSUME Types, OrderedInv, ClosedInv, ShutdownBuiltin \/ ShutdownExternal \/ CloseExternal
  PROVE  ClosedInv'
  <1> USE DEF configVars, registerVars
  <1>1. /\ phase = "shutdown" /\ phase' \in {"shutdown", "close"}
        /\ UNCHANGED <<deps, entry, listed, providers, searchVars, order, up, err>>
    BY DEF ShutdownBuiltin, ShutdownNext, ShutdownExternal, ShutdownFailed, CloseExternal, searchVars
  <1>2. (phase \notin {"register", "exited"} => \A p \in Names : listed[p] = 0)'
    BY <1>1 DEF ClosedInv
  <1>3. CASE ShutdownBuiltin
    <2>1. /\ UNCHANGED <<conn, told>>
          /\ failed' = (phase' = "close" /\ Len(halted) < Len(order))
          /\ \/ Len(halted) < Len(order) /\ halted' = Append(halted, NextDown) /\ UNCHANGED phase
             \/ phase' = "close" /\ UNCHANGED halted
          /\ Len(halted) < Len(order) => ~External(NextDown)
      BY <1>3 DEF ShutdownBuiltin, ShutdownNext
    <2>2. \A p \in Range(halted') : p \in Range(halted) \/ ~External(p)
      <3>1. CASE Len(halted) < Len(order) /\ halted' = Append(halted, NextDown) /\ UNCHANGED phase
        <4>1. Range(halted') = Range(halted) \cup {NextDown}
          BY <1>1, <3>1, DownKeeps
        <4> QED BY <2>1, <3>1, <4>1
      <3>2. CASE UNCHANGED halted
        BY <3>2 DEF Range
      <3> QED BY <2>1, <3>1, <3>2
    <2>3. (\A p \in Range(halted) : External(p) => conn[p] = "closed" /\ p \in told)'
      BY <1>1, <2>1, <2>2 DEF ClosedInv, External
    <2>4. (phase = "close" /\ ~failed => Len(halted) = Len(order))'
      <3> SUFFICES ASSUME phase' = "close", ~failed' PROVE Len(halted') = Len(order')
        OBVIOUS
      <3>1. UNCHANGED halted /\ ~(Len(halted) < Len(order))
        BY <1>1, <2>1
      <3>2. Len(halted) <= Len(order) /\ Len(halted) \in Nat /\ Len(order) \in Nat
        BY DEF OrderedInv, HaltedInv, Types
      <3>3. Len(halted) = Len(order)
        BY <3>1, <3>2
      <3> QED BY <1>1, <3>1, <3>3
    <2>5. (\A p \in Names : conn[p] # "none" => External(p) /\ (listed[p] > 0 \/ p \in providers))'
      BY <1>1, <2>1 DEF ClosedInv, External
    <2>6. (\A p \in told : External(p))'
      BY <1>1, <2>1 DEF ClosedInv, External
    <2> QED BY <1>2, <2>3, <2>4, <2>5, <2>6 DEF ClosedInv
  <1>4. CASE ShutdownExternal
    <2>1. /\ UNCHANGED <<conn, halted, phase>> /\ External(NextDown)
          /\ told' = told \cup {NextDown}
      BY <1>4 DEF ShutdownExternal, ShutdownFailed
    <2>2. (\A p \in Range(halted) : External(p) => conn[p] = "closed" /\ p \in told)'
      BY <1>1, <2>1 DEF ClosedInv, External, Range
    <2>3. (\A p \in Names : conn[p] # "none" => External(p) /\ (listed[p] > 0 \/ p \in providers))'
      BY <1>1, <2>1 DEF ClosedInv, External
    <2>4. (\A p \in told : External(p))'
      BY <1>1, <2>1 DEF ClosedInv, External
    <2> QED BY <1>1, <1>2, <2>1, <2>2, <2>3, <2>4 DEF ClosedInv
  <1>5. CASE CloseExternal
    <2>1. /\ Len(halted) < Len(order) /\ NextDown \in told /\ UNCHANGED <<told, phase>>
          /\ conn' = [conn EXCEPT ![NextDown] = "closed"] /\ halted' = Append(halted, NextDown)
      BY <1>5 DEF CloseExternal
    <2>2. Range(halted') = Range(halted) \cup {NextDown}
      BY <1>1, <2>1, DownKeeps
    <2>3. NextDown \in Names /\ NextDown \in providers
      BY <1>1, <2>1, NextDownIsNext
    <2>4. /\ conn'[NextDown] = "closed"
          /\ \A p \in Names : p # NextDown => conn'[p] = conn[p]
      BY <2>1, <2>3 DEF Types
    <2>5. (\A p \in Range(halted) : External(p) => conn[p] = "closed" /\ p \in told)'
      <3>1. Range(halted) \subseteq Names
        BY DEF Range, Types
      <3> QED BY <1>1, <2>1, <2>2, <2>4, <3>1 DEF ClosedInv, External
    <2>6. (\A p \in Names : conn[p] # "none" => External(p) /\ (listed[p] > 0 \/ p \in providers))'
      BY <1>1, <2>1, <2>3, <2>4 DEF ClosedInv, External
    <2>7. (\A p \in told : External(p))'
      BY <1>1, <2>1 DEF ClosedInv, External
    <2> QED BY <1>1, <1>2, <2>1, <2>5, <2>6, <2>7 DEF ClosedInv
  <1> QED BY <1>3, <1>4, <1>5

LEMMA NextClosed ==
  ASSUME Types, OrderedInv, ClosedInv, [SidecarsNext]_allVars
  PROVE  ClosedInv'
  <1> USE DEF configVars, registerVars
  <1>1. ASSUME NEW p \in Names, RegisterBuiltin(p) \/ RegisterExternalProviders(p)
        PROVE  ClosedInv'
    BY <1>1, RegisterClosed DEF RegisterBuiltin, RegisterExternalProviders
  <1>2. CASE Resolve /\ UNCHANGED sidecarVars
    <2>1. /\ \A p \in Names : listed[p] = 0
          /\ phase' = "resolve"
          /\ UNCHANGED <<entry, conn, told, halted, listed, providers>>
      BY <1>2 DEF Resolve, sidecarVars
    <2>2. (\A p \in Names : conn[p] # "none" => External(p) /\ (listed[p] > 0 \/ p \in providers))'
      BY <2>1 DEF ClosedInv, External
    <2>3. (\A p \in Range(halted) : External(p) => conn[p] = "closed" /\ p \in told)'
      BY <2>1 DEF ClosedInv, External, Range
    <2>4. (\A p \in told : External(p))'
      BY <2>1 DEF ClosedInv, External
    <2> QED BY <2>1, <2>2, <2>3, <2>4 DEF ClosedInv
  <1>3. CASE (Search \/ Serve \/ Signal \/ Drained \/ Exit \/ ServeFails) /\ UNCHANGED sidecarVars
    <2>1. UNCHANGED <<entry, conn, told, failed, halted, listed, providers>>
      BY <1>3 DEF Search, VisitRoot, VisitDependency, VisitReturns, Resolved, Serve, Signal,
                  Drained, Exit, ServeFails, sidecarVars
    <2>2. /\ phase' # "close"
          /\ phase \in {"register", "exited"} => phase' \in {"register", "exited"}
      BY <1>3 DEF Search, VisitRoot, VisitDependency, Enter, VisitReturns, Resolved, Serve, Signal,
                  Drained, Exit, ServeFails, Fatal
    <2> QED BY <2>1, <2>2, ClosedKept
  <1>4. CASE InitBuiltin \/ InitExternal
    <2>1. UNCHANGED <<entry, conn, told, failed, halted, listed, providers>>
      BY <1>4 DEF InitBuiltin, InitNext, InitExternal, sidecarVars
    <2>2. phase = "init" /\ phase' \in {"init", "exited"}
      BY <1>4 DEF InitBuiltin, InitNext, InitExternal, InitFailed, Fatal
    <2> QED BY <2>1, <2>2, ClosedKept
  <1>5. ASSUME NEW p \in Names, proxyHandler(p) \/ makeAsyncHookHandler(p) \/ CrashSidecar(p)
               \/ StartSidecar(p) \/ \E kind \in {"http", "hook"} : Served(p, kind)
        PROVE  ClosedInv'
    <2>1. UNCHANGED <<entry, conn, told, failed, halted, listed, providers, phase, order>>
      BY <1>5 DEF proxyHandler, makeAsyncHookHandler, Send, CrashSidecar, StartSidecar, Served,
                  vars, searchVars
    <2> QED BY <2>1, ClosedKept
  <1>6. CASE UNCHANGED allVars
    <2>1. UNCHANGED <<entry, conn, told, failed, halted, listed, providers, phase, order>>
      BY <1>6 DEF allVars, vars, sidecarVars, searchVars
    <2> QED BY <2>1, ClosedKept
  <1> QED BY <1>1, <1>2, <1>3, <1>4, <1>5, <1>6, ConnectClosed, ShutdownClosed
          DEF SidecarsNext, SidecarStep

LEMMA InitLife == SidecarsInit => LifeInv
  <1> SUFFICES ASSUME SidecarsInit PROVE LifeInv
    OBVIOUS
  <1>1. Types /\ OrderedInv
    BY InitOrdered
  <1>2. ReadyInv
    BY DEF SidecarsInit, Init, ReadyInv
  <1>3. ClosedInv
    BY DEF SidecarsInit, Init, ClosedInv, Range
  <1> QED BY <1>1, <1>2, <1>3 DEF LifeInv

LEMMA LifeInductive == SidecarsSpec => []LifeInv
  <1>1. LifeInv /\ [SidecarsNext]_allVars => LifeInv'
    BY NextOrdered, NextReady, NextClosed DEF LifeInv
  <1> QED BY <1>1, InitLife, PTL DEF SidecarsSpec

(* ExternalProvider.Init reaches a sidecar only after all it depends on is   *)
(* up, and no request or reaction reaches one that was not initialized,      *)
(* except after a crash of it.                                               *)
THEOREM ReadyFirst == SidecarsSpec => []SidecarsAreReady
  <1>1. LifeInv => SidecarsAreReady
    <2> SUFFICES ASSUME LifeInv,
                        NEW p \in Names, rpc[p] > 0, phase \in {"init", "serve", "drain"},
                        NEW q \in deps[p]
                 PROVE  q \in Up
      BY DEF LifeInv, ReadyInv, SidecarsAreReady
    <2>1. Types /\ OrderedInv /\ DOMAIN order = 1 .. Len(order) /\ up \in Nat /\ Len(order) \in Nat
      BY DEF LifeInv, Types
    <2>2. PICK i \in DOMAIN order : i <= up + 1 /\ order[i] = p
      BY DEF LifeInv, ReadyInv
    <2>3. PICK j \in 1 .. i - 1 : order[j] = q
      BY <2>1, <2>2 DEF OrderedInv, OrderInv
    <2>4. Len(halted) = 0
      <3>1. halted = <<>>
        BY <2>1 DEF OrderedInv, PhaseInv
      <3> QED BY <3>1
    <2>5. j \in DOMAIN order /\ j <= up - Len(halted)
      BY <2>1, <2>2, <2>4
    <2> QED BY <2>1, <2>3, <2>5, UpIsPrefix
  <1> QED BY <1>1, LifeInductive, PTL

(* When ShutdownAll comes to its end, every external provider was told to    *)
(* shut down and none is connected any more, whichever sidecars are dead.    *)
THEOREM ClosedLast == SidecarsSpec => []SidecarsAreClosed
  <1>1. LifeInv => SidecarsAreClosed
    <2> SUFFICES ASSUME LifeInv, phase = "close", ~failed, NEW p \in Names
                 PROVE  conn[p] # "open" /\ (External(p) /\ p \in providers => p \in told)
      BY DEF SidecarsAreClosed
    <2>1. /\ Len(order) \in Nat /\ DOMAIN order = 1 .. Len(order) /\ DOMAIN halted = 1 .. Len(halted)
          /\ Len(halted) = Len(order) /\ providers = Range(order)
      <3>1. Len(halted) = Len(order) /\ providers = Range(order)
        BY DEF LifeInv, ClosedInv, OrderedInv, PhaseInv
      <3> QED BY <3>1 DEF LifeInv, Types
    <2>2. ASSUME p \in providers PROVE p \in Range(halted)
      <3>1. PICK i \in 1 .. Len(order) : order[i] = p
        BY <2>1, <2>2 DEF Range
      <3>2. \A n \in Nat : \A k \in 1 .. n : n - k + 1 \in 1 .. n /\ n - (n - k + 1) + 1 = k
        OBVIOUS
      <3>3. Len(order) - i + 1 \in DOMAIN halted /\ Len(order) - (Len(order) - i + 1) + 1 = i
        BY <2>1, <3>1, <3>2
      <3>4. halted[Len(order) - i + 1] = p
        BY <3>1, <3>3 DEF LifeInv, OrderedInv, HaltedInv
      <3> QED BY <3>3, <3>4 DEF Range
    <2>3. p \in providers /\ External(p) => conn[p] = "closed" /\ p \in told
      BY <2>2 DEF LifeInv, ClosedInv
    <2>4. conn[p] # "none" => External(p) /\ p \in providers
      BY DEF LifeInv, ClosedInv, Types
    <2> QED BY <2>3, <2>4
  <1> QED BY <1>1, LifeInductive, PTL

=============================================================================
