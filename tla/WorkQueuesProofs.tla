-------------------------- MODULE WorkQueuesProofs --------------------------
(***************************************************************************)
(* A proof that the queue in memory and the queue on Valkey implement      *)
(* TaskQueue, for any tasks, workers and processes and any number of       *)
(* faults.  IInv says where a task can be that a worker has or has had.    *)
(***************************************************************************)
EXTENDS WorkQueues, WellFoundedInduction, TLAPS

Types ==
  /\ backend \in {"memory", "valkey"} /\ added \subseteq Tasks
  /\ tasks \in Seq(Tasks)
  /\ status \in [Tasks -> {"none", "pending", "running", "completed", "failed"}]
  /\ stream \in [Kinds -> Seq(Tasks)] /\ pel \subseteq Tasks /\ stored \subseteq Tasks
  /\ claimed \in [Procs -> [Ids -> Tasks \cup {NoTask}]]
  /\ pc \in [Workers -> {"idle", "busy", "scan", "got", "ack", "del", "dropAck", "dropDel"}]
  /\ at \in [Workers -> Nat \ {0}] /\ job \in [Workers -> Tasks \cup {NoTask}]

(* In memory, a worker's task is among q.tasks, and no longer pending. *)
MemInv ==
  /\ \A t \in Tasks : t \in added <=> status[t] # "none"
  /\ \A i \in DOMAIN tasks : tasks[i] \in added
  /\ \A w \in Workers :
       /\ pc[w] \in {"idle", "busy"}
       /\ pc[w] = "busy" => job[w] \in Range(tasks) /\ status[job[w]] # "pending"

(* On Valkey, each message is once in the stream of its kind until it is     *)
(* delivered; what a worker has, or its process has noted, was delivered.    *)
ValkeyInv ==
  /\ pel \subseteq added
  /\ \A k \in Kinds : \A i \in DOMAIN stream[k] :
       /\ KindOf[stream[k][i]] = k
       /\ stream[k][i] \in (added \cap stored) \ pel
       /\ \A j \in DOMAIN stream[k] : stream[k][j] = stream[k][i] => j = i
  /\ \A w \in Workers : pc[w] \notin {"idle", "scan"} => job[w] \in added \ Unread
  /\ \A p \in Procs, id \in Ids : claimed[p][id] # NoTask => claimed[p][id] \in added \ Unread

IInv ==
  /\ Types
  /\ backend = "memory" => MemInv
  /\ backend = "valkey" => ValkeyInv

(* A set of positions that is not empty has a first. *)
LEMMA MinIn ==
  ASSUME NEW S, S \subseteq Nat, S # {}
  PROVE  Min(S) \in S
  <1> DEFINE R == {p \in Nat \X Nat : p[1] < p[2]}
  <1>1. IsWellFoundedOn(R, Nat)
    BY NatLessThanWellFounded DEF OpToRel
  <1>2. PICK x \in S : \A y \in S : ~(<<y, x>> \in R)
    <2> HIDE DEF R
    <2> QED BY <1>1, WFMin, Zenon
  <1>3. ASSUME NEW y \in S PROVE x <= y
    <2>1. x \in Nat /\ y \in Nat /\ <<y, x>> \in Nat \X Nat
      OBVIOUS
    <2>2. ~(y < x)
      BY <1>2, <2>1
    <2> QED BY <2>1, <2>2
  <1> QED BY <1>3, Zenon DEF Min

(* What the abstract queue may do while the queue takes a step. *)
AbstractStep == Abstract!Next \/ UNCHANGED Abstract!vars

(* A step of the queue in which no task but t changes its state, and t in    *)
(* one of the ways of the interface, is a step of the abstract queue.        *)
LEMMA Moves ==
  ASSUME NEW t \in Tasks,
         \A u \in Tasks : u # t => StateOf(u)' = StateOf(u),
         \/ StateOf(t) = "new" /\ StateOf(t)' = "queued" /\ handed' = handed
         \/ /\ StateOf(t) = "queued" /\ StateOf(t)' = "held"
            /\ \E w \in Workers : handed' = handed \cup {<<t, w>>}
         \/ StateOf(t) = "held" /\ StateOf(t)' = "settled" /\ handed' = handed
         \/ /\ StateOf(t) = "queued" /\ StateOf(t)' = "settled" /\ handed' = handed
            /\ SameId(t) # {t}
         \/ StateOf(t)' = StateOf(t) /\ handed' = handed
  PROVE  AbstractStep
  <1>1. State[t] = StateOf(t) /\ State' = [State EXCEPT ![t] = StateOf(t)']
    BY Zenon DEF State
  <1>2. CASE StateOf(t) = "new" /\ StateOf(t)' = "queued" /\ handed' = handed
    BY <1>1, <1>2, Zenon DEF AbstractStep, Abstract!Next, Abstract!Enqueue
  <1>3. CASE /\ StateOf(t) = "queued" /\ StateOf(t)' = "held"
             /\ \E w \in Workers : handed' = handed \cup {<<t, w>>}
    BY <1>1, <1>3, Zenon DEF AbstractStep, Abstract!Next, Abstract!Claim
  <1>4. CASE StateOf(t) = "held" /\ StateOf(t)' = "settled" /\ handed' = handed
    BY <1>1, <1>4, Zenon DEF AbstractStep, Abstract!Next, Abstract!Settle
  <1>5. CASE /\ StateOf(t) = "queued" /\ StateOf(t)' = "settled" /\ handed' = handed
             /\ SameId(t) # {t}
    BY <1>1, <1>5, Zenon DEF AbstractStep, Abstract!Next, Abstract!Discard
  <1>6. CASE StateOf(t)' = StateOf(t) /\ handed' = handed
    <2>1. State' = State
      BY <1>6 DEF State
    <2> QED BY <1>6, <2>1 DEF AbstractStep, Abstract!vars
  <1> QED BY <1>2, <1>3, <1>4, <1>5, <1>6

(* If no task changes its state, neither does the abstract queue. *)
LEMMA Stays ==
  ASSUME \A u \in Tasks : StateOf(u)' = StateOf(u), handed' = handed
  PROVE  AbstractStep
  BY DEF AbstractStep, State, Abstract!vars

(* Appending to a sequence adds one element to it. *)
LEMMA RangeAppend ==
  ASSUME NEW t \in Tasks
  PROVE  \A s \in Seq(Tasks) : Range(Append(s, t)) = Range(s) \cup {t}
  <1> SUFFICES ASSUME NEW s \in Seq(Tasks) PROVE Range(Append(s, t)) = Range(s) \cup {t}
    OBVIOUS
  <1>1. /\ DOMAIN Append(s, t) = 1 .. Len(s) + 1 /\ DOMAIN s = 1 .. Len(s) /\ Len(s) \in Nat
        /\ Append(s, t)[Len(s) + 1] = t /\ \A i \in 1 .. Len(s) : Append(s, t)[i] = s[i]
    OBVIOUS
  <1>2. 1 .. Len(s) + 1 = 1 .. Len(s) \cup {Len(s) + 1}
    BY <1>1
  <1>3. \A x : (\E i \in DOMAIN Append(s, t) : Append(s, t)[i] = x)
                 <=> ((\E i \in DOMAIN s : s[i] = x) \/ x = t)
    BY <1>1, <1>2, Zenon
  <1> QED BY <1>3 DEF Range

(* The tail of a sequence is the sequence without its first element. *)
LEMMA TailShifts ==
  ASSUME NEW s \in Seq(Tasks), s # <<>>
  PROVE  /\ 1 \in DOMAIN s /\ Head(s) = s[1]
         /\ DOMAIN Tail(s) = 1 .. Len(s) - 1
         /\ \A i \in 1 .. Len(s) - 1 :
              i + 1 \in DOMAIN s /\ i + 1 # 1 /\ Tail(s)[i] = s[i + 1]
  OBVIOUS

(* XADD puts a message into its stream ... *)
LEMMA UnreadAppend ==
  ASSUME Types, NEW t \in Tasks, stream' = [stream EXCEPT ![KindOf[t]] = Append(@, t)]
  PROVE  Unread' = Unread \cup {t}
  <1>1. KindOf[t] \in Kinds
    BY DEF Kinds
  <1>2. \A s \in Seq(Tasks) : Range(Append(s, t)) = Range(s) \cup {t}
    BY RangeAppend
  <1>3. /\ Range(stream'[KindOf[t]]) = Range(stream[KindOf[t]]) \cup {t}
        /\ \A k \in Kinds : k # KindOf[t] => stream'[k] = stream[k]
    BY <1>1, <1>2 DEF Types
  <1>4. \A u : u \in Unread' <=> \E k \in Kinds : u \in Range(stream'[k])
    BY DEF Unread
  <1>5. \A u : u \in Unread <=> \E k \in Kinds : u \in Range(stream[k])
    BY DEF Unread
  <1>6. \A u : u \in Unread' <=> (u \in Unread \/ u = t)
    BY <1>1, <1>3, <1>4, <1>5, Zenon
  <1> QED BY <1>6

(* ... and XREADGROUP takes the first out of it, which is in no other place. *)
LEMMA UnreadTail ==
  ASSUME Types, ValkeyInv, NEW k \in Kinds, stream[k] # <<>>,
         stream' = [stream EXCEPT ![k] = Tail(@)]
  PROVE  Head(stream[k]) \in Unread /\ Unread' = Unread \ {Head(stream[k])}
  <1> DEFINE t == Head(stream[k])
             s == stream[k]
  <1>1. s \in Seq(Tasks) /\ s # <<>>
    BY DEF Types
  <1>2. 1 \in DOMAIN s /\ t = s[1] /\ KindOf[t] = k
    BY <1>1 DEF ValkeyInv
  <1>3. Range(Tail(s)) = Range(s) \ {t}
    <2>1. \A i \in DOMAIN s : s[i] = t => i = 1
      BY <1>2 DEF ValkeyInv
    <2> HIDE DEF s, t
    <2>2. DOMAIN Tail(s) = 1 .. Len(s) - 1 /\ \A i \in 1 .. Len(s) - 1 : Tail(s)[i] = s[i + 1]
      BY <1>1
    <2>3. ASSUME NEW x \in Range(Tail(s)) PROVE x \in Range(s) \ {t}
      <3>1. PICK i \in 1 .. Len(s) - 1 : x = s[i + 1]
        BY <2>2 DEF Range
      <3>2. i + 1 \in DOMAIN s /\ i + 1 # 1
        BY <1>1
      <3> QED BY <2>1, <3>1, <3>2 DEF Range
    <2>4. ASSUME NEW x \in Range(s) \ {t} PROVE x \in Range(Tail(s))
      <3>1. PICK i \in DOMAIN s : x = s[i] /\ i # 1
        BY <1>2 DEF Range
      <3>2. i - 1 \in 1 .. Len(s) - 1 /\ (i - 1) + 1 = i
        BY <1>1, <3>1
      <3>3. Tail(s)[i - 1] = x
        BY <2>2, <3>1, <3>2
      <3> QED BY <2>2, <3>2, <3>3 DEF Range
    <2> QED BY <2>3, <2>4
  <1>4. \A l \in Kinds : l # k => t \notin Range(stream[l])
    BY <1>2 DEF ValkeyInv, Range
  <1>5. \A l \in Kinds : stream'[l] = IF l = k THEN Tail(s) ELSE stream[l]
    BY DEF Types
  <1>6. t \in Range(s)
    BY <1>2 DEF Range
  <1> QED BY <1>3, <1>4, <1>5, <1>6 DEF Unread

----------------------------------------------------------------------------
(* The queue in memory *)

(* Enqueue appends a task that is new. *)
LEMMA MemEnqueueStep ==
  ASSUME IInv, NEW t \in Tasks, MemEnqueue(t)
  PROVE  IInv' /\ AbstractStep
  <1> USE DEF IInv, MemEnqueue, Add, valkeyVars, workerVars
  <1>1. tasks' = Append(tasks, t) /\ Range(Append(tasks, t)) = Range(tasks) \cup {t}
    BY RangeAppend DEF Types
  <1>2. Types'
    BY DEF Types
  <1>3. MemInv'
    <2>1. \A i \in DOMAIN tasks' : tasks'[i] \in added'
      BY DEF Types, MemInv
    <2>2. \A w \in Workers : pc[w] = "busy" => job[w] \in Range(tasks) /\ job[w] # t
      BY DEF Types, MemInv, Range
    <2> QED BY <1>1, <2>1, <2>2 DEF Types, MemInv
  <1>4. AbstractStep
    <2>1. StateOf(t) = "new" /\ StateOf(t)' = "queued"
      BY DEF Types, StateOf, Waiting
    <2>2. \A u \in Tasks : u # t => StateOf(u)' = StateOf(u)
      BY DEF Types, StateOf, Waiting, Held
    <2> QED BY <2>1, <2>2, Moves
  <1> QED BY <1>2, <1>3, <1>4

(* Claim hands out a pending task, which is running then. *)
LEMMA MemClaimStep ==
  ASSUME IInv, NEW w \in Workers, MemClaim(w)
  PROVE  IInv' /\ AbstractStep
  <1> USE DEF IInv, valkeyVars
  <1>1. Min(Claimable(w)) \in Claimable(w)
    <2>1. DOMAIN tasks \subseteq Nat
      BY DEF Types
    <2>2. Claimable(w) \subseteq Nat /\ Claimable(w) # {}
      BY <2>1 DEF Claimable, MemClaim
    <2> QED BY <2>2, MinIn
  <1>2. PICK t \in Tasks : /\ t = tasks[Min(Claimable(w))] /\ t \in Range(tasks)
                           /\ status[t] = "pending" /\ t \in added
    BY <1>1, Zenon DEF Claimable, Types, MemInv, MemClaim, Range
  <1>3. /\ status' = [status EXCEPT ![t] = "running"]
        /\ job' = [job EXCEPT ![w] = t] /\ handed' = handed \cup {<<t, w>>}
        /\ pc' = [pc EXCEPT ![w] = "busy"] /\ backend = "memory"
        /\ UNCHANGED <<backend, added, tasks, stream, pel, stored, claimed, at>>
    BY <1>2 DEF MemClaim
  <1>4. Types'
    BY <1>2, <1>3 DEF Types
  <1>5. MemInv'
    BY <1>2, <1>3 DEF Types, MemInv, Range
  <1>6. AbstractStep
    <2>1. StateOf(t) = "queued" /\ StateOf(t)' = "held"
      BY <1>2, <1>3 DEF Types, StateOf, Waiting, Held
    <2>2. \A u \in Tasks : u # t => StateOf(u)' = StateOf(u)
      BY <1>2, <1>3 DEF Types, StateOf, Waiting, Held
    <2> QED BY <1>2, <1>3, <2>1, <2>2, Moves
  <1> QED BY <1>3, <1>4, <1>5, <1>6

(* Complete and Fail settle the first task with the ID, which is the one     *)
(* that was claimed or shares its ID with it.                                *)
LEMMA MemSettleStep ==
  ASSUME IInv, NEW w \in Workers, MemComplete(w) \/ MemFail(w)
  PROVE  IInv' /\ AbstractStep
  <1> DEFINE S == {i \in DOMAIN tasks : IdOf[tasks[i]] = IdOf[job[w]]}
  <1> USE DEF IInv, valkeyVars
  <1>1. PICK v \in {"completed", "failed"} : MemSettle(w, v)
    BY DEF MemComplete, MemFail
  <1>2. job[w] \in Range(tasks) /\ status[job[w]] # "pending"
    BY <1>1 DEF MemSettle, MemInv
  <1>3. Min(S) \in S
    <2>1. S \subseteq Nat /\ S # {}
      BY <1>2 DEF Types, Range
    <2> QED BY <2>1, MinIn
  <1>4. PICK t \in Tasks : /\ t = WithId(IdOf[job[w]]) /\ t \in added
                           /\ IdOf[t] = IdOf[job[w]]
    BY <1>1, <1>3, Zenon DEF MemSettle, WithId, Types, MemInv
  <1>5. /\ status' = [status EXCEPT ![t] = v]
        /\ pc' = [pc EXCEPT ![w] = "idle"] /\ job' = [job EXCEPT ![w] = NoTask]
        /\ backend = "memory"
        /\ UNCHANGED <<backend, added, tasks, stream, pel, stored, claimed, at, handed>>
    BY <1>1, <1>4 DEF MemSettle
  <1>6. job[w] \in Tasks
    BY <1>2 DEF Types, Range
  <1> HIDE DEF S
  <1>7. Types'
    BY <1>5, <1>4 DEF Types
  <1>8. MemInv'
    BY <1>5, <1>4 DEF Types, MemInv
  <1>9. AbstractStep
    <2>1. StateOf(t)' = "settled" /\ StateOf(t) \in {"queued", "held", "settled"}
      BY <1>5, <1>4 DEF Types, StateOf, Waiting, Held
    <2>2. \A u \in Tasks : u # t => StateOf(u)' = StateOf(u)
      BY <1>5, <1>4 DEF Types, StateOf, Waiting, Held
    <2>3. StateOf(t) = "queued" => SameId(t) # {t}
      <3>1. StateOf(t) = "queued" => status[t] = "pending"
        BY <1>5, <1>4 DEF StateOf, Waiting
      <3> QED BY <1>2, <1>4, <1>6, <3>1 DEF SameId
    <2> QED BY <1>5, <1>4, <2>1, <2>2, <2>3, Moves
  <1> QED BY <1>5, <1>7, <1>8, <1>9

----------------------------------------------------------------------------
(* The queue on Valkey *)

(* Enqueue's XADD appends a message that is new. *)
LEMMA ValkeyEnqueueStep ==
  ASSUME IInv, NEW t \in Tasks, ValkeyEnqueue(t)
  PROVE  IInv' /\ AbstractStep
  <1> USE DEF IInv, ValkeyEnqueue, Add, memVars, workerVars
  <1>1. Unread' = Unread \cup {t}
    BY UnreadAppend, Zenon
  <1>2. KindOf[t] \in Kinds
    BY DEF Kinds
  <1>3. Types'
    BY <1>2 DEF Types
  <1>4. ValkeyInv'
    <2>1. pel' \subseteq added' /\ t \notin pel
      BY DEF ValkeyInv
    <2>2. ASSUME NEW k \in Kinds, NEW i \in DOMAIN stream'[k]
          PROVE  /\ KindOf[stream'[k][i]] = k
                 /\ stream'[k][i] \in (added' \cap stored') \ pel'
                 /\ \A j \in DOMAIN stream'[k] : stream'[k][j] = stream'[k][i] => j = i
      <3>1. CASE k # KindOf[t]
        <4>1. stream'[k] = stream[k]
          BY <3>1 DEF Types
        <4>2. /\ KindOf[stream[k][i]] = k /\ stream[k][i] \in (added \cap stored) \ pel
              /\ \A j \in DOMAIN stream[k] : stream[k][j] = stream[k][i] => j = i
          BY <2>2, <4>1, Zenon DEF ValkeyInv
        <4>3. added \subseteq added' /\ stored \subseteq stored' /\ pel' = pel
          OBVIOUS
        <4> QED BY <4>1, <4>2, <4>3
      <3>2. CASE k = KindOf[t]
        <4>1. stream[k] \in Seq(Tasks) /\ stream'[k] = Append(stream[k], t)
          BY <3>2 DEF Types
        <4>2. \A j \in DOMAIN stream[k] : stream[k][j] # t
          BY DEF ValkeyInv
        <4> QED BY <2>1, <2>2, <3>2, <4>1, <4>2 DEF ValkeyInv
      <3> QED BY <3>1, <3>2
    <2>3. /\ \A w \in Workers : pc[w] \notin {"idle", "scan"} => job[w] \in added' \ Unread'
          /\ \A p \in Procs, id \in Ids :
               claimed[p][id] # NoTask => claimed[p][id] \in added' \ Unread'
      BY <1>1 DEF ValkeyInv
    <2> QED BY <2>1, <2>2, <2>3 DEF ValkeyInv
  <1>5. AbstractStep
    <2>1. StateOf(t) = "new" /\ StateOf(t)' = "queued"
      BY <1>1 DEF StateOf, Waiting
    <2>2. \A u \in Tasks : u # t => StateOf(u)' = StateOf(u)
      BY <1>1 DEF StateOf, Waiting, Held
    <2> QED BY <2>1, <2>2, Moves
  <1> QED BY <1>3, <1>4, <1>5

(* A worker that is in the middle of Claim or of ackAndDel is on Valkey. *)
LEMMA OnValkey ==
  ASSUME IInv, NEW w \in Workers, pc[w] \notin {"idle", "busy"}
  PROVE  backend = "valkey" /\ ValkeyInv /\ Types
  BY DEF IInv, Types, MemInv

(* XREADGROUP delivers a message to one worker; that it is read, or that the *)
(* answer is lost, makes no difference to the queue.                         *)
LEMMA DeliverStep ==
  ASSUME IInv, NEW w \in Workers, NEW t \in Tasks, ReadGroup(w, t) \/ ReadLost(w, t)
  PROVE  IInv' /\ AbstractStep
  <1>1. Deliver(w, t)
    BY DEF ReadGroup, ReadLost
  <1>2. backend = "valkey" /\ ValkeyInv /\ Types
    BY <1>1, OnValkey, Zenon DEF Deliver
  <1>3. PICK k \in Kinds : /\ k = Asks[w][at[w]] /\ stream[k] # <<>> /\ t = Head(stream[k])
                           /\ KindOf[t] = k /\ t \in (added \cap stored) \ pel
    <2>1. Asks[w] \in Seq(Kinds)
      BY WorkQueuesAssumption
    <2>2. Asks[w][at[w]] \in Kinds
      <3>1. at[w] \in Nat \ {0} /\ at[w] <= Len(Asks[w])
        BY <1>1, <1>2, Zenon DEF Deliver, Types
      <3> QED BY <2>1, <3>1
    <2>3. PICK k \in Kinds : k = Asks[w][at[w]] /\ stream[k] # <<>> /\ t = Head(stream[k])
      BY <1>1, <2>2, Zenon DEF Deliver
    <2>4. 1 \in DOMAIN stream[k] /\ t = stream[k][1]
      BY <1>2, <2>3 DEF Types
    <2>5. \A i \in DOMAIN stream[k] :
            KindOf[stream[k][i]] = k /\ stream[k][i] \in (added \cap stored) \ pel
      <3>1. ValkeyInv
        BY <1>2, Zenon
      <3> QED BY <3>1, Zenon DEF ValkeyInv
    <2>6. KindOf[t] = k /\ t \in (added \cap stored) \ pel
      BY <2>4, <2>5, Zenon
    <2> QED BY <2>3, <2>6, Zenon
  <1>4. /\ stream' = [stream EXCEPT ![k] = Tail(@)] /\ pel' = pel \cup {t}
        /\ handed' = handed \cup {<<t, w>>}
        /\ UNCHANGED <<backend, added, tasks, status, stored, claimed>>
    BY <1>1, <1>3, Zenon DEF Deliver, memVars
  <1>5. t \in Unread /\ Unread' = Unread \ {t}
    BY <1>2, <1>3, <1>4, UnreadTail, Zenon
  <1>6. Types'
    <2>1. stream' \in [Kinds -> Seq(Tasks)] /\ pel' \subseteq Tasks
      <3>1. stream \in [Kinds -> Seq(Tasks)] /\ stream[k] \in Seq(Tasks)
        BY <1>2 DEF Types
      <3>2. Tail(stream[k]) \in Seq(Tasks)
        BY <1>3, <3>1, TailShifts
      <3> QED BY <1>2, <1>4, <3>1, <3>2 DEF Types
    <2> at[w] + 1 \in Nat \ {0}
      BY <1>2 DEF Types
    <2>2. CASE ReadGroup(w, t)
      BY <1>2, <1>4, <2>1, <2>2 DEF Types, ReadGroup, Malformed, NextKind
    <2>3. CASE ReadLost(w, t)
      BY <1>2, <1>4, <2>1, <2>3 DEF Types, ReadLost, NextKind
    <2> QED BY <2>2, <2>3
  <1>7. ValkeyInv'
    <2>1. ASSUME NEW l \in Kinds, NEW i \in DOMAIN stream'[l]
          PROVE  /\ KindOf[stream'[l][i]] = l
                 /\ stream'[l][i] \in (added' \cap stored') \ pel'
                 /\ \A j \in DOMAIN stream'[l] : stream'[l][j] = stream'[l][i] => j = i
      <3>1. CASE l # k
        <4>1. stream'[l] = stream[l]
          BY <1>2, <1>4, <3>1 DEF Types
        <4>2. stream[l][i] # t
          <5>1. i \in DOMAIN stream[l]
            BY <2>1, <4>1, Zenon
          <5>2. KindOf[stream[l][i]] = l
            BY <1>2, <5>1, Zenon DEF ValkeyInv
          <5> QED BY <1>3, <3>1, <5>2, Zenon
        <4>3. /\ KindOf[stream[l][i]] = l /\ stream[l][i] \in (added \cap stored) \ pel
              /\ \A j \in DOMAIN stream[l] : stream[l][j] = stream[l][i] => j = i
          BY <1>2, <2>1, <4>1 DEF ValkeyInv
        <4>4. added' = added /\ stored' = stored /\ pel' = pel \cup {t}
          BY <1>4
        <4> QED BY <4>1, <4>2, <4>3, <4>4
      <3>2. CASE l = k
        <4>1. stream[k] \in Seq(Tasks) /\ stream'[l] = Tail(stream[k])
          BY <1>2, <1>4, <3>2 DEF Types
        <4>2. /\ 1 \in DOMAIN stream[k] /\ t = stream[k][1] /\ i \in Nat /\ i + 1 # 1
              /\ DOMAIN stream'[l] \subseteq Nat
              /\ \A j \in DOMAIN stream'[l] :
                   j + 1 \in DOMAIN stream[k] /\ stream'[l][j] = stream[k][j + 1]
          <5> DEFINE s == stream[k]
          <5>1. s \in Seq(Tasks) /\ s # <<>> /\ t = Head(s) /\ stream'[l] = Tail(s)
            BY <1>3, <4>1
          <5> HIDE DEF s
          <5>2. /\ 1 \in DOMAIN s /\ Head(s) = s[1]
                /\ DOMAIN Tail(s) = 1 .. Len(s) - 1 /\ Len(s) \in Nat
                /\ \A j \in 1 .. Len(s) - 1 :
                     j + 1 \in DOMAIN s /\ j + 1 # 1 /\ Tail(s)[j] = s[j + 1]
            BY <5>1, TailShifts
          <5>3. i \in 1 .. Len(s) - 1 /\ DOMAIN stream'[l] \subseteq Nat
            BY <2>1, <5>1, <5>2
          <5> QED BY <5>1, <5>2, <5>3 DEF s
        <4>3. stream[k][i + 1] # t
          BY <1>2, <2>1, <4>2 DEF ValkeyInv
        <4>4. \A j \in DOMAIN stream'[l] : stream'[l][j] = stream'[l][i] => j + 1 = i + 1
          BY <1>2, <2>1, <4>2 DEF ValkeyInv
        <4>5. \A j \in DOMAIN stream'[l] : j + 1 = i + 1 => j = i
          BY <2>1, <4>2
        <4>6. i + 1 \in DOMAIN stream[k] /\ stream'[l][i] = stream[k][i + 1]
          BY <2>1, <4>2, Zenon
        <4>7. KindOf[stream[k][i + 1]] = k /\ stream[k][i + 1] \in (added \cap stored) \ pel
          BY <1>2, <4>6, Zenon DEF ValkeyInv
        <4>8. added' = added /\ stored' = stored /\ pel' = pel \cup {t}
          BY <1>4
        <4> QED BY <3>2, <4>3, <4>4, <4>5, <4>6, <4>7, <4>8
      <3> QED BY <3>1, <3>2
    <2>2. \A v \in Workers : pc'[v] \notin {"idle", "scan"} => job'[v] \in added' \ Unread'
      <3>1. CASE ReadGroup(w, t)
        <4>1. job' = [job EXCEPT ![w] = t] /\ \A v \in Workers : v # w => pc'[v] = pc[v]
          BY <1>2, <3>1 DEF ReadGroup, Types
        <4>2. job'[w] = t /\ \A v \in Workers : v # w => job'[v] = job[v]
          BY <1>2, <4>1 DEF Types
        <4>3. added' = added /\ t \in added
          BY <1>3, <1>4, Zenon
        <4> QED BY <1>2, <1>5, <4>1, <4>2, <4>3 DEF ValkeyInv
      <3>2. CASE ReadLost(w, t)
        BY <1>2, <1>4, <1>5, <3>2 DEF ReadLost, ValkeyInv
      <3> QED BY <3>1, <3>2
    <2>3. pel' \subseteq added'
      BY <1>2, <1>3, <1>4, Zenon DEF ValkeyInv
    <2>4. \A p \in Procs, id \in Ids :
            claimed'[p][id] # NoTask => claimed'[p][id] \in added' \ Unread'
      BY <1>2, <1>4, <1>5 DEF ValkeyInv
    <2> QED BY <2>1, <2>2, <2>3, <2>4 DEF ValkeyInv
  <1>8. AbstractStep
    <2>1. StateOf(t) = "queued" /\ StateOf(t)' = "held"
      BY <1>2, <1>3, <1>4, <1>5, Zenon DEF StateOf, Waiting, Held
    <2>2. \A u \in Tasks : u # t => StateOf(u)' = StateOf(u)
      BY <1>2, <1>4, <1>5 DEF StateOf, Waiting, Held
    <2> QED BY <1>4, <2>1, <2>2, Moves
  <1> QED BY <1>2, <1>4, <1>6, <1>7, <1>8 DEF IInv

(* XACK and XDEL settle a message that has been delivered, or one that       *)
(* another worker with the same ID has settled.                              *)
LEMMA AckDelStep ==
  ASSUME IInv, NEW w \in Workers, Ack(w) \/ Del(w)
  PROVE  IInv' /\ AbstractStep
  <1>1. backend = "valkey" /\ ValkeyInv /\ Types
    BY OnValkey DEF Ack, Del
  <1>2. PICK t \in Tasks : t = job[w] /\ t \in added \ Unread
    BY <1>1, Zenon DEF Ack, Del, ValkeyInv, Types
  <1>3. /\ pel' \in {pel, pel \ {t}} /\ stored' \in {stored, stored \ {t}}
        /\ pel' = pel \ {t} \/ stored' = stored \ {t}
        /\ UNCHANGED <<backend, added, tasks, status, stream, claimed, at, handed>>
    BY <1>2 DEF Ack, Del, memVars
  <1>4. Unread' = Unread
    BY <1>3 DEF Unread
  <1>5. Types'
    BY <1>1, <1>3, Zenon DEF Types, Ack, Del
  <1>6. ValkeyInv'
    <2>1. \A k \in Kinds : \A i \in DOMAIN stream[k] : stream[k][i] # t
      BY <1>2 DEF Unread, Range
    <2>2. \A k \in Kinds : \A i \in DOMAIN stream[k] :
            stream[k][i] \in (added \cap stored') \ pel'
      <3>1. \A k \in Kinds : \A i \in DOMAIN stream[k] : stream[k][i] \in (added \cap stored) \ pel
        BY <1>1, Zenon DEF ValkeyInv
      <3>2. \A x : x \in (added \cap stored) \ pel /\ x # t => x \in (added \cap stored') \ pel'
        BY <1>3
      <3> QED BY <2>1, <3>1, <3>2, Zenon
    <2>3. \A v \in Workers : pc'[v] \notin {"idle", "scan"} =>
            pc[v] \notin {"idle", "scan"} /\ job'[v] = job[v]
      BY <1>1 DEF Ack, Del, Types
    <2> QED BY <1>1, <1>3, <1>4, <2>2, <2>3 DEF ValkeyInv
  <1>7. AbstractStep
    <2>1. StateOf(t) \in {"held", "settled"} /\ StateOf(t)' = "settled"
      BY <1>1, <1>2, <1>3, <1>4 DEF StateOf, Waiting, Held
    <2>2. \A u \in Tasks : u # t => StateOf(u)' = StateOf(u)
      BY <1>1, <1>3, <1>4 DEF StateOf, Waiting, Held
    <2> QED BY <1>3, <2>1, <2>2, Moves
  <1> QED BY <1>1, <1>3, <1>5, <1>6, <1>7 DEF IInv

(* Steps that change neither the streams nor the tasks in memory are none of *)
(* the abstract queue.                                                       *)
LEMMA QuietStep ==
  ASSUME UNCHANGED <<backend, added, status, stream, pel, stored, handed>>
  PROVE  AbstractStep /\ Unread' = Unread
  <1>1. Unread' = Unread
    BY DEF Unread
  <1>2. \A u \in Tasks : StateOf(u)' = StateOf(u)
    BY <1>1 DEF StateOf, Waiting, Held
  <1> QED BY <1>1, <1>2, Stays

(* Claim's way through the kinds, and commands that are lost. *)
LEMMA ScanStep ==
  ASSUME IInv, NEW w \in Workers,
         Scan(w) \/ ReadNothing(w) \/ NoTasks(w) \/ ReadFails(w) \/ AckLost(w) \/ DelLost(w)
  PROVE  IInv' /\ AbstractStep
  <1> USE DEF memVars, valkeyVars
  <1>1. UNCHANGED <<backend, added, tasks, status, stream, pel, stored, claimed, handed>>
    BY DEF Scan, ReadNothing, NoTasks, ReadFails, AckLost, DelLost
  <1>2. AbstractStep /\ Unread' = Unread
    BY <1>1, QuietStep
  <1>3. backend = "valkey" /\ ValkeyInv /\ Types
    BY OnValkey DEF Scan, ReadNothing, NoTasks, ReadFails, AckLost, DelLost, IInv
  <1>4. Types'
    <2>1. at[w] + 1 \in Nat \ {0}
      BY <1>3 DEF Types
    <2>2. CASE Scan(w)
      BY <1>1, <1>3, <2>2 DEF Types, Scan
    <2>3. CASE NoTasks(w)
      BY <1>1, <1>3, <2>3 DEF Types, NoTasks
    <2>4. CASE ReadNothing(w) \/ ReadFails(w)
      BY <1>1, <1>3, <2>1, <2>4 DEF Types, ReadNothing, ReadFails, NextKind
    <2>5. CASE AckLost(w) \/ DelLost(w)
      BY <1>1, <1>3, <2>5, Zenon DEF Types, AckLost, DelLost
    <2> QED BY <2>2, <2>3, <2>4, <2>5
  <1>5. \A v \in Workers : pc'[v] \notin {"idle", "scan"} =>
          pc[v] \notin {"idle", "scan"} /\ job'[v] = job[v]
    BY <1>3 DEF Types, Scan, ReadNothing, NoTasks, ReadFails, AckLost, DelLost
  <1>6. ValkeyInv'
    BY <1>1, <1>2, <1>3, <1>5 DEF ValkeyInv
  <1> QED BY <1>1, <1>2, <1>3, <1>4, <1>6 DEF IInv

(* Claim's note of a message, and Complete's or Fail's use of it. *)
LEMMA ClaimedStep ==
  ASSUME IInv, NEW w \in Workers, Remember(w) \/ Forget(w)
  PROVE  IInv' /\ AbstractStep
  <1> USE DEF memVars
  <1>1. UNCHANGED <<backend, added, tasks, status, stream, pel, stored, at, handed>>
    BY DEF Remember, Forget
  <1>2. AbstractStep /\ Unread' = Unread
    BY <1>1, QuietStep
  <1>3. backend = "valkey" /\ ValkeyInv /\ Types
    BY OnValkey DEF Remember, Forget, IInv
  <1>4. job[w] \in Tasks /\ job[w] \in added \ Unread
    BY <1>3, Zenon DEF Remember, Forget, ValkeyInv, Types
  <1>5. ProcOf[w] \in Procs /\ IdOf[job[w]] \in Ids
    BY <1>4 DEF Procs, Ids
  <1>6. CASE Remember(w)
    <2>1. Types'
      BY <1>1, <1>3, <1>4, <1>5, <1>6 DEF Types, Remember
    <2>2. \A p \in Procs, id \in Ids : claimed'[p][id] \in {claimed[p][id], job[w]}
      BY <1>3, <1>5, <1>6 DEF Types, Remember
    <2>3. \A v \in Workers : pc'[v] \notin {"idle", "scan"} => pc[v] \notin {"idle", "scan"}
      BY <1>3, <1>6 DEF Types, Remember
    <2>4. job' = job
      BY <1>6 DEF Remember
    <2>5. ValkeyInv'
      BY <1>1, <1>2, <1>3, <1>4, <2>2, <2>3, <2>4 DEF ValkeyInv
    <2> QED BY <1>1, <1>2, <1>3, <2>1, <2>5 DEF IInv
  <1>7. CASE Forget(w)
    <2>1. PICK t \in Tasks \cup {NoTask} :
            t = claimed[ProcOf[w]][IdOf[job[w]]] /\ (t # NoTask => t \in added \ Unread)
      <3>1. claimed[ProcOf[w]][IdOf[job[w]]] \in Tasks \cup {NoTask}
        <4>1. claimed \in [Procs -> [Ids -> Tasks \cup {NoTask}]]
          BY <1>3, Zenon DEF Types
        <4> QED BY <1>5, <4>1, Zenon
      <3>2. claimed[ProcOf[w]][IdOf[job[w]]] # NoTask
              => claimed[ProcOf[w]][IdOf[job[w]]] \in added \ Unread
        BY <1>3, <1>5, Zenon DEF ValkeyInv
      <3> QED BY <3>1, <3>2, Zenon
    <2>2. /\ pc' = [pc EXCEPT ![w] = IF t = NoTask THEN "idle" ELSE "ack"]
          /\ job' = [job EXCEPT ![w] = t]
          /\ claimed' = [claimed EXCEPT ![ProcOf[w]][IdOf[job[w]]] = NoTask]
      BY <1>7, <2>1 DEF Forget
    <2>3. Types'
      BY <1>1, <1>3, <1>5, <2>2 DEF Types
    <2>4. \A p \in Procs, id \in Ids : claimed'[p][id] \in {claimed[p][id], NoTask}
      BY <1>3, <1>5, <2>2 DEF Types
    <2>5. \A v \in Workers : pc'[v] \notin {"idle", "scan"} => job'[v] \in added \ Unread
      <3>1. \A v \in Workers : pc[v] \notin {"idle", "scan"} => job[v] \in added \ Unread
        BY <1>3, Zenon DEF ValkeyInv
      <3>2. /\ job'[w] = t /\ pc'[w] = IF t = NoTask THEN "idle" ELSE "ack"
            /\ \A v \in Workers : v # w => job'[v] = job[v] /\ pc'[v] = pc[v]
        BY <1>3, <2>2 DEF Types
      <3>3. t # NoTask => t \in added \ Unread
        BY <2>1
      <3> QED BY <3>1, <3>2, <3>3
    <2>6. ValkeyInv'
      BY <1>1, <1>2, <1>3, <2>4, <2>5 DEF ValkeyInv
    <2> QED BY <1>1, <1>2, <1>3, <2>3, <2>6 DEF IInv
  <1> QED BY <1>6, <1>7

(* A restart leaves the streams as they are; its workers have nothing. *)
LEMMA RestartStep ==
  ASSUME IInv, NEW p \in Procs, Restart(p)
  PROVE  IInv' /\ AbstractStep
  <1>1. UNCHANGED <<backend, added, status, stream, pel, stored, handed>>
    BY DEF Restart
  <1>2. AbstractStep /\ Unread' = Unread
    BY <1>1, QuietStep
  <1>3. Types'
    BY <1>1 DEF IInv, Types, Restart
  <1>4. \A w \in Workers :
          \/ pc'[w] = "idle"
          \/ backend # "memory" /\ pc'[w] = pc[w] /\ job'[w] = job[w]
    BY Zenon DEF Restart
  <1>5. tasks' = <<>> /\ \A q \in Procs, id \in Ids : claimed'[q][id] \in {claimed[q][id], NoTask}
    BY DEF Restart, IInv, Types
  <1>6. backend = "memory" => MemInv'
    <2> SUFFICES ASSUME backend = "memory" PROVE MemInv'
      OBVIOUS
    <2>1. \A t \in Tasks : t \in added' <=> status'[t] # "none"
      BY <1>1, Zenon DEF IInv, MemInv
    <2>2. \A i \in DOMAIN tasks' : tasks'[i] \in added'
      BY <1>5
    <2>3. \A w \in Workers : pc'[w] = "idle"
      BY <1>4, Zenon
    <2> QED BY <2>1, <2>2, <2>3 DEF MemInv
  <1>7. backend = "valkey" => ValkeyInv'
    BY <1>1, <1>2, <1>4, <1>5 DEF IInv, ValkeyInv
  <1> QED BY <1>1, <1>2, <1>3, <1>6, <1>7 DEF IInv

----------------------------------------------------------------------------

(* Initially both queues are empty. *)
LEMMA InitIInv == Init => IInv /\ Abstract!Init
  <1> SUFFICES ASSUME Init PROVE IInv /\ Abstract!Init
    OBVIOUS
  <1> USE DEF Init
  <1>1. Types
    BY DEF Types
  <1>2. MemInv
    BY DEF MemInv
  <1>3. ValkeyInv
    BY DEF ValkeyInv
  <1>4. State = [t \in Tasks |-> "new"]
    BY DEF State, StateOf
  <1> QED BY <1>1, <1>2, <1>3, <1>4 DEF IInv, Abstract!Init

(* Every step of a queue is one of the abstract queue, or none. *)
LEMMA NextStep == IInv /\ [Next]_vars => IInv' /\ [Abstract!Next]_(Abstract!vars)
  <1> SUFFICES ASSUME IInv, [Next]_vars PROVE IInv' /\ AbstractStep
    BY DEF AbstractStep
  <1>1. ASSUME NEW t \in Tasks, MemEnqueue(t) \/ ValkeyEnqueue(t) PROVE IInv' /\ AbstractStep
    BY <1>1, MemEnqueueStep, ValkeyEnqueueStep
  <1>2. ASSUME NEW w \in Workers, NEW t \in Tasks, ReadGroup(w, t) \/ ReadLost(w, t)
        PROVE  IInv' /\ AbstractStep
    BY <1>2, DeliverStep
  <1>3. ASSUME NEW w \in Workers, MemClaim(w) \/ MemComplete(w) \/ MemFail(w)
        PROVE  IInv' /\ AbstractStep
    BY <1>3, MemClaimStep, MemSettleStep
  <1>4. ASSUME NEW w \in Workers,
               \/ Scan(w) \/ ReadNothing(w) \/ NoTasks(w) \/ ReadFails(w) \/ AckLost(w)
               \/ DelLost(w)
        PROVE  IInv' /\ AbstractStep
    BY <1>4, ScanStep
  <1>5. ASSUME NEW w \in Workers, Remember(w) \/ Forget(w) \/ Ack(w) \/ Del(w)
        PROVE  IInv' /\ AbstractStep
    BY <1>5, ClaimedStep, AckDelStep
  <1>6. ASSUME NEW p \in Procs, Restart(p) PROVE IInv' /\ AbstractStep
    BY <1>6, RestartStep
  <1>7. CASE UNCHANGED vars
    <2>1. AbstractStep /\ Unread' = Unread
      BY <1>7, QuietStep DEF vars, memVars, valkeyVars
    <2> QED BY <1>7, <2>1 DEF vars, memVars, valkeyVars, workerVars, IInv, Types, MemInv, ValkeyInv
  <1> QED BY <1>1, <1>2, <1>3, <1>4, <1>5, <1>6, <1>7 DEF Next, ClaimStep

(* Whatever is lost and whoever restarts, the queues of work/queue.go and    *)
(* work/valkey_queue.go hand a task to one worker at most, and settle it     *)
(* only after that, or because it shares its ID: each implements TaskQueue.  *)
THEOREM Implements == Spec => IsTaskQueue
  BY InitIInv, NextStep, PTL DEF Spec, IsTaskQueue, Abstract!Spec

(* H hands the tasks of the states S to one worker each. *)
Single(S, H) ==
  /\ S = [t \in Tasks |-> S[t]] /\ H \subseteq Tasks \X Workers
  /\ \A t \in Tasks, v \in Workers : <<t, v>> \in H =>
       /\ S[t] \in {"held", "settled"}
       /\ \A w \in Workers : <<t, w>> \in H => v = w

LEMMA SingleMove ==
  ASSUME NEW S, NEW H, Single(S, H), NEW t \in Tasks, NEW x,
         S[t] \in {"held", "settled"} => x \in {"held", "settled"}
  PROVE  Single([S EXCEPT ![t] = x], H)
  BY DEF Single

LEMMA SingleClaim ==
  ASSUME NEW S, NEW H, Single(S, H), NEW t \in Tasks, S[t] = "queued", NEW w \in Workers
  PROVE  Single([S EXCEPT ![t] = "held"], H \cup {<<t, w>>})
  <1>1. \A v \in Workers : <<t, v>> \notin H
    BY DEF Single
  <1> QED BY <1>1 DEF Single

(* Although a process restarts, an answer is lost or two tasks share an ID,  *)
(* Claim of the queue in memory or on Valkey never gives a task to a second  *)
(* worker.                                                                   *)
THEOREM HandedOnce ==
  Spec => [](\A t \in Tasks : \A v, w \in Workers :
               <<t, v>> \in handed /\ <<t, w>> \in handed => v = w)
  <1> DEFINE Once == \A t \in Tasks : \A v, w \in Workers :
               <<t, v>> \in handed /\ <<t, w>> \in handed => v = w
  <1>1. Abstract!Init => Single(State, handed)
    BY DEF Abstract!Init, Single
  <1>2. Single(State, handed) /\ [Abstract!Next]_(Abstract!vars) => Single(State, handed)'
    <2> SUFFICES ASSUME Single(State, handed), [Abstract!Next]_(Abstract!vars)
                 PROVE  Single(State', handed')
      BY Zenon DEF Single
    <2>1. ASSUME NEW t \in Tasks, Abstract!Enqueue(t) \/ Abstract!Settle(t) \/ Abstract!Discard(t)
          PROVE  Single(State', handed')
      <3>1. \E x : /\ State' = [State EXCEPT ![t] = x]
                   /\ State[t] \in {"held", "settled"} => x \in {"held", "settled"}
        BY <2>1, Zenon DEF Abstract!Enqueue, Abstract!Settle, Abstract!Discard
      <3>2. handed' = handed
        BY <2>1, Zenon DEF Abstract!Enqueue, Abstract!Settle, Abstract!Discard
      <3>3. PICK x : /\ State' = [State EXCEPT ![t] = x]
                     /\ State[t] \in {"held", "settled"} => x \in {"held", "settled"}
        BY <3>1, Zenon
      <3>4. Single([State EXCEPT ![t] = x], handed)
        BY <3>3, SingleMove
      <3> QED BY <3>2, <3>3, <3>4
    <2>2. ASSUME NEW t \in Tasks, NEW w \in Workers, Abstract!Claim(t, w)
          PROVE  Single(State', handed')
      <3>1. /\ State[t] = "queued" /\ State' = [State EXCEPT ![t] = "held"]
            /\ handed' = handed \cup {<<t, w>>}
        BY <2>2, Zenon DEF Abstract!Claim
      <3>2. Single([State EXCEPT ![t] = "held"], handed \cup {<<t, w>>})
        BY <3>1, SingleClaim
      <3> QED BY <3>1, <3>2
    <2>3. CASE UNCHANGED Abstract!vars
      <3>1. State' = State /\ handed' = handed
        BY <2>3, Zenon DEF Abstract!vars
      <3> QED BY <3>1
    <2> QED BY <2>1, <2>2, <2>3 DEF Abstract!Next
  <1>3. Single(State, handed) => Once
    BY DEF Single
  <1> HIDE DEF Once
  <1>4. Spec => []Once
    BY <1>1, <1>2, <1>3, Implements, PTL DEF IsTaskQueue, Abstract!Spec
  <1> QED BY <1>4 DEF Once

----------------------------------------------------------------------------
(* Messages that are pending in a group are in a worker's hands.             *)

(* A task is with one worker only, which finds it again under its ID when it *)
(* is done, unless a fault or a second task with the ID excuses it.          *)
HandInv ==
  /\ \A t, u \in added : t # u /\ IdOf[t] = IdOf[u] => t \in excused
  /\ backend = "memory" => pel = {}
  /\ backend = "valkey" =>
       /\ \A w \in Workers : pc[w] \in {"idle", "scan"} => job[w] = NoTask
       /\ \A v, w \in Workers :
            v # w /\ job[v] = job[w] /\ job[v] # NoTask => job[v] \in excused
       /\ \A w \in Workers :
            pc[w] = "busy" => job[w] \in excused \/ claimed[ProcOf[w]][IdOf[job[w]]] = job[w]
       /\ \A w \in Workers : pc[w] \in {"del", "dropDel"} => job[w] \notin pel \ excused
       /\ \A p \in Procs, id \in Ids :
            claimed[p][id] # NoTask => IdOf[claimed[p][id]] = id
  /\ PendingIsInHand

(* Enqueue: a second task with an ID excuses both; nothing else changes. *)
LEMMA EnqueueHand ==
  ASSUME IInv, HandInv, NEW t \in Tasks, MemEnqueue(t) \/ ValkeyEnqueue(t)
  PROVE  HandInv'
  <1>1. Add(t) /\ UNCHANGED <<backend, pc, job, pel, claimed>>
    BY DEF MemEnqueue, ValkeyEnqueue, Add, valkeyVars, workerVars
  <1>2. excused \subseteq excused'
    BY <1>1 DEF Add
  <1>3. ASSUME NEW u \in added', NEW v \in added', u # v, IdOf[u] = IdOf[v]
        PROVE  u \in excused'
    <2>1. CASE u \in added /\ v \in added
      BY <1>2, <1>3, <2>1 DEF HandInv
    <2>2. CASE u = t \/ v = t
      <3>1. u \in SameId(t) /\ v \in SameId(t) /\ (u \in added \/ v \in added)
        BY <1>1, <1>3, <2>2 DEF Add, SameId, IInv, Types
      <3> QED BY <1>1, <3>1 DEF Add
    <2> QED BY <1>1, <1>3, <2>1, <2>2 DEF Add
  <1>4. PendingIsInHand'
    BY <1>1, <1>2 DEF HandInv, PendingIsInHand
  <1> QED BY <1>1, <1>2, <1>3, <1>4 DEF HandInv

(* In memory no message is pending. *)
LEMMA MemoryHand ==
  ASSUME IInv, HandInv, NEW w \in Workers, MemClaim(w) \/ MemComplete(w) \/ MemFail(w)
  PROVE  HandInv'
  <1>1. backend = "memory" /\ UNCHANGED <<backend, added, pel, excused>>
    BY DEF MemClaim, MemComplete, MemFail, MemSettle, valkeyVars
  <1> QED BY <1>1 DEF HandInv, PendingIsInHand

(* A message that is delivered comes to no one but the worker that reads it, *)
(* or is excused.                                                            *)
LEMMA DeliverHand ==
  ASSUME IInv, HandInv, NEW w \in Workers, NEW t \in Tasks, ReadGroup(w, t) \/ ReadLost(w, t)
  PROVE  HandInv'
  <1>1. Deliver(w, t) /\ pc[w] = "scan"
    BY DEF ReadGroup, ReadLost, Deliver
  <1>2. backend = "valkey" /\ ValkeyInv /\ Types
    BY <1>1, OnValkey
  <1>3. t \in Unread
    <2>1. Asks[w] \in Seq(Kinds)
      BY WorkQueuesAssumption
    <2>2. PICK k \in Kinds : k = Asks[w][at[w]]
      <3>1. at[w] \in Nat \ {0} /\ at[w] <= Len(Asks[w])
        BY <1>1, <1>2, Zenon DEF Deliver, Types
      <3> QED BY <2>1, <3>1
    <2>3. stream[k] \in Seq(Tasks) /\ stream[k] # <<>> /\ t = Head(stream[k])
      BY <1>1, <1>2, <2>2, Zenon DEF Deliver, Types
    <2>4. 1 \in DOMAIN stream[k] /\ t = stream[k][1]
      BY <2>3
    <2> QED BY <2>4 DEF Unread, Range
  <1>4. \A v \in Workers : job[v] # t
    <2> SUFFICES ASSUME NEW v \in Workers PROVE job[v] # t
      OBVIOUS
    <2>1. pc[v] \in {"idle", "scan"} => job[v] = NoTask
      BY <1>2, Zenon DEF HandInv
    <2>2. pc[v] \notin {"idle", "scan"} => job[v] \in added \ Unread
      BY <1>2, Zenon DEF ValkeyInv
    <2>3. t # NoTask
      BY WorkQueuesAssumption
    <2> QED BY <1>3, <2>1, <2>2, <2>3
  <1>5. pel' = pel \cup {t} /\ UNCHANGED <<backend, added, claimed>>
    BY <1>1, Zenon DEF Deliver
  <1>6. CASE ReadGroup(w, t)
    <2>1. /\ job' = [job EXCEPT ![w] = t] /\ excused' = excused
          /\ pc' = [pc EXCEPT ![w] = IF t \in Bad THEN "dropAck" ELSE "got"]
      BY <1>6 DEF ReadGroup, Malformed
    <2>2. /\ job'[w] = t /\ job[w] = NoTask
          /\ \A v \in Workers : v # w => job'[v] = job[v] /\ pc'[v] = pc[v]
          /\ pc'[w] \in {"dropAck", "got"}
      BY <1>1, <1>2, <2>1 DEF Types, HandInv
    <2>3. PendingIsInHand'
      BY <1>2, <1>5, <2>1, <2>2, WorkQueuesAssumption DEF HandInv, PendingIsInHand, Types
    <2>4. \A v \in Workers : pc'[v] \in {"del", "dropDel"} => job'[v] \notin pel' \ excused'
      <3>1. \A v \in Workers : pc[v] \in {"del", "dropDel"} => job[v] \notin pel \ excused
        BY <1>2, Zenon DEF HandInv
      <3>2. excused' = excused /\ pel' = pel \cup {t}
        BY <1>5, <2>1
      <3> QED BY <1>4, <2>2, <3>1, <3>2
    <2>5. \A u, v \in Workers :
            u # v /\ job'[u] = job'[v] /\ job'[u] # NoTask => job'[u] \in excused'
      <3>1. \A u, v \in Workers : u # v /\ job[u] = job[v] /\ job[u] # NoTask => job[u] \in excused
        BY <1>2, Zenon DEF HandInv
      <3>2. excused' = excused
        BY <2>1
      <3> QED BY <1>4, <2>2, <3>1, <3>2
    <2>6. \A v \in Workers : pc'[v] \in {"idle", "scan"} => job'[v] = NoTask
      <3>1. \A v \in Workers : pc[v] \in {"idle", "scan"} => job[v] = NoTask
        BY <1>2, Zenon DEF HandInv
      <3> QED BY <2>2, <3>1
    <2>7. \A v \in Workers :
            pc'[v] = "busy" => job'[v] \in excused' \/ claimed'[ProcOf[v]][IdOf[job'[v]]] = job'[v]
      <3>1. \A v \in Workers :
              pc[v] = "busy" => job[v] \in excused \/ claimed[ProcOf[v]][IdOf[job[v]]] = job[v]
        BY <1>2, Zenon DEF HandInv
      <3>2. \A v \in Workers : pc'[v] = "busy" => job'[v] = job[v] /\ pc[v] = "busy"
        BY <2>2
      <3>3. excused' = excused /\ claimed' = claimed
        BY <1>5, <2>1
      <3> QED BY <3>1, <3>2, <3>3
    <2>8. /\ \A u, v \in added' : u # v /\ IdOf[u] = IdOf[v] => u \in excused'
          /\ \A p \in Procs, id \in Ids : claimed'[p][id] # NoTask => IdOf[claimed'[p][id]] = id
      BY <1>2, <1>5, <2>1, Zenon DEF HandInv
    <2>9. backend' = "valkey"
      BY <1>2, <1>5
    <2> QED BY <2>3, <2>4, <2>5, <2>6, <2>7, <2>8, <2>9 DEF HandInv
  <1>7. CASE ReadLost(w, t)
    <2>1. excused' = excused \cup {t} /\ UNCHANGED <<pc, job>>
      BY <1>7 DEF ReadLost
    <2>2. PendingIsInHand'
      BY <1>5, <2>1 DEF HandInv, PendingIsInHand
    <2> QED BY <1>2, <1>5, <2>1, <2>2 DEF HandInv
  <1> QED BY <1>6, <1>7

(* Claim's way through the kinds leaves everyone with what it has. *)
LEMMA ScanHand ==
  ASSUME IInv, HandInv, NEW w \in Workers, Scan(w) \/ ReadNothing(w) \/ NoTasks(w) \/ ReadFails(w)
  PROVE  HandInv'
  <1>1. UNCHANGED <<backend, added, pel, claimed, job, excused>>
    BY DEF Scan, ReadNothing, NoTasks, ReadFails, valkeyVars
  <1>2. \A v \in Workers :
          pc'[v] = pc[v] \/ (pc[v] \in {"idle", "scan"} /\ pc'[v] \in {"idle", "scan"})
    BY DEF IInv, Types, Scan, ReadNothing, NoTasks, ReadFails
  <1>3. PendingIsInHand'
    BY <1>1, Zenon DEF HandInv, PendingIsInHand
  <1> QED BY <1>1, <1>2, <1>3, Zenon DEF HandInv

(* XACK before XDEL: what a worker lets go of is not pending, or was lost. *)
LEMMA AckHand ==
  ASSUME IInv, HandInv, NEW w \in Workers, Ack(w) \/ AckLost(w)
  PROVE  HandInv'
  <1>1. backend = "valkey" /\ ValkeyInv /\ Types
    BY OnValkey DEF Ack, AckLost
  <1>2. UNCHANGED <<backend, added, claimed, job>>
    BY DEF Ack, AckLost, valkeyVars
  <1>3. /\ \A v \in Workers : v # w => pc'[v] = pc[v]
        /\ pc'[w] \in {"del", "dropDel"}
    BY <1>1 DEF Types, Ack, AckLost
  <1>4. /\ excused \subseteq excused' /\ pel' \subseteq pel
        /\ job[w] \notin pel' \ excused' /\ pel \ pel' \subseteq {job[w]}
    BY DEF Ack, AckLost, valkeyVars
  <1>5. PendingIsInHand'
    BY <1>2, <1>4 DEF HandInv, PendingIsInHand
  <1> QED BY <1>1, <1>2, <1>3, <1>4, <1>5 DEF HandInv

LEMMA DelHand ==
  ASSUME IInv, HandInv, NEW w \in Workers, Del(w) \/ DelLost(w)
  PROVE  HandInv'
  <1>1. backend = "valkey" /\ ValkeyInv /\ Types
    BY OnValkey DEF Del, DelLost
  <1>2. UNCHANGED <<backend, added, claimed, pel, excused>> /\ job[w] \notin pel \ excused
    BY <1>1 DEF Del, DelLost, valkeyVars, HandInv
  <1>3. /\ \A v \in Workers : v # w => pc'[v] = pc[v] /\ job'[v] = job[v]
        /\ pc'[w] \in {"idle", "scan"} /\ job'[w] = NoTask
    BY <1>1 DEF Types, Del, DelLost
  <1>4. PendingIsInHand'
    <2> SUFFICES ASSUME NEW t \in pel, t \notin excused PROVE \E v \in Workers : job'[v] = t
      BY <1>2, Zenon DEF PendingIsInHand
    <2>1. PICK v \in Workers : job[v] = t
      BY Zenon DEF HandInv, PendingIsInHand
    <2>2. v # w
      BY <1>2, <2>1
    <2> QED BY <1>3, <2>1, <2>2
  <1>5. \A u, v \in Workers :
          u # v /\ job'[u] = job'[v] /\ job'[u] # NoTask => job'[u] \in excused'
    BY <1>1, <1>2, <1>3 DEF HandInv
  <1> QED BY <1>1, <1>2, <1>3, <1>4, <1>5 DEF HandInv

(* Claim notes a task under its ID: another one there is excused. *)
LEMMA RememberHand ==
  ASSUME IInv, HandInv, NEW w \in Workers, Remember(w)
  PROVE  HandInv'
  <1>1. backend = "valkey" /\ ValkeyInv /\ Types
    BY OnValkey DEF Remember
  <1>2. /\ UNCHANGED <<backend, added, job, pel, excused>>
        /\ claimed' = [claimed EXCEPT ![ProcOf[w]][IdOf[job[w]]] = job[w]]
        /\ pc' = [pc EXCEPT ![w] = "busy"]
    BY DEF Remember
  <1>3. pc[w] = "got" /\ pc'[w] = "busy" /\ \A v \in Workers : v # w => pc'[v] = pc[v]
    BY <1>1, <1>2 DEF Types, Remember
  <1>4. \A v \in Workers : pc'[v] = "busy" => job[v] \in added /\ job[v] \in Tasks
    BY <1>1, <1>3, Zenon DEF ValkeyInv, Types
  <1>5. \A v \in Workers : /\ ProcOf[v] \in Procs
                           /\ pc'[v] = "busy" => IdOf[job[v]] \in Ids
    BY <1>4 DEF Procs, Ids
  <1>6. \A p \in Procs, id \in Ids :
          claimed'[p][id] = IF p = ProcOf[w] /\ id = IdOf[job[w]] THEN job[w] ELSE claimed[p][id]
    BY <1>1, <1>2 DEF Types
  <1>7. ASSUME NEW v \in Workers, pc'[v] = "busy"
        PROVE  job'[v] \in excused' \/ claimed'[ProcOf[v]][IdOf[job'[v]]] = job'[v]
    <2>1. job[v] # job[w] /\ IdOf[job[v]] = IdOf[job[w]] => job[v] \in excused
      BY <1>4, <1>3, <1>7 DEF HandInv
    <2>2. pc[v] = "busy" => job[v] \in excused \/ claimed[ProcOf[v]][IdOf[job[v]]] = job[v]
      BY <1>1, Zenon DEF HandInv
    <2>3. v = w \/ pc[v] = "busy"
      BY <1>3, <1>7
    <2>4. ProcOf[v] \in Procs /\ IdOf[job[v]] \in Ids /\ job' = job /\ excused' = excused
      BY <1>2, <1>5, <1>7
    <2>5. claimed'[ProcOf[v]][IdOf[job[v]]] =
            IF ProcOf[v] = ProcOf[w] /\ IdOf[job[v]] = IdOf[job[w]]
              THEN job[w] ELSE claimed[ProcOf[v]][IdOf[job[v]]]
      BY <1>6, <2>4, Zenon
    <2> QED BY <2>1, <2>2, <2>3, <2>4, <2>5
  <1>8. \A p \in Procs, id \in Ids : claimed'[p][id] # NoTask => IdOf[claimed'[p][id]] = id
    BY <1>1, <1>6 DEF HandInv
  <1>9. PendingIsInHand'
    BY <1>2 DEF HandInv, PendingIsInHand
  <1> QED BY <1>1, <1>2, <1>3, <1>7, <1>8, <1>9 DEF HandInv

(* Complete or Fail takes what is noted under the ID: the worker's own task, *)
(* or one that shares its ID, and then both are excused.                     *)
LEMMA ForgetHand ==
  ASSUME IInv, HandInv, NEW w \in Workers, Forget(w)
  PROVE  HandInv'
  <1>1. backend = "valkey" /\ ValkeyInv /\ Types /\ pc[w] = "busy"
    BY DEF Forget, IInv
  <1>2. \A v \in Workers : /\ ProcOf[v] \in Procs
                           /\ pc[v] = "busy" =>
                                job[v] \in added /\ job[v] \in Tasks /\ IdOf[job[v]] \in Ids
    BY <1>1, Zenon DEF Procs, Ids, ValkeyInv, Types
  <1>3. PICK t \in Tasks \cup {NoTask} : t = claimed[ProcOf[w]][IdOf[job[w]]]
    <2>1. claimed \in [Procs -> [Ids -> Tasks \cup {NoTask}]]
      BY <1>1, Zenon DEF Types
    <2>2. ProcOf[w] \in Procs /\ IdOf[job[w]] \in Ids
      BY <1>1, <1>2, Zenon
    <2>3. claimed[ProcOf[w]][IdOf[job[w]]] \in Tasks \cup {NoTask}
      BY <2>1, <2>2, Zenon
    <2> QED BY <2>3, Zenon
  <1>4. /\ UNCHANGED <<backend, added, pel, excused>>
        /\ pc' = [pc EXCEPT ![w] = IF t = NoTask THEN "idle" ELSE "ack"]
        /\ job' = [job EXCEPT ![w] = t]
        /\ claimed' = [claimed EXCEPT ![ProcOf[w]][IdOf[job[w]]] = NoTask]
    BY <1>3 DEF Forget
  <1>5. t # NoTask => t \in added /\ IdOf[t] = IdOf[job[w]]
    <2>1. ProcOf[w] \in Procs /\ IdOf[job[w]] \in Ids
      BY <1>1, <1>2, Zenon
    <2>2. \A p \in Procs, id \in Ids :
            claimed[p][id] # NoTask => claimed[p][id] \in added /\ IdOf[claimed[p][id]] = id
      BY <1>1, Zenon DEF ValkeyInv, HandInv
    <2> QED BY <1>3, <2>1, <2>2, Zenon
  <1>6. t = job[w] \/ (job[w] \in excused /\ (t # NoTask => t \in excused))
    BY <1>1, <1>2, <1>3, <1>5 DEF HandInv
  <1>7. /\ job'[w] = t /\ pc'[w] = IF t = NoTask THEN "idle" ELSE "ack"
        /\ \A v \in Workers : v # w => job'[v] = job[v] /\ pc'[v] = pc[v]
    BY <1>1, <1>4 DEF Types
  <1>8. \A p \in Procs, id \in Ids :
          claimed'[p][id] = IF p = ProcOf[w] /\ id = IdOf[job[w]] THEN NoTask ELSE claimed[p][id]
    BY <1>1, <1>4 DEF Types
  <1>9. job[w] # NoTask
    BY <1>1, <1>2, WorkQueuesAssumption
  <1>10. ASSUME NEW v \in Workers, pc'[v] = "busy"
         PROVE  job'[v] \in excused' \/ claimed'[ProcOf[v]][IdOf[job'[v]]] = job'[v]
    <2>1. v # w /\ pc[v] = "busy" /\ job'[v] = job[v]
      BY <1>7, <1>10
    <2>2. IdOf[job[v]] = IdOf[job[w]] => job[v] \in excused
      <3>1. job[v] = job[w] => job[v] \in excused
        BY <1>1, <1>9, <2>1 DEF HandInv
      <3>2. job[v] # job[w] /\ IdOf[job[v]] = IdOf[job[w]] => job[v] \in excused
        BY <1>1, <1>2, <2>1 DEF HandInv
      <3> QED BY <3>1, <3>2
    <2>3. job[v] \in excused \/ claimed[ProcOf[v]][IdOf[job[v]]] = job[v]
      BY <1>1, <2>1, Zenon DEF HandInv
    <2>4. ProcOf[v] \in Procs /\ IdOf[job[v]] \in Ids
      BY <1>2, <2>1
    <2>5. claimed'[ProcOf[v]][IdOf[job[v]]] =
            IF ProcOf[v] = ProcOf[w] /\ IdOf[job[v]] = IdOf[job[w]]
              THEN NoTask ELSE claimed[ProcOf[v]][IdOf[job[v]]]
      BY <1>8, <2>4, Zenon
    <2>6. excused' = excused
      BY <1>4
    <2> QED BY <2>1, <2>2, <2>3, <2>5, <2>6
  <1>11. \A u, v \in Workers :
           u # v /\ job'[u] = job'[v] /\ job'[u] # NoTask => job'[u] \in excused'
    BY <1>1, <1>4, <1>6, <1>7 DEF HandInv
  <1>12. PendingIsInHand'
    BY <1>4, <1>6, <1>7 DEF HandInv, PendingIsInHand
  <1>13. \A p \in Procs, id \in Ids : claimed'[p][id] # NoTask => IdOf[claimed'[p][id]] = id
    <2>1. \A p \in Procs, id \in Ids : claimed[p][id] # NoTask => IdOf[claimed[p][id]] = id
      BY <1>1, Zenon DEF HandInv
    <2> QED BY <1>8, <2>1
  <1>14. \A v \in Workers : /\ pc'[v] \in {"idle", "scan"} => job'[v] = NoTask
                            /\ pc'[v] \in {"del", "dropDel"} => job'[v] \notin pel' \ excused'
    BY <1>1, <1>4, <1>7 DEF HandInv
  <1> QED BY <1>1, <1>4, <1>10, <1>11, <1>12, <1>13, <1>14 DEF HandInv

(* A restart excuses what the workers of the process had. *)
LEMMA RestartHand ==
  ASSUME IInv, HandInv, NEW p \in Procs, Restart(p)
  PROVE  HandInv'
  <1>1. UNCHANGED <<backend, added, pel>> /\ excused \subseteq excused'
    BY DEF Restart
  <1>2. \A v \in Workers :
          \/ pc'[v] = "idle" /\ job'[v] = NoTask /\ job[v] \in excused'
          \/ pc'[v] = pc[v] /\ job'[v] = job[v] /\ ProcOf[v] # p
    BY DEF Restart
  <1>3. PendingIsInHand'
    BY <1>1, <1>2 DEF HandInv, PendingIsInHand
  <1>4. CASE backend = "memory"
    BY <1>1, <1>3, <1>4 DEF HandInv
  <1>5. CASE backend = "valkey"
    <2>1. ValkeyInv /\ Types
      BY <1>5 DEF IInv
    <2>2. \A q \in Procs, id \in Ids : claimed'[q][id] = IF q = p THEN NoTask ELSE claimed[q][id]
      BY <2>1 DEF Types, Restart
    <2>3. \A v \in Workers : /\ ProcOf[v] \in Procs
                             /\ pc[v] = "busy" => IdOf[job[v]] \in Ids
      BY <1>5, <2>1, Zenon DEF Procs, Ids, ValkeyInv, Types
    <2>4. \A v \in Workers :
            pc'[v] = "busy" => job'[v] \in excused' \/ claimed'[ProcOf[v]][IdOf[job'[v]]] = job'[v]
      <3> SUFFICES ASSUME NEW v \in Workers, pc'[v] = "busy"
                   PROVE  job'[v] \in excused' \/ claimed'[ProcOf[v]][IdOf[job'[v]]] = job'[v]
        OBVIOUS
      <3>1. pc[v] = "busy" /\ job'[v] = job[v] /\ ProcOf[v] # p
        BY <1>2
      <3>2. job[v] \in excused \/ claimed[ProcOf[v]][IdOf[job[v]]] = job[v]
        BY <1>5, <3>1, Zenon DEF HandInv
      <3>3. claimed'[ProcOf[v]][IdOf[job[v]]] = claimed[ProcOf[v]][IdOf[job[v]]]
        BY <2>2, <2>3, <3>1
      <3> QED BY <1>1, <3>1, <3>2, <3>3
    <2>5. \A q \in Procs, id \in Ids : claimed'[q][id] # NoTask => IdOf[claimed'[q][id]] = id
      <3>1. \A q \in Procs, id \in Ids : claimed[q][id] # NoTask => IdOf[claimed[q][id]] = id
        BY <1>5, Zenon DEF HandInv
      <3> QED BY <2>2, <3>1
    <2>6. \A u, v \in Workers :
            u # v /\ job'[u] = job'[v] /\ job'[u] # NoTask => job'[u] \in excused'
      <3>1. \A u, v \in Workers : u # v /\ job[u] = job[v] /\ job[u] # NoTask => job[u] \in excused
        BY <1>5, Zenon DEF HandInv
      <3> QED BY <1>1, <1>2, <3>1
    <2> QED BY <1>1, <1>2, <1>3, <1>5, <2>4, <2>5, <2>6 DEF HandInv
  <1> QED BY <1>4, <1>5 DEF IInv, Types

LEMMA InitHand == Init => HandInv
  BY DEF Init, HandInv, PendingIsInHand

LEMMA NextHand == IInv /\ HandInv /\ [Next]_vars => HandInv'
  <1> SUFFICES ASSUME IInv, HandInv, [Next]_vars PROVE HandInv'
    OBVIOUS
  <1>1. ASSUME NEW t \in Tasks, MemEnqueue(t) \/ ValkeyEnqueue(t) PROVE HandInv'
    BY <1>1, EnqueueHand
  <1>2. ASSUME NEW w \in Workers, NEW t \in Tasks, ReadGroup(w, t) \/ ReadLost(w, t)
        PROVE  HandInv'
    BY <1>2, DeliverHand
  <1>3. ASSUME NEW w \in Workers, MemClaim(w) \/ MemComplete(w) \/ MemFail(w) PROVE HandInv'
    BY <1>3, MemoryHand
  <1>4. ASSUME NEW w \in Workers, Scan(w) \/ ReadNothing(w) \/ NoTasks(w) \/ ReadFails(w)
        PROVE  HandInv'
    BY <1>4, ScanHand
  <1>5. ASSUME NEW w \in Workers,
               Remember(w) \/ Forget(w) \/ Ack(w) \/ AckLost(w) \/ Del(w) \/ DelLost(w)
        PROVE  HandInv'
    BY <1>5, RememberHand, ForgetHand, AckHand, DelHand
  <1>6. ASSUME NEW p \in Procs, Restart(p) PROVE HandInv'
    BY <1>6, RestartHand
  <1>7. CASE UNCHANGED vars
    BY <1>7 DEF vars, memVars, valkeyVars, workerVars, HandInv, PendingIsInHand
  <1> QED BY <1>1, <1>2, <1>3, <1>4, <1>5, <1>6, <1>7 DEF Next, ClaimStep

(* A message that the consumer group has delivered to ValkeyQueue.Claim and  *)
(* that nobody has acknowledged is in the hands of a worker, which will      *)
(* acknowledge it, unless a restart, a lost command or a second task with    *)
(* its ID took it from there: nothing else leaves a message behind.          *)
THEOREM InHand == Spec => []PendingIsInHand
  <1>1. HandInv => PendingIsInHand
    BY DEF HandInv
  <1> QED BY <1>1, InitIInv, InitHand, NextStep, NextHand, PTL DEF Spec

=============================================================================
