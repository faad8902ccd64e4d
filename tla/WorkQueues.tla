----------------------------- MODULE WorkQueues -----------------------------
(***************************************************************************)
(* The other two implementations of the Queue interface of work/queue.go:  *)
(* the queue in memory, of the same file, and the queue on Valkey streams  *)
(* of work/valkey_queue.go.  A process is given one or the other, and its  *)
(* workers claim, complete and fail tasks in the same way with both.       *)
(*                                                                         *)
(* The operations of the queue in memory hold its mutex and are atomic.    *)
(* On Valkey each command is atomic; a command or its answer may be lost,  *)
(* which the code takes for an empty stream or ignores.                    *)
(***************************************************************************)
EXTENDS Integers, Sequences, FiniteSetsExt

CONSTANTS
  Tasks,      \* calls of Enqueue
  IdOf,       \* IdOf[t]: its ID, which the caller may choose
  KindOf,     \* KindOf[t]: its kind
  Bad,        \* tasks whose message another program wrote, without valid data
  Workers,
  ProcOf,     \* ProcOf[w]: the process w runs in
  Asks,       \* Asks[w]: the kinds w claims, a sequence
  NoTask,
  MaxFaults   \* bound: commands lost, or restarts

Ids == {IdOf[t] : t \in Tasks}
Kinds == {KindOf[t] : t \in Tasks}
Procs == {ProcOf[w] : w \in Workers}

ASSUME WorkQueuesAssumption ==
  /\ NoTask \notin Tasks /\ Bad \subseteq Tasks
  /\ Asks \in [Workers -> Seq(Kinds)]
  /\ MaxFaults \in Nat

VARIABLES
  backend,   \* "memory" or "valkey"
  added,     \* tasks enqueued so far
  tasks,     \* q.tasks of the queue in memory
  status,    \* Status of the tasks in memory
  stream,    \* Valkey: stream[k], the messages not yet delivered to the group
  pel,       \* Valkey: messages delivered and not acknowledged
  stored,    \* Valkey: messages not deleted
  claimed,   \* q.claimed of each process: the message an ID was last claimed with
  pc,        \* where each worker is
  at,        \* the kind it has come to in Claim
  job,       \* the task it has
  handed,    \* history: <<t, w>> where t was handed to w
  excused,   \* history: tasks lost by a fault, or that share their ID
  faults     \* history: commands lost and restarts

memVars == <<tasks, status>>
valkeyVars == <<stream, pel, stored, claimed>>
workerVars == <<pc, at, job>>
vars == <<backend, added, memVars, valkeyVars, workerVars, handed, excused, faults>>

SameId(t) == {u \in Tasks : IdOf[u] = IdOf[t]}

(* The task of q.tasks that Claim returns: the first pending one of the     *)
(* kinds asked for, or of any kind if none is.  Mutant: whatever its status. *)
Claimable_Any(w) ==
  {i \in DOMAIN tasks : Len(Asks[w]) = 0 \/ \E k \in DOMAIN Asks[w] : Asks[w][k] = KindOf[tasks[i]]}

Claimable(w) ==
  {i \in DOMAIN tasks : /\ status[tasks[i]] = "pending"
                        /\ Len(Asks[w]) = 0 \/ \E k \in DOMAIN Asks[w] : Asks[w][k] = KindOf[tasks[i]]}

(* The task that Complete and Fail look up: the first with that ID. *)
WithId(id) == tasks[Min({i \in DOMAIN tasks : IdOf[tasks[i]] = id})]

(* Where Claim goes on after a kind that gave nothing.                      *)
(* Mutant: it gives up.                                                     *)
NextKind_None(w) == Len(Asks[w]) + 1

NextKind(w) == at[w] + 1

(* What Claim does with a message without valid data.                       *)
(* Mutant: it goes on to the next kind and leaves the message pending.      *)
Malformed_Skip(w) == "scan"

Malformed(w) == "dropAck"

----------------------------------------------------------------------------

Init ==
  /\ backend \in {"memory", "valkey"}
  /\ added = {} /\ handed = {} /\ excused = {} /\ faults = 0
  /\ tasks = <<>> /\ status = [t \in Tasks |-> "none"]
  /\ stream = [k \in Kinds |-> <<>>] /\ pel = {} /\ stored = {}
  /\ claimed = [p \in Procs |-> [id \in Ids |-> NoTask]]
  /\ pc = [w \in Workers |-> "idle"] /\ at = [w \in Workers |-> 1]
  /\ job = [w \in Workers |-> NoTask]

Add(t) ==
  /\ t \notin added
  /\ added' = added \cup {t}
  /\ excused' = IF SameId(t) \cap added = {} THEN excused ELSE excused \cup SameId(t)
  /\ UNCHANGED <<backend, workerVars, handed, faults>>

(* InMemoryQueue.Enqueue *)
MemEnqueue(t) ==
  /\ backend = "memory" /\ t \notin Bad
  /\ Add(t)
  /\ tasks' = Append(tasks, t) /\ status' = [status EXCEPT ![t] = "pending"]
  /\ UNCHANGED valkeyVars

(* ValkeyQueue.Enqueue: XADD. *)
ValkeyEnqueue(t) ==
  /\ backend = "valkey"
  /\ Add(t)
  /\ stream' = [stream EXCEPT ![KindOf[t]] = Append(@, t)]
  /\ stored' = stored \cup {t}
  /\ UNCHANGED <<memVars, pel, claimed>>

(* InMemoryQueue.Claim, which returns ErrNoTasks if there is none. *)
MemClaim(w) ==
  /\ backend = "memory" /\ pc[w] = "idle" /\ Claimable(w) # {}
  /\ LET t == tasks[Min(Claimable(w))] IN
       /\ status' = [status EXCEPT ![t] = "running"]
       /\ job' = [job EXCEPT ![w] = t] /\ handed' = handed \cup {<<t, w>>}
  /\ pc' = [pc EXCEPT ![w] = "busy"]
  /\ UNCHANGED <<backend, added, tasks, valkeyVars, at, excused, faults>>

(* InMemoryQueue.Complete and Fail. *)
MemSettle(w, s) ==
  /\ backend = "memory" /\ pc[w] = "busy"
  /\ status' = [status EXCEPT ![WithId(IdOf[job[w]])] = s]
  /\ pc' = [pc EXCEPT ![w] = "idle"] /\ job' = [job EXCEPT ![w] = NoTask]
  /\ UNCHANGED <<backend, added, tasks, valkeyVars, at, handed, excused, faults>>

MemComplete(w) == MemSettle(w, "completed")

MemFail(w) == MemSettle(w, "failed")

(* ValkeyQueue.Claim begins; without kinds it returns ErrNoTasks at once. *)
Scan(w) ==
  /\ backend = "valkey" /\ pc[w] = "idle" /\ Len(Asks[w]) > 0
  /\ pc' = [pc EXCEPT ![w] = "scan"] /\ at' = [at EXCEPT ![w] = 1]
  /\ UNCHANGED <<backend, added, memVars, valkeyVars, job, handed, excused, faults>>

(* XREADGROUP delivers the next message of the kind's stream to w. *)
Deliver(w, t) ==
  /\ pc[w] = "scan" /\ at[w] <= Len(Asks[w])
  /\ stream[Asks[w][at[w]]] # <<>> /\ t = Head(stream[Asks[w][at[w]]])
  /\ stream' = [stream EXCEPT ![KindOf[t]] = Tail(@)]
  /\ pel' = pel \cup {t} /\ handed' = handed \cup {<<t, w>>}
  /\ UNCHANGED <<backend, added, memVars, stored, claimed>>

ReadGroup(w, t) ==
  /\ Deliver(w, t)
  /\ pc' = [pc EXCEPT ![w] = IF t \in Bad THEN Malformed(w) ELSE "got"]
  /\ job' = [job EXCEPT ![w] = t]
  /\ at' = IF t \in Bad THEN [at EXCEPT ![w] = NextKind(w)] ELSE at
  /\ UNCHANGED <<excused, faults>>

(* The stream is empty: on to the next kind. *)
ReadNothing(w) ==
  /\ pc[w] = "scan" /\ at[w] <= Len(Asks[w]) /\ stream[Asks[w][at[w]]] = <<>>
  /\ at' = [at EXCEPT ![w] = NextKind(w)]
  /\ UNCHANGED <<backend, added, memVars, valkeyVars, pc, job, handed, excused, faults>>

(* XREADGROUP, or the XGROUP CREATE before it, fails: on to the next kind. *)
ReadFails(w) ==
  /\ faults < MaxFaults /\ faults' = faults + 1
  /\ pc[w] = "scan" /\ at[w] <= Len(Asks[w])
  /\ at' = [at EXCEPT ![w] = NextKind(w)]
  /\ UNCHANGED <<backend, added, memVars, valkeyVars, pc, job, handed, excused>>

(* XREADGROUP's answer is lost: Claim goes on, the group has delivered. *)
ReadLost(w, t) ==
  /\ faults < MaxFaults /\ faults' = faults + 1
  /\ Deliver(w, t)
  /\ excused' = excused \cup {t}
  /\ at' = [at EXCEPT ![w] = NextKind(w)]
  /\ UNCHANGED <<pc, job>>

(* All kinds tried: ErrNoTasks. *)
NoTasks(w) ==
  /\ pc[w] = "scan" /\ at[w] > Len(Asks[w])
  /\ pc' = [pc EXCEPT ![w] = "idle"]
  /\ UNCHANGED <<backend, added, memVars, valkeyVars, at, job, handed, excused, faults>>

(* Claim notes the message under its task's ID and returns the task. *)
Remember(w) ==
  /\ pc[w] = "got"
  /\ claimed' = [claimed EXCEPT ![ProcOf[w]][IdOf[job[w]]] = job[w]]
  /\ pc' = [pc EXCEPT ![w] = "busy"]
  /\ UNCHANGED <<backend, added, memVars, stream, pel, stored, at, job, handed, excused, faults>>

(* ValkeyQueue.Complete, and Fail, which is the same, up to the unlock. *)
Forget(w) ==
  /\ backend = "valkey" /\ pc[w] = "busy"
  /\ LET t == claimed[ProcOf[w]][IdOf[job[w]]] IN
       /\ pc' = [pc EXCEPT ![w] = IF t = NoTask THEN "idle" ELSE "ack"]
       /\ job' = [job EXCEPT ![w] = t]
  /\ claimed' = [claimed EXCEPT ![ProcOf[w]][IdOf[job[w]]] = NoTask]
  /\ UNCHANGED <<backend, added, memVars, stream, pel, stored, at, handed, excused, faults>>

(* ackAndDel of a task or, in Claim, of a malformed message: XACK ... *)
Ack(w) ==
  /\ pc[w] \in {"ack", "dropAck"}
  /\ pel' = pel \ {job[w]}
  /\ pc' = [pc EXCEPT ![w] = IF pc[w] = "ack" THEN "del" ELSE "dropDel"]
  /\ UNCHANGED <<backend, added, memVars, stream, stored, claimed, at, job, handed, excused, faults>>

(* ... and XDEL. *)
Del(w) ==
  /\ pc[w] \in {"del", "dropDel"}
  /\ stored' = stored \ {job[w]}
  /\ pc' = [pc EXCEPT ![w] = IF pc[w] = "del" THEN "idle" ELSE "scan"]
  /\ job' = [job EXCEPT ![w] = NoTask]
  /\ UNCHANGED <<backend, added, memVars, stream, pel, claimed, at, handed, excused, faults>>

(* XACK fails, which ackAndDel ignores. *)
AckLost(w) ==
  /\ faults < MaxFaults /\ faults' = faults + 1
  /\ pc[w] \in {"ack", "dropAck"}
  /\ pc' = [pc EXCEPT ![w] = IF pc[w] = "ack" THEN "del" ELSE "dropDel"]
  /\ excused' = excused \cup {job[w]}
  /\ UNCHANGED <<backend, added, memVars, valkeyVars, at, job, handed>>

(* XDEL fails, which it ignores, too. *)
DelLost(w) ==
  /\ faults < MaxFaults /\ faults' = faults + 1
  /\ pc[w] \in {"del", "dropDel"}
  /\ pc' = [pc EXCEPT ![w] = IF pc[w] = "del" THEN "idle" ELSE "scan"]
  /\ job' = [job EXCEPT ![w] = NoTask]
  /\ UNCHANGED <<backend, added, memVars, valkeyVars, at, handed, excused>>

(* A process restarts: its workers, its memory and what it had claimed are   *)
(* gone.  The queue in memory is that of the one process there is then.      *)
Restart(p) ==
  LET gone == {w \in Workers : backend = "memory" \/ ProcOf[w] = p} IN
  /\ faults < MaxFaults /\ faults' = faults + 1
  /\ tasks' = <<>>
  /\ claimed' = [claimed EXCEPT ![p] = [id \in Ids |-> NoTask]]
  /\ excused' = excused \cup {job[w] : w \in gone} \cup Range(tasks)
  /\ pc' = [w \in Workers |-> IF w \in gone THEN "idle" ELSE pc[w]]
  /\ at' = [w \in Workers |-> IF w \in gone THEN 1 ELSE at[w]]
  /\ job' = [w \in Workers |-> IF w \in gone THEN NoTask ELSE job[w]]
  /\ UNCHANGED <<backend, added, status, stream, pel, stored, handed>>

ClaimStep(w) ==
  \/ MemClaim(w) \/ Scan(w) \/ ReadNothing(w) \/ NoTasks(w) \/ Remember(w) \/ Ack(w) \/ Del(w)
  \/ \E t \in Tasks : ReadGroup(w, t)

Next ==
  \/ \E t \in Tasks : \/ MemEnqueue(t) \/ ValkeyEnqueue(t)
                     \/ \E w \in Workers : ReadLost(w, t)
  \/ \E w \in Workers : \/ ClaimStep(w) \/ MemComplete(w) \/ MemFail(w) \/ Forget(w)
                       \/ ReadFails(w) \/ AckLost(w) \/ DelLost(w)
  \/ \E p \in Procs : Restart(p)

Spec == Init /\ [][Next]_vars

(* Workers keep claiming and finish what they claim. *)
Fairness == \A w \in Workers : WF_vars(ClaimStep(w) \/ MemComplete(w) \/ Forget(w))

LiveSpec == Spec /\ Fairness

----------------------------------------------------------------------------

(* With either queue a task is handed to one worker at most and never comes  *)
(* back: the queue implements TaskQueue, where only a task that shares its   *)
(* ID with another may be settled before it is handed to anyone (Complete in *)
(* memory takes the first with the ID).                                      *)
Unread == UNION {Range(stream[k]) : k \in Kinds}
Waiting(t) == IF backend = "memory" THEN status[t] = "pending" ELSE t \in Unread
Held(t) == IF backend = "memory" THEN status[t] = "running" ELSE t \in pel \cap stored
StateOf(t) ==
  IF t \notin added THEN "new"
  ELSE IF Waiting(t) THEN "queued" ELSE IF Held(t) THEN "held" ELSE "settled"
State == [t \in Tasks |-> StateOf(t)]
Abstract == INSTANCE TaskQueue WITH
  state <- State, holder <- handed,
  Discardable <- {t \in Tasks : SameId(t) # {t}}
IsTaskQueue == Abstract!Spec

(* A message that the group has delivered and that is not acknowledged is in *)
(* the hands of a worker.  What is not, nothing would ever deliver again: it *)
(* takes a restart, a lost answer or a second task with its ID.              *)
PendingIsInHand ==
  \A t \in pel : t \in excused \/ \E w \in Workers : job[w] = t

(* What is in a stream, or pending in memory, and whose kind a worker asks   *)
(* for, is claimed in the end, also if the kinds before it have no tasks.    *)
QueuedIsClaimed ==
  \A t \in Tasks :
    (t \in added /\ \E w \in Workers : \E k \in DOMAIN Asks[w] : Asks[w][k] = KindOf[t])
      ~> (StateOf(t) # "queued" \/ t \in excused)

=============================================================================
