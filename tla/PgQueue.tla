------------------------------ MODULE PgQueue ------------------------------
(***************************************************************************)
(* The PostgreSQL task queue of work/pg_queue.go, the workers that use it  *)
(* through the Queue interface, the stale-task recovery goroutine and the  *)
(* cancel handler of platform/task.                                        *)
(*                                                                         *)
(* One action is one database round trip: a statement that PostgreSQL runs *)
(* atomically.  Claim is a transaction of two statements, the first of     *)
(* which leaves the row locked; Fail is two statements without one.        *)
(*                                                                         *)
(* Time is kept relative to now: claimAge[t] is how long ago claimed_at    *)
(* was, and retryIn[t] how far ahead retry_after is.  The unit is the 5    *)
(* seconds of the backoff.                                                 *)
(***************************************************************************)
EXTENDS Integers, FiniteSets

CONSTANTS
  Tasks,         \* ids of task records
  Workers,       \* callers of Claim, Complete and Fail, one claim at a time
  Kinds,         \* task kinds
  KindOf,        \* the kind each task is enqueued with
  NoTask,        \* the job of a worker that has none
  MaxAttempts,   \* max_attempts of every record (3 in Enqueue)
  BackoffCap,    \* the 5 minutes that cap the backoff
  StaleTimeout,  \* the age after which a claim is stale
  MaxClaims      \* bound: how often the model lets one task be claimed

ASSUME PgQueueAssumption ==
  /\ IsFiniteSet(Tasks)
  /\ NoTask \notin Tasks
  /\ KindOf \in [Tasks -> Kinds]
  /\ MaxAttempts \in Nat \ {0}
  /\ BackoffCap \in Nat
  /\ StaleTimeout \in Nat
  /\ MaxClaims \in Nat

VARIABLES
  status,     \* the status column; "absent" before Enqueue
  attempts,   \* the attempts column
  claimAge,   \* now - claimed_at, or NoClaim when claimed_at is NULL
  retryIn,    \* retry_after - now, 0 once it has passed or when it is NULL
  created,    \* rank of created_at, 0 before Enqueue
  pc,         \* where each worker is
  job,        \* the record each worker has locked or is working on
  seen,       \* attempts in the copy of the row that Claim or Fail has read
  claimNo,    \* history: attempts as this worker's own claim left it
  recovered   \* history: tasks the recovery has reset at least once

rows == <<status, attempts, claimAge, retryIn, created>>
workers == <<pc, job, seen, claimNo>>
vars == <<rows, workers, recovered>>

NoClaim == -1
TaskStatus == {"pending", "running", "completed", "failed"}

(* A row is locked between the two statements of a Claim transaction.       *)
(* Mutant: the SELECT takes no lock.                                        *)
Locked_Never(t) == FALSE

Locked(t) == \E w \in Workers : pc[w] = "locked" /\ job[w] = t

(* The workers that process t: their Claim of it has committed. *)
Holders(t) == {w \in Workers : pc[w] \in {"working", "failing"} /\ job[w] = t}

(* min(5s << attempts, 5min), in units of 5s. *)
Backoff(n) == IF 2^n \in 0 .. BackoffCap THEN 2^n ELSE BackoffCap

(* A pending task whose retry_after has passed.                             *)
(* Mutant: the status is not compared.                                      *)
Ready_AnyStatus(t) == status[t] # "absent" /\ retryIn[t] = 0

Ready(t) == status[t] = "pending" /\ retryIn[t] = 0

(* Whether Fail requeues a task it read with n attempts.                    *)
(* Mutant: one attempt too many.                                            *)
RetryLeft_OneMore(n) == n <= MaxAttempts

RetryLeft(n) == n < MaxAttempts

(* The states a task can be cancelled from.                                 *)
Cancellable == {"pending", "running"}

(* The rows Claim's SELECT ... SKIP LOCKED may return.  MaxClaims is the    *)
(* model's bound, not a condition of the query.                             *)
Claimable(kinds) ==
  {t \in Tasks : /\ Ready(t)
                 /\ kinds = {} \/ KindOf[t] \in kinds
                 /\ ~Locked(t)
                 /\ attempts[t] < MaxClaims}

----------------------------------------------------------------------------

Init ==
  /\ status = [t \in Tasks |-> "absent"]
  /\ attempts = [t \in Tasks |-> 0]
  /\ claimAge = [t \in Tasks |-> NoClaim]
  /\ retryIn = [t \in Tasks |-> 0]
  /\ created = [t \in Tasks |-> 0]
  /\ pc = [w \in Workers |-> "idle"]
  /\ job = [w \in Workers |-> NoTask]
  /\ seen = [w \in Workers |-> 0]
  /\ claimNo = [w \in Workers |-> 0]
  /\ recovered = {}

(* INSERT: an id that already has a record is a primary key error. *)
Enqueue(t) ==
  /\ status[t] = "absent"
  /\ status' = [status EXCEPT ![t] = "pending"]
  /\ created' = [created EXCEPT
                   ![t] = Cardinality({u \in Tasks : status[u] # "absent"}) + 1]
  /\ UNCHANGED <<attempts, claimAge, retryIn, workers, recovered>>

(* The transaction's SELECT locks the oldest row it may take.  When there is *)
(* none, Claim returns ErrNoTasks and nothing changes.                       *)
ClaimSelect(w, kinds) ==
  /\ pc[w] = "idle"
  /\ \E t \in Claimable(kinds) :
       /\ \A u \in Claimable(kinds) : created[t] <= created[u]
       /\ job' = [job EXCEPT ![w] = t]
       /\ seen' = [seen EXCEPT ![w] = attempts[t]]
  /\ pc' = [pc EXCEPT ![w] = "locked"]
  /\ UNCHANGED <<rows, claimNo, recovered>>

(* The transaction saves the copy it has read, with attempts incremented,    *)
(* and commits; the lock is released.                                        *)
ClaimSave(w) ==
  LET t == job[w] IN
  /\ pc[w] = "locked"
  /\ status' = [status EXCEPT ![t] = "running"]
  /\ claimAge' = [claimAge EXCEPT ![t] = 0]
  /\ attempts' = [attempts EXCEPT ![t] = seen[w] + 1]
  /\ claimNo' = [claimNo EXCEPT ![w] = seen[w] + 1]
  /\ pc' = [pc EXCEPT ![w] = "working"]
  /\ UNCHANGED <<retryIn, created, job, seen, recovered>>

(* The worker lets go of its task. *)
Release(w) ==
  /\ pc' = [pc EXCEPT ![w] = "idle"]
  /\ job' = [job EXCEPT ![w] = NoTask]
  /\ seen' = [seen EXCEPT ![w] = 0]
  /\ claimNo' = [claimNo EXCEPT ![w] = 0]

(* UPDATE by id alone: neither the status nor the claimant is compared. *)
Complete(w) ==
  LET t == job[w] IN
  /\ pc[w] = "working"
  /\ ~Locked(t)
  /\ status' = [status EXCEPT ![t] = "completed"]
  /\ Release(w)
  /\ UNCHANGED <<attempts, claimAge, retryIn, created, recovered>>

(* Fail's SELECT, which waits for no lock. *)
FailRead(w) ==
  /\ pc[w] = "working"
  /\ seen' = [seen EXCEPT ![w] = attempts[job[w]]]
  /\ pc' = [pc EXCEPT ![w] = "failing"]
  /\ UNCHANGED <<rows, job, claimNo, recovered>>

(* Fail's UPDATE by id, decided by the attempts read before. *)
FailWrite(w) ==
  LET t == job[w]
      retry == RetryLeft(seen[w]) IN
  /\ pc[w] = "failing"
  /\ ~Locked(t)
  /\ status' = [status EXCEPT ![t] = IF retry THEN "pending" ELSE "failed"]
  /\ retryIn' = [retryIn EXCEPT ![t] = IF retry THEN Backoff(seen[w]) ELSE @]
  /\ Release(w)
  /\ UNCHANGED <<attempts, claimAge, created, recovered>>

(* A worker crashes, or a call of its returns a database error: an open      *)
(* transaction is rolled back, and the claim is forgotten, not returned.     *)
Abandon(w) ==
  /\ pc[w] # "idle"
  /\ Release(w)
  /\ UNCHANGED <<rows, recovered>>

(* The rows whose claim is stale.                                            *)
(* Mutant: a task that has used up its attempts is left alone.               *)
Stale_Retriable == {t \in Tasks : /\ status[t] = "running"
                                  /\ claimAge[t] > StaleTimeout
                                  /\ RetryLeft(attempts[t])}

Stale == {t \in Tasks : status[t] = "running" /\ claimAge[t] > StaleTimeout}

(* One tick of StartRecovery: a single UPDATE. *)
Recover ==
  /\ Stale # {}
  /\ status' = [t \in Tasks |-> IF t \in Stale THEN "pending" ELSE status[t]]
  /\ claimAge' = [t \in Tasks |-> IF t \in Stale THEN NoClaim ELSE claimAge[t]]
  /\ recovered' = recovered \cup Stale
  /\ UNCHANGED <<attempts, retryIn, created, workers>>

(* UPDATE ... WHERE status IN (pending, running); it waits for a lock. *)
CancelTask(t) ==
  /\ status[t] \in Cancellable
  /\ ~Locked(t)
  /\ status' = [status EXCEPT ![t] = "failed"]
  /\ UNCHANGED <<attempts, claimAge, retryIn, created, workers, recovered>>

(* The time left of n after 5 seconds. *)
Left(n) == IF n > 0 THEN n - 1 ELSE 0

(* 5 seconds pass.  An age beyond the stale timeout is as good as any other. *)
Tick ==
  /\ claimAge' = [t \in Tasks |-> IF claimAge[t] \in 0 .. StaleTimeout
                                  THEN claimAge[t] + 1 ELSE claimAge[t]]
  /\ retryIn' = [t \in Tasks |-> Left(retryIn[t])]
  /\ UNCHANGED <<status, attempts, created, workers, recovered>>

WorkerStep(w) ==
  \/ \E kinds \in SUBSET Kinds : ClaimSelect(w, kinds)
  \/ ClaimSave(w)
  \/ Complete(w)
  \/ FailRead(w)
  \/ FailWrite(w)
  \/ Abandon(w)

Next ==
  \/ \E t \in Tasks : Enqueue(t) \/ CancelTask(t)
  \/ \E w \in Workers : WorkerStep(w)
  \/ Recover
  \/ Tick

Spec == Init /\ [][Next]_vars

(* Time passes and the recovery ticker fires: both are goroutines of the     *)
(* server that nothing blocks.                                               *)
RecoveryFairness == WF_vars(Tick) /\ WF_vars(Recover)

(* Workers keep claiming, finish what they claimed, and are not rolled back  *)
(* for ever.                                                                 *)
WorkerFairness ==
  /\ \A w \in Workers : /\ WF_vars(ClaimSelect(w, {}))
                         /\ WF_vars(Complete(w) \/ FailRead(w))
                         /\ WF_vars(FailWrite(w))
  /\ SF_vars(\E w \in Workers : ClaimSave(w))

LiveSpec == Spec /\ RecoveryFairness /\ WorkerFairness

----------------------------------------------------------------------------

(* Every column and every worker's local variable stays in its type. *)
TypeOK ==
  /\ status \in [Tasks -> TaskStatus \cup {"absent"}]
  /\ attempts \in [Tasks -> Nat]
  /\ claimAge \in [Tasks -> Nat \cup {NoClaim}]
  /\ retryIn \in [Tasks -> Nat]
  /\ created \in [Tasks -> Nat]
  /\ pc \in [Workers -> {"idle", "locked", "working", "failing"}]
  /\ job \in [Workers -> Tasks \cup {NoTask}]
  /\ \A w \in Workers : pc[w] # "idle" => job[w] \in Tasks
  /\ seen \in [Workers -> Nat]
  /\ claimNo \in [Workers -> Nat]
  /\ recovered \in SUBSET Tasks

(* No two workers work on the same claim: each committed Claim of a task got *)
(* an attempts value of its own, because the row stayed locked between the   *)
(* SELECT and the UPDATE of the transaction, whatever recovery, late Fails   *)
(* and cancellations did to the row in between.                              *)
ClaimsAreDistinct ==
  \A t \in Tasks : \A v, w \in Holders(t) : claimNo[v] = claimNo[w] => v = w

(* A task the recovery never reset is processed by at most one worker, also  *)
(* while it is cancelled under that worker or being failed by it.            *)
SoleHolderUnlessRecovered ==
  \A t \in Tasks \ recovered : \A v, w \in Holders(t) : v = w

(* A task the recovery never reset is run at most max_attempts times, though *)
(* Fail decides on an attempts value it read in an earlier statement.        *)
BudgetUnlessRecovered ==
  \A t \in Tasks \ recovered : attempts[t] <= MaxAttempts

(* A completed or failed row that no worker holds any more never changes:    *)
(* not by a claim, the recovery or a cancellation.                           *)
SettledIsFinal ==
  [][\A t \in Tasks : status[t] \in {"completed", "failed"} /\ Holders(t) = {}
                        => status'[t] = status[t]]_vars

(* A task that completed without ever having been recovered stays completed: *)
(* nobody is left whose late Fail could requeue it.                          *)
CompletedUnlessRecovered ==
  [][\A t \in Tasks \ recovered : status[t] = "completed"
                                     => status'[t] = "completed"]_vars

(* Every task enqueued is eventually completed or failed, through crashes,   *)
(* retries and recoveries, unless the model's bound on claims stops it.      *)
EventuallySettled ==
  \A t \in Tasks : (status[t] = "pending")
       ~> (status[t] \in {"completed", "failed"} \/ attempts[t] = MaxClaims)

=============================================================================
