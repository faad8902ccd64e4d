--------------------------- MODULE PgQueueProofs ---------------------------
(***************************************************************************)
(* Proofs about PgQueue, for any number of tasks and workers and any value *)
(* of the limits.  IInv is the inductive invariant: the checked invariants *)
(* and what they need to know of locked rows, of rows nobody has enqueued  *)
(* and of the claims still being worked on.                                *)
(***************************************************************************)
EXTENDS PgQueue, FiniteSetTheorems, TLAPS

Holds(w, t) == pc[w] \in {"working", "failing"} /\ job[w] = t

(* A locked row is pending, locked once, and as the transaction read it. *)
LockInv ==
  \A w \in Workers : pc[w] = "locked" =>
    /\ status[job[w]] = "pending"
    /\ seen[w] = attempts[job[w]]
    /\ \A v \in Workers : pc[v] = "locked" /\ job[v] = job[w] => v = w

(* Nobody knows of a task that is not enqueued. *)
AbsentInv ==
  \A t \in Tasks : status[t] = "absent" =>
    /\ attempts[t] = 0
    /\ \A w \in Workers : ~Holds(w, t)

(* Claims are numbered, and no number is given twice. *)
ClaimInv ==
  \A t \in Tasks : \A w \in Workers : Holds(w, t) =>
    /\ claimNo[w] <= attempts[t]
    /\ \A v \in Workers : Holds(v, t) /\ claimNo[v] = claimNo[w] => v = w

(* Until the recovery resets it, a task has one holder at most, none while   *)
(* pending or completed, and stays within its attempts.                      *)
BudgetInv ==
  \A t \in Tasks \ recovered :
    /\ attempts[t] <= MaxAttempts
    /\ status[t] = "pending" => attempts[t] < MaxAttempts
    /\ \A w \in Workers : Holds(w, t) =>
         /\ status[t] \notin {"pending", "completed"}
         /\ pc[w] = "failing" => seen[w] = attempts[t]
         /\ \A v \in Workers : Holds(v, t) => v = w

IInv == TypeOK /\ LockInv /\ AbsentInv /\ ClaimInv /\ BudgetInv

(* Initially no task is enqueued and no worker has a job. *)
LEMMA InitIInv == Init => IInv
  BY PgQueueAssumption
  DEF Init, IInv, TypeOK, LockInv, AbsentInv, ClaimInv, BudgetInv, Holds, NoClaim, TaskStatus

(* A new row has no attempts and no holder. *)
LEMMA EnqueueIInv ==
  ASSUME IInv, NEW x \in Tasks, Enqueue(x)
  PROVE  IInv'
  <1> USE PgQueueAssumption DEF IInv, Enqueue, rows, workers, Holds
  <1>1. TypeOK'
    <2>1. Cardinality({u \in Tasks : status[u] # "absent"}) + 1 \in Nat
      BY FS_Subset, FS_CardinalityType
    <2> QED BY <2>1 DEF TypeOK, TaskStatus
  <1>2. LockInv'
    BY DEF TypeOK, LockInv
  <1>3. AbsentInv'
    BY DEF TypeOK, AbsentInv
  <1>4. ClaimInv'
    BY DEF TypeOK, ClaimInv
  <1>5. BudgetInv'
    BY DEF TypeOK, BudgetInv, AbsentInv
  <1> QED BY <1>1, <1>2, <1>3, <1>4, <1>5

(* Claim's SELECT locks a pending row that was not locked and copies it. *)
LEMMA ClaimSelectIInv ==
  ASSUME IInv, NEW w \in Workers, NEW kinds, ClaimSelect(w, kinds)
  PROVE  IInv'
  <1> USE PgQueueAssumption DEF IInv, ClaimSelect, Claimable, Ready, Locked, rows, workers, Holds
  <1>1. TypeOK'
    BY DEF TypeOK, TaskStatus, NoClaim
  <1>2. LockInv'
    BY DEF TypeOK, LockInv
  <1>3. AbsentInv'
    BY DEF TypeOK, AbsentInv
  <1>4. ClaimInv'
    BY DEF TypeOK, ClaimInv
  <1>5. BudgetInv'
    BY DEF TypeOK, BudgetInv
  <1> QED BY <1>1, <1>2, <1>3, <1>4, <1>5

(* Claim's UPDATE numbers the claim one above every earlier one. *)
LEMMA ClaimSaveIInv ==
  ASSUME IInv, NEW w \in Workers, ClaimSave(w)
  PROVE  IInv'
  <1> USE PgQueueAssumption DEF IInv, ClaimSave, rows, workers, Holds
  <1>1. TypeOK'
    BY DEF TypeOK, TaskStatus, NoClaim
  <1>2. LockInv'
    BY DEF TypeOK, LockInv
  <1>3. AbsentInv'
    BY DEF TypeOK, LockInv, AbsentInv
  <1>4. ClaimInv'
    BY DEF TypeOK, LockInv, ClaimInv
  <1>5. BudgetInv'
    BY DEF TypeOK, LockInv, BudgetInv
  <1> QED BY <1>1, <1>2, <1>3, <1>4, <1>5

(* Complete leaves a task that was never recovered without a holder. *)
LEMMA CompleteIInv ==
  ASSUME IInv, NEW w \in Workers, Complete(w)
  PROVE  IInv'
  <1> USE PgQueueAssumption DEF IInv, Complete, Release, Locked, rows, workers, Holds
  <1>1. TypeOK'
    BY DEF TypeOK, TaskStatus, NoClaim
  <1>2. LockInv'
    BY DEF TypeOK, LockInv
  <1>3. AbsentInv'
    BY DEF TypeOK, AbsentInv
  <1>4. ClaimInv'
    BY DEF TypeOK, ClaimInv
  <1>5. BudgetInv'
    BY DEF TypeOK, BudgetInv
  <1> QED BY <1>1, <1>2, <1>3, <1>4, <1>5

(* Fail reads the attempts of the sole holder's own claim. *)
LEMMA FailReadIInv ==
  ASSUME IInv, NEW w \in Workers, FailRead(w)
  PROVE  IInv'
  <1> USE PgQueueAssumption DEF IInv, FailRead, rows, workers, Holds
  <1>1. TypeOK'
    BY DEF TypeOK, TaskStatus, NoClaim
  <1>2. LockInv'
    BY DEF TypeOK, LockInv
  <1>3. AbsentInv'
    BY DEF TypeOK, AbsentInv
  <1>4. ClaimInv'
    BY DEF TypeOK, ClaimInv
  <1>5. BudgetInv'
    BY DEF TypeOK, BudgetInv
  <1> QED BY <1>1, <1>2, <1>3, <1>4, <1>5

(* Fail's UPDATE requeues a task only within its attempts. *)
LEMMA FailWriteIInv ==
  ASSUME IInv, NEW w \in Workers, FailWrite(w)
  PROVE  IInv'
  <1> USE PgQueueAssumption DEF IInv, FailWrite, Release, Locked, RetryLeft, Backoff, rows, workers, Holds
  <1>1. TypeOK'
    BY DEF TypeOK, TaskStatus, NoClaim
  <1>2. LockInv'
    BY DEF TypeOK, LockInv
  <1>3. AbsentInv'
    BY DEF TypeOK, AbsentInv
  <1>4. ClaimInv'
    BY DEF TypeOK, ClaimInv
  <1>5. BudgetInv'
    BY DEF TypeOK, BudgetInv
  <1> QED BY <1>1, <1>2, <1>3, <1>4, <1>5

(* A worker that goes away takes its claim with it. *)
LEMMA AbandonIInv ==
  ASSUME IInv, NEW w \in Workers, Abandon(w)
  PROVE  IInv'
  <1> USE PgQueueAssumption DEF IInv, Abandon, Release, rows, workers, Holds
  <1>1. TypeOK'
    BY DEF TypeOK, TaskStatus, NoClaim
  <1>2. LockInv'
    BY DEF TypeOK, LockInv
  <1>3. AbsentInv'
    BY DEF TypeOK, AbsentInv
  <1>4. ClaimInv'
    BY DEF TypeOK, ClaimInv
  <1>5. BudgetInv'
    BY DEF TypeOK, BudgetInv
  <1> QED BY <1>1, <1>2, <1>3, <1>4, <1>5

(* The recovery touches running rows only, and marks them recovered. *)
LEMMA RecoverIInv ==
  ASSUME IInv, Recover
  PROVE  IInv'
  <1> USE PgQueueAssumption DEF IInv, Recover, Stale, rows, workers, Holds
  <1>1. TypeOK'
    BY DEF TypeOK, TaskStatus, NoClaim
  <1>2. LockInv'
    BY DEF TypeOK, LockInv
  <1>3. AbsentInv'
    BY DEF TypeOK, AbsentInv
  <1>4. ClaimInv'
    BY DEF TypeOK, ClaimInv
  <1>5. BudgetInv'
    BY DEF TypeOK, BudgetInv
  <1> QED BY <1>1, <1>2, <1>3, <1>4, <1>5

(* Cancelling takes no claim from its holder and no row under a lock. *)
LEMMA CancelTaskIInv ==
  ASSUME IInv, NEW x \in Tasks, CancelTask(x)
  PROVE  IInv'
  <1> USE PgQueueAssumption DEF IInv, CancelTask, Cancellable, Locked, rows, workers, Holds
  <1>1. TypeOK'
    BY DEF TypeOK, TaskStatus, NoClaim
  <1>2. LockInv'
    BY DEF TypeOK, LockInv
  <1>3. AbsentInv'
    BY DEF TypeOK, AbsentInv
  <1>4. ClaimInv'
    BY DEF TypeOK, ClaimInv
  <1>5. BudgetInv'
    BY DEF TypeOK, BudgetInv
  <1> QED BY <1>1, <1>2, <1>3, <1>4, <1>5

(* Time changes no status, no attempts and no worker. *)
LEMMA TickIInv ==
  ASSUME IInv, Tick
  PROVE  IInv'
  <1> USE PgQueueAssumption DEF IInv, Tick, Left, rows, workers, Holds
  <1>1. TypeOK'
    BY DEF TypeOK, TaskStatus, NoClaim
  <1>2. LockInv'
    BY DEF TypeOK, LockInv
  <1>3. AbsentInv'
    BY DEF TypeOK, AbsentInv
  <1>4. ClaimInv'
    BY DEF TypeOK, ClaimInv
  <1>5. BudgetInv'
    BY DEF TypeOK, BudgetInv
  <1> QED BY <1>1, <1>2, <1>3, <1>4, <1>5

(* IInv is inductive: one case per action. *)
LEMMA NextIInv == IInv /\ [Next]_vars => IInv'
  <1> SUFFICES ASSUME IInv, [Next]_vars PROVE IInv'
    OBVIOUS
  <1>1. CASE \E t \in Tasks : Enqueue(t) \/ CancelTask(t)
    BY <1>1, EnqueueIInv, CancelTaskIInv
  <1>2. CASE \E w \in Workers : WorkerStep(w)
    BY <1>2, ClaimSelectIInv, ClaimSaveIInv, CompleteIInv, FailReadIInv,
       FailWriteIInv, AbandonIInv DEF WorkerStep
  <1>3. CASE Recover
    BY <1>3, RecoverIInv
  <1>4. CASE Tick
    BY <1>4, TickIInv
  <1>5. CASE UNCHANGED vars
    BY <1>5 DEF vars, rows, workers, IInv, TypeOK, LockInv, AbsentInv,
       ClaimInv, BudgetInv, Holds
  <1> QED BY <1>1, <1>2, <1>3, <1>4, <1>5 DEF Next

(* IInv holds in every reachable state. *)
THEOREM IInvAlways == Spec => []IInv
  BY InitIInv, NextIInv, PTL DEF Spec

(* The rows and the workers' local variables stay in their types. *)
THEOREM TypeCorrect == Spec => []TypeOK
  <1>1. IInv => TypeOK
    BY DEF IInv
  <1> QED BY <1>1, IInvAlways, PTL

(* Claim gives no claim of a task to two workers, with any number of workers, *)
(* recoveries, late Fails and cancellations.                                 *)
THEOREM ClaimsDistinct == Spec => []ClaimsAreDistinct
  <1>1. IInv => ClaimsAreDistinct
    BY DEF IInv, ClaimInv, ClaimsAreDistinct, Holders, Holds
  <1> QED BY <1>1, IInvAlways, PTL

(* A task the recovery never reset has one holder at most. *)
THEOREM SoleHolder == Spec => []SoleHolderUnlessRecovered
  <1>1. IInv => SoleHolderUnlessRecovered
    BY DEF IInv, BudgetInv, SoleHolderUnlessRecovered, Holders, Holds
  <1> QED BY <1>1, IInvAlways, PTL

(* A task the recovery never reset is run max_attempts times at most. *)
THEOREM Budget == Spec => []BudgetUnlessRecovered
  <1>1. IInv => BudgetUnlessRecovered
    BY DEF IInv, BudgetInv, BudgetUnlessRecovered
  <1> QED BY <1>1, IInvAlways, PTL

(* A completed or failed row changes only by a worker that still holds it. *)
THEOREM SettledFinal == Spec => SettledIsFinal
  <1> DEFINE Final == \A t \in Tasks :
        status[t] \in {"completed", "failed"} /\ Holders(t) = {}
          => status'[t] = status[t]
  <1>1. IInv /\ [Next]_vars => [Final]_vars
    <2> SUFFICES ASSUME IInv, Next, NEW t \in Tasks,
                        status[t] \in {"completed", "failed"}, Holders(t) = {}
                 PROVE  status'[t] = status[t]
      OBVIOUS
    <2> USE DEF IInv, TypeOK, LockInv, Holders, rows, workers
    <2>1. ASSUME NEW x \in Tasks, Enqueue(x) \/ CancelTask(x)
          PROVE  status'[t] = status[t]
      BY <2>1 DEF Enqueue, CancelTask, Cancellable
    <2>2. ASSUME NEW w \in Workers, WorkerStep(w)
          PROVE  status'[t] = status[t]
      <3>1. CASE ClaimSave(w)
        BY <3>1 DEF ClaimSave
      <3>2. CASE Complete(w) \/ FailWrite(w)
        BY <3>2 DEF Complete, FailWrite
      <3> QED BY <2>2, <3>1, <3>2 DEF WorkerStep, ClaimSelect, FailRead, Abandon
    <2>3. CASE Recover
      BY <2>3 DEF Recover, Stale
    <2>4. CASE Tick
      BY <2>4 DEF Tick
    <2> QED BY <2>1, <2>2, <2>3, <2>4 DEF Next
  <1> QED BY <1>1, IInvAlways, PTL DEF Spec, SettledIsFinal

(* A task completed without ever having been recovered stays completed. *)
THEOREM CompletedFinal == Spec => CompletedUnlessRecovered
  <1> DEFINE Final == \A t \in Tasks \ recovered :
        status[t] = "completed" => status'[t] = "completed"
  <1>1. IInv /\ [Next]_vars => [Final]_vars
    <2> SUFFICES ASSUME IInv, Next, NEW t \in Tasks \ recovered,
                        status[t] = "completed"
                 PROVE  status'[t] = "completed"
      OBVIOUS
    <2> USE DEF IInv, TypeOK, LockInv, BudgetInv, Holds, rows, workers
    <2>1. ASSUME NEW x \in Tasks, Enqueue(x) \/ CancelTask(x)
          PROVE  status'[t] = status[t]
      BY <2>1 DEF Enqueue, CancelTask, Cancellable
    <2>2. ASSUME NEW w \in Workers, WorkerStep(w)
          PROVE  status'[t] = status[t]
      <3>1. CASE ClaimSave(w)
        BY <3>1 DEF ClaimSave
      <3>2. CASE Complete(w) \/ FailWrite(w)
        BY <3>2 DEF Complete, FailWrite
      <3> QED BY <2>2, <3>1, <3>2 DEF WorkerStep, ClaimSelect, FailRead, Abandon
    <2>3. CASE Recover
      BY <2>3 DEF Recover, Stale
    <2>4. CASE Tick
      BY <2>4 DEF Tick
    <2> QED BY <2>1, <2>2, <2>3, <2>4 DEF Next
  <1> QED BY <1>1, IInvAlways, PTL DEF Spec, CompletedUnlessRecovered

(* The attempts column counts the claims: a committed Claim adds one to it,  *)
(* though it writes back a copy it read in an earlier statement, and nothing *)
(* else, not a failure, a recovery or a cancellation, adds or loses any.     *)
THEOREM AttemptsCountClaims ==
  Spec => [][\A t \in Tasks : attempts'[t] =
               IF \E w \in Workers : pc[w] = "locked" /\ pc'[w] = "working" /\ job[w] = t
                 THEN attempts[t] + 1 ELSE attempts[t]]_vars
  <1> DEFINE Commits(t) == \E w \in Workers : pc[w] = "locked" /\ pc'[w] = "working" /\ job[w] = t
             Counts == \A t \in Tasks :
               attempts'[t] = IF Commits(t) THEN attempts[t] + 1 ELSE attempts[t]
  <1>1. IInv /\ [Next]_vars => [Counts]_vars
    <2> SUFFICES ASSUME IInv, Next, NEW t \in Tasks
                 PROVE  attempts'[t] = IF Commits(t) THEN attempts[t] + 1 ELSE attempts[t]
      OBVIOUS
    <2>1. /\ attempts \in [Tasks -> Nat]
          /\ pc \in [Workers -> {"idle", "locked", "working", "failing"}]
      BY DEF IInv, TypeOK
    <2>2. CASE UNCHANGED <<attempts, pc>>
      BY <2>1, <2>2
    <2>3. ASSUME NEW w \in Workers, ClaimSave(w)
          PROVE  attempts'[t] = IF Commits(t) THEN attempts[t] + 1 ELSE attempts[t]
      <3>1. seen[w] = attempts[job[w]]
        BY <2>3 DEF IInv, LockInv, ClaimSave
      <3>2. /\ attempts' = [attempts EXCEPT ![job[w]] = seen[w] + 1]
            /\ pc[w] = "locked" /\ pc' = [pc EXCEPT ![w] = "working"]
        BY <2>3 DEF ClaimSave
      <3>3. Commits(t) <=> job[w] = t
        BY <2>1, <3>2
      <3> QED BY <2>1, <3>1, <3>2, <3>3
    <2>4. ASSUME NEW w \in Workers, WorkerStep(w), ~ClaimSave(w)
          PROVE  attempts'[t] = IF Commits(t) THEN attempts[t] + 1 ELSE attempts[t]
      <3>1. attempts' = attempts
        BY <2>4 DEF WorkerStep, ClaimSelect, Complete, FailRead, FailWrite, Abandon, rows
      <3>2. \A v \in Workers : pc'[v] = "working" => pc[v] = "working"
        BY <2>1, <2>4
        DEF WorkerStep, ClaimSelect, Complete, FailRead, FailWrite, Abandon, Release
      <3> QED BY <3>1, <3>2
    <2>5. ASSUME ~ \E w \in Workers : WorkerStep(w) PROVE UNCHANGED <<attempts, pc>>
      BY <2>5 DEF Next, Enqueue, CancelTask, Recover, Tick, workers
    <2> QED BY <2>2, <2>3, <2>4, <2>5
  <1> QED BY <1>1, IInvAlways, PTL DEF Spec

=============================================================================
