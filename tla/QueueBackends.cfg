\* Three tasks of two kinds, one of them malformed, two with the same ID; three
\* workers in two processes; two faults.
SPECIFICATION LiveSpec
CONSTANTS
  t1 = t1
  t2 = t2
  t3 = t3
  w1 = w1
  w2 = w2
  w3 = w3
  ka = ka
  kb = kb
  NoTask = NoTask
  Tasks = {t1, t2, t3}
  Workers = {w1, w2, w3}
  Bad = {t2}
  IdOf <- Id
  KindOf <- Kind
  Asks <- Both
  ProcOf <- Proc
  MaxFaults = 2
CHECK_DEADLOCK FALSE
INVARIANTS PendingIsInHand
PROPERTIES IsTaskQueue QueuedIsClaimed
