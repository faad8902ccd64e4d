SPECIFICATION LiveSpec
CONSTANTS
  t1 = t1
  t2 = t2
  a = a
  b = b
  Tasks = {t1, t2}
  Workers = {w1, w2}
  Kinds = {a, b}
  KindOf <- MCKindOf
  NoTask = NoTask
  MaxAttempts = 2
  BackoffCap = 60
  StaleTimeout = 1
  MaxClaims = 3
INVARIANTS
  ClaimsAreDistinct
  SoleHolderUnlessRecovered
  BudgetUnlessRecovered
PROPERTIES
  CompletedUnlessRecovered
  EventuallySettled
