SPECIFICATION MCSpec
CONSTANTS
  n1 = n1
  n2 = n2
  n3 = n3
  Names = {n1, n2, n3}
  Clients = {c1, c2}
  Specs = {s1, s2}
  Finalizers = {f1}
  Statuses = {ready, busy}
  NoParent = NoParent
  PartialParents = {NoParent}
  MaxVersion = 2
  Last = 4
  Limits <- MCLimits
  DefaultLimit = 3
CHECK_DEADLOCK FALSE
INVARIANTS
  VersionIdentifiesContent
  ForestUnlessRaced
  PagesAreAccurate
PROPERTIES
  GenerationFollowsSpec
  TombstoneIsFinal
  FinalizersBlockUnlessRaced
  WalkEnds
  ListingEnds
