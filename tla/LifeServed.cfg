\* A chain or a fork of three providers.
SPECIFICATION Spec
CONSTANTS
  p1 = p1
  p2 = p2
  p3 = p3
  f1 = f1
  f2 = f2
  Names = {p1, p2, p3}
  Features = {f1, f2}
  Listings <- AllListed
  Graphs <- ChainOrFork
  Claims <- NoClaims
CHECK_DEADLOCK FALSE
INVARIANT ServedWhileUp
