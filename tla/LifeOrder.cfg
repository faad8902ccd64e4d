\* All dependency graphs over three providers, of which any may be absent; and,
\* for a chain and a fork of them, up to two sidecars, of which one crashes.
SPECIFICATION SidecarsSpec
CONSTANTS
  p1 = p1
  p2 = p2
  p3 = p3
  f1 = f1
  f2 = f2
  Names = {p1, p2, p3}
  Features = {f1, f2}
  Listings <- SomeOrTwice
  Graphs <- AnyGraph
  Claims <- SomeClaims
  Entries <- SomeSidecars
  SidecarGraphs <- ChainOrFork
  MaxCrashes = 1
CHECK_DEADLOCK FALSE
INVARIANTS DependenciesFirst RejectionsAreRight UpIsClosed SidecarsAreReady SidecarsAreClosed
