\* Two requests; three keys, one of them not for signatures; two reloads.
SPECIFICATION LiveSpec
CONSTANTS
  r1 = r1
  r2 = r2
  k1 = k1
  k2 = k2
  k3 = k3
  l1 = l1
  l2 = l2
  realm = realm
  client = client
  None = None
  Invalid = Invalid
  Requests = {r1, r2}
  Setups <- All
  Keys = {k1, k2, k3}
  Initial = {k1, k3}
  Usable = {k1, k2}
  Parse <- Canonical
  Realm = realm
  ClientID = client
  GuestTenant = "a"
  Policy <- Versions
  Files = 2
  Broken <- Uncompiled
  Reloaders = {l1, l2}
  TTL = 2
  Timeout = 1
  Skew = 1
  MaxFailures = 1
CHECK_DEADLOCK FALSE
INVARIANTS RetiredKeyLapses PublishedKeyIsFound ServedIsEntitled
PROPERTIES PoliciesMoveForward EveryRequestEnds
