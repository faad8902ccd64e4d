\* Two clients and three requests, of every kind; three events; one fault and
\* one crash.
SPECIFICATION Spec
CONSTANTS
  c1 = c1
  c2 = c2
  e1 = e1
  e2 = e2
  e3 = e3
  None = None
  Mask = Mask
  Kinds <- AllKinds
  Clients = {c1, c2}
  Specs = {"s1", "s2"}
  Counts = {2}
  Named <- NamedFields
  Firsts = {None, 7}
  Off = {"s2"}
  Events = {e1, e2, e3}
  Wanted = {e1, e2}
  MaxRequests = 3
  MaxFaults = 1
  MaxCrashes = 1
SYMMETRY Symmetry
CHECK_DEADLOCK FALSE
INVARIANTS ShownVersionsAgree SecretsAreMasked IdentityInStep FailureCountIsRight
PROPERTIES NoLostUpdate
