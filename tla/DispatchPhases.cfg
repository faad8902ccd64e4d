SPECIFICATION Spec
CONSTANTS
  d1 = d1
  d2 = d2
  Dispatches = {d1, d2}
  Handlers <- AllPhases
  Table <- GatedAndPlain
  SubmitResults = {"error", "pending", "completed", "failed"}
  MaxCrashes = 1
INVARIANT
  PhasesAwaited
