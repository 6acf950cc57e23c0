SPECIFICATION Spec
CONSTANTS
  Worker = {w1, w2}
  Session = {s1}
  Probe = {}
  Verification = {v1}
  Plan = {p1}
  PlanLen = 2
  Writes = {1, 2}
  MaxLoops = 3
  GuardianWired = FALSE
  None = None
SYMMETRY Symmetry
INVARIANTS NoReplay WritesAreAccounted
PROPERTIES ActionOutcomeFinal NoPlanningOverOpenWrite KeepsRunPromise
CHECK_DEADLOCK FALSE
