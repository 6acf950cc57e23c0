SPECIFICATION Spec
CONSTANTS
  Worker = {w1, w2}
  Session = {s1}
  Probe = {}
  Verification = {v1}
  Plan = {p1}
  PlanLen = 1
  Writes = {1}
  MaxLoops = 3
  GuardianWired = TRUE
  None = None
SYMMETRY Symmetry
INVARIANTS NoRunIsLost
PROPERTIES RejectedNeverRuns
CHECK_DEADLOCK FALSE
