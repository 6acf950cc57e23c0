SPECIFICATION Spec
CONSTANTS
  Worker = {w1}
  Session = {s1}
  Probe = {}
  Verification = {}
  Plan = {p1}
  PlanLen = 1
  Writes = {1}
  MaxLoops = 2
  GuardianWired = TRUE
  None = None
SYMMETRY Symmetry
INVARIANT ConsentedWrites
CHECK_DEADLOCK FALSE
