SPECIFICATION Spec
CONSTANTS
  Worker = {w1}
  Session = {s1}
  Probe = {}
  Verification = {}
  Plan = {p1}
  PlanLen = 2
  Writes = {2}
  MaxLoops = 2
  GuardianWired = FALSE
  None = None
SYMMETRY Symmetry
INVARIANT CompletedPlansAreFinished
CHECK_DEADLOCK FALSE
