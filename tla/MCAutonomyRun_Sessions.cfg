SPECIFICATION Spec
CONSTANTS
  Worker = {w1}
  Session = {s1, s2}
  Probe = {q1}
  Verification = {}
  Plan = {p1}
  PlanLen = 2
  Writes = {2}
  MaxLoops = 3
  GuardianWired = FALSE
  None = None
SYMMETRY Symmetry
INVARIANTS ConsentedWrites UnknownWriteStopsRun
PROPERTIES NoWriteAfterCancel
CHECK_DEADLOCK FALSE
