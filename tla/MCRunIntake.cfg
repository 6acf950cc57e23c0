SPECIFICATION Spec
CONSTANTS
  Req = {q1, q2}
  Run = {a, b}
  Worker = worker
  Sweeper = sweeper
  None = None
  Budget = 1
  StepLimit = 1
  MaxSeq = 3
SYMMETRY Symmetry
INVARIANTS IntakeIsSound
CHECK_DEADLOCK FALSE
