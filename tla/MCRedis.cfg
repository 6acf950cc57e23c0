SPECIFICATION MCSpec
CONSTANTS
  None = None
  Req = {r1, r2}
  Conv = {c1, c2}
  Mode = {ask, auto}
  MaxConvs = 1
  MaxSteps = 2
  MaxCalls = 1
  KeepRounds = 1
  Ids = {i1, i2}
  WhoLimit = 2
  IpLimit = 3
  ForgotLimit = 2
  MaxFaults = 1
SYMMETRY Symmetry
INVARIANTS SavesUnderLock WireIsAnswered LoginsAreCounted
PROPERTIES OthersAreKept
CHECK_DEADLOCK FALSE
