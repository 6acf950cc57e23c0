SPECIFICATION MCSpec
CONSTANTS
  Budget = 1
  Rounds = 2
  Window = 3
  MaxOut = 3
  N = 3
  MaxEdits = 1
  j1 = j1
  j2 = j2
  Jobs = {j1, j2}
  Hosts = {1, 2}
  Name = f
  MaxInbox = 2
  MaxOutages = 1
  b1 = b1
  b2 = b2
  Bridges = {b1, b2}
  Names = {f}
  Elsewhere = {g}
  Limit = 1
  Chunks = {1}
  MaxFiles = 1
INVARIANTS AllTypesOK AnswersAreTrue JobIsHonest OneLateInput UploadsKeepLimits
PROPERTIES KeepsPromise PatchIsSafe HostWorkSettles
CHECK_DEADLOCK FALSE
