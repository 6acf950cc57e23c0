SPECIFICATION MCSpec
CONSTANTS
  Requests = {p1, p2}
  Names = {n1, n2, n3}
  Titles = {t1, t2}
  Groups = {g1}
  MaxRows = 2
  MaxOps = 3
  Hosts = {h1}
  Callers = {c1, c2}
  Unusable = {c2}
  None = None
  People = {admin, alice}
  Seed = admin
  MaxCrashes = 1
SYMMETRY Symmetry
INVARIANTS AllTypesOK AccountsAgree DirectoryIsWhole JobsFollowRows
PROPERTIES SetupIsSafe
CHECK_DEADLOCK FALSE
