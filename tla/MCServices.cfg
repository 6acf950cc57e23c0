SPECIFICATION MCSpec
CONSTANTS
  Requests = {r1, r2}
  r1 = r1
  r2 = r2
  MinLimit = 1
  HourLimit = 1
  MaxRetries = 3
  MaxFaults = 1
  Client = {c1, c2}
  Reader = {q1}
  Task = {t1, t2}
  Doc = {d1, d2}
  Model = {m1, m2}
  MaxOps = 3
  MaxMsgs = 1
  MaxDeaths = 1
  NoDoc = NoDoc
  NoModel = NoModel
  c1 = c1
  c2 = c2
  t1 = t1
  t2 = t2
  m1 = m1
  d1 = d1
  Host = {h1, h2}
  ProbesOfProfile = 2
  Budget = 2
  Canceller = {k1, k2}
  Probes = {p1, p2}
  MaxActions = 3
  MaxLoops = 4
  MinProbes = 2
  MaxPlan = 2
  Batch = 2
  MaxSeq = 6
  MaxDrops = 3
  Drive = {e1, e2}
  Writes = {w1}
  Checks = {v1}
  MaxPlans = 1
  PlanLen = 2
  MaxChanges = 2
  None = None
INVARIANTS AllTypesOK MailIsTrue AnswersAreCurrent DiagnosisIsTrue StreamIsWhole AuthorityIsKept
PROPERTIES StaysInBounds ConclusionHolds ServicesSettle
CHECK_DEADLOCK FALSE
