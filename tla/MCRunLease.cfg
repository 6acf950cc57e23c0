SPECIFICATION FairSpec
CONSTANTS
  w1 = w1
  w2 = w2
  n1 = n1
  n2 = n2
  None = None
  Worker = {w1, w2}
  Name = {n1}
  Identity <- Together
  Token = {t1, t2, t3}
  Ttl = 1
  MaxDelay = 1
  MaxQueue = 1
  MaxBeats = 1
INVARIANTS FenceExclusive
PROPERTIES ClaimsKeepApart AbandonedIsDriven
