\* One account, one collected source and a usage report, under fairness.
SPECIFICATION FairSpec
CONSTANTS
  r1 = r1
  p1 = p1
  Runs = {r1}
  OwnerOf <- MCOne
  Providers = {"packages"}
  Usage = {"usage"}
  Requests = {q1}
  MaxAttempts = 1
  MaxActive = 1
  MaxRefreshes = 1
  Jobs <- MCJobs
  FaultKinds = {"crash", "break", "lost", "signout", "stop", "cancel", "revoke"}
  MaxFaults = 2
PROPERTIES
  NobodyWaitsForever
CHECK_DEADLOCK FALSE
