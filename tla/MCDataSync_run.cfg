\* One account, one collected source, two attempts.
SPECIFICATION Spec
CONSTANTS
  r1 = r1
  p1 = p1
  Runs = {r1}
  OwnerOf <- MCOne
  Providers = {"packages"}
  Usage = {}
  Requests = {q1}
  MaxAttempts = 2
  MaxActive = 1
  MaxRefreshes = 1
  Jobs <- MCJobs
  FaultKinds = {"crash", "break", "lost", "signout", "lapse", "resume", "stop", "cancel", "revoke"}
  MaxFaults = 2
INVARIANTS
  SyncTypeOK
  HonestRuns
  LinkedJobIsOfThisAttempt
  StoppedMeansStopped
PROPERTIES
  CancelledIsFinal
CHECK_DEADLOCK FALSE
