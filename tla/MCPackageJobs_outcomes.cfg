SPECIFICATION Spec
CONSTANTS
  j1 = j1  j2 = j2  a = a  b = b  c = c  p = p  q = q  t3 = t3  w1 = w1  w2 = w2  h1 = h1  h2 = h2  r1 = r1
  blocked = blocked  open = open  nobody = nobody  alice = alice  bob = bob  None = None
  Jobs = {j1}
  Items = {a, b}
  Targets = {p, q}
  States = {blocked, open}
  Workers = {w1}
  Processes = {h1}
  Reconcilers = {r1}
  JobOf <- TwoPackagesJobOf
  TargetOf <- TwoPackagesTargetOf
  Ordinal <- TwoPackagesOrdinal
  HostOf <- OneWorker
  Effect <- BlockAndUnblock
  MaxAttempts = 2
  MaxOutstanding = 5
  Disruptions = {"expiry", "crash", "ack", "cancel", "deadline"}
  MaxFaults = 2
INVARIANTS
  HonestOutcome
PROPERTIES
  CancelStopsUnsentWork
  OutcomesAreFinal
CHECK_DEADLOCK FALSE
