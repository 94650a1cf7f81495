SPECIFICATION OpenPackages
CONSTANTS
  j1 = j1  j2 = j2  a = a  b = b  c = c  p = p  q = q  t3 = t3  w1 = w1  w2 = w2  h1 = h1  h2 = h2  r1 = r1
  blocked = blocked  open = open  nobody = nobody  alice = alice  bob = bob  None = None
  Jobs = {j1, j2}
  Items = {a, b, c}
  Targets = {p, q}
  States = {blocked, open}
  Workers = {w1}
  Processes = {h1}
  Reconcilers = {}
  JobOf <- LimitJobOf
  TargetOf <- LimitTargetOf
  Ordinal <- LimitOrdinal
  HostOf <- OneWorker
  Effect <- BlockAndUnblock
  MaxAttempts = 1
  MaxOutstanding = 1
  Disruptions = {"expiry", "deadline"}
  MaxFaults = 0
INVARIANTS
  OutstandingWithinLimit
PROPERTIES
  EveryJobSettles
CHECK_DEADLOCK FALSE
