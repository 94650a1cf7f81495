SPECIFICATION Spec
CONSTANTS
  j1 = j1  j2 = j2  a = a  b = b  c = c  p = p  q = q  t3 = t3  w1 = w1  w2 = w2  h1 = h1  h2 = h2  r1 = r1
  blocked = blocked  open = open  nobody = nobody  alice = alice  bob = bob  None = None
  Jobs = {j1}
  Items = {a, b}
  Targets = {p, q}
  States = {blocked, open}
  Workers = {w1, w2}
  Processes = {h1, h2}
  Reconcilers = {}
  JobOf <- TwoPackagesJobOf
  TargetOf <- TwoPackagesTargetOf
  Ordinal <- TwoPackagesOrdinal
  HostOf <- TwoProcesses
  Effect <- BlockAndUnblock
  MaxAttempts = 2
  MaxOutstanding = 5
  Disruptions = {"signout", "expiry"}
  MaxFaults = 1
SYMMETRY ProcessSymmetry
INVARIANTS
  TypeOK
  AtMostOnceDispatch
  RunningAttemptIsCurrent
PROPERTIES
  NoWriteAfterSignOut
CHECK_DEADLOCK FALSE
