SPECIFICATION UnsharedPackages
CONSTANTS
  j1 = j1  j2 = j2  a = a  b = b  c = c  p = p  q = q  t3 = t3  w1 = w1  w2 = w2  h1 = h1  h2 = h2  r1 = r1
  blocked = blocked  open = open  nobody = nobody  alice = alice  bob = bob  None = None
  Jobs = {j1, j2}
  Items = {a, b}
  Targets = {p}
  States <- Principals
  Workers = {w1, w2}
  Processes = {h1}
  Reconcilers = {}
  JobOf <- SharedPackageJobOf
  TargetOf <- SharedPackageTargetOf
  Ordinal <- SharedPackageOrdinal
  HostOf <- OneProcess
  Effect <- ReplacePrincipals
  MaxAttempts = 1
  MaxOutstanding = 5
  Disruptions = {"expiry", "edit", "lock", "crash"}
  MaxFaults = 2
SYMMETRY SharedPackageSymmetry
INVARIANTS
  NoLostUpdate
CHECK_DEADLOCK FALSE
