SPECIFICATION FairSpec
CONSTANTS
  u = u  v = v  x = x  a = a  b = b  c = c  d = d  f = f  y = y  t1 = t1  t2 = t2  directory = directory
  office = office  history = history  alice = alice  None = None
  Writers = {u, v}
  Generations = {a, b}
  Scopes = {1, 2}
  Tenants = {t1, t2}
  Sources = {directory}
  Principals = {alice}
  WriterOf <- SameScopeWriterOf
  ScopeOf <- ApartScopeOf
  Primary <- SameScopePrimary
  TenantOf <- ApartTenants
  SourceOf <- ApartSources
  Actor <- OnlyFirstActs
  Inputs <- NoInputs
  Managed = {u, v}
  JobBacked = {u}
  GlobalLimit = 1
  TenantLimit = 1
  MaxEpoch = 1
  Disruptions = {"revoke", "crash", "signal", "expiry"}
  MaxFaults = 1
INVARIANTS
  WriterLimit
PROPERTIES
  Reclaimed
  WriterEnds
CHECK_DEADLOCK FALSE
