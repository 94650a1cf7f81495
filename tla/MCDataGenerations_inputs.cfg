SPECIFICATION AfterFirstSpec
CONSTANTS
  u = u  v = v  x = x  a = a  b = b  c = c  d = d  f = f  y = y  t1 = t1  t2 = t2  directory = directory
  office = office  history = history  alice = alice  None = None
  Writers = {u, y, v, x}
  Generations = {a, b, c, d, f}
  Scopes = {1, 2, 3}
  Tenants = {t1}
  Sources = {directory, office, history}
  Principals = {}
  WriterOf <- InputWriterOf
  ScopeOf <- InputScopeOf
  Primary <- InputPrimary
  TenantOf <- InputTenants
  SourceOf <- InputSources
  Actor <- NobodyActs
  Inputs <- PairInputs
  Managed = {u, y}
  JobBacked = {}
  GlobalLimit = 2
  TenantLimit = 2
  MaxEpoch = 0
  Disruptions = {"abort", "ack"}
  MaxFaults = 1
INVARIANTS
  OneWriterPerSource
  PairPublishesTogether
PROPERTIES
  DerivedFromCurrentInputs
CHECK_DEADLOCK FALSE
