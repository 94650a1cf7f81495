SPECIFICATION Spec
CONSTANTS
  u = u  v = v  x = x  a = a  b = b  c = c  d = d  f = f  y = y  t1 = t1  t2 = t2  directory = directory
  office = office  history = history  alice = alice  None = None
  Writers = {u, v}
  Generations = {a, b}
  Scopes = {1}
  Tenants = {t1}
  Sources = {directory}
  Principals = {alice}
  WriterOf <- SameScopeWriterOf
  ScopeOf <- SameScopeScopeOf
  Primary <- SameScopePrimary
  TenantOf <- OneScopeTenant
  SourceOf <- OneScopeSource
  Actor <- OnlyFirstActs
  Inputs <- NoInputs
  Managed = {u, v}
  JobBacked = {u}
  GlobalLimit = 4
  TenantLimit = 2
  MaxEpoch = 1
  Disruptions = {"revoke", "clear", "invalidate", "cancel", "ack", "signal", "expiry"}
  MaxFaults = 1
INVARIANTS
  TypeOK
  CurrentGenerationIsHead
  OutcomeIsHonest
PROPERTIES
  CancelledJobPublishesNothing
  KeepsPromise
  SignedOutNeverPublishes
CHECK_DEADLOCK FALSE
