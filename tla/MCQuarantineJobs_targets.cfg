\* Two jobs of one target, with everything that may disturb them.
SPECIFICATION Spec
CONSTANTS
  None = None  j1 = j1  j2 = j2  a = a  b = b t1 = t1  r1 = r1
  Jobs = {j1, j2}
  Items = {a, b}
  Targets = {t1}
  JobOf <- TwoJobsOf
  TargetOf <- TwoJobsTarget
  Ordinal <- SingleItems
  Wants <- TwoWants
  Reconcilers = {r1}
  MaxActive = 2
  MaxOutstanding = 2
  MaxAttempts = 2
  Disruptions = {"cancel", "expiry", "ack", "signout", "drain", "crash", "deadline", "edit", "lock"}
  MaxFaults = 1
INVARIANTS
  QuarantineTypeOK
  OneUnsettledWritePerTarget
  HonestOutcome
  EvidenceIsSound
  NoItemIsStranded
PROPERTIES
  OneWriteAtATime
  CancelStopsUnsentWork
CHECK_DEADLOCK FALSE
