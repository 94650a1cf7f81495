\* Four packages of one source, two passes, one disruption of any kind, under fairness.
SPECIFICATION FairSpec
CONSTANTS
  Sources = {"packages"}
  Native = {}
  Items = {"p1", "p2", "p3", "p4"}
  SourceOf <- MCSourceOf
  Values = {"plain", "a", "b", "ab"}
  Absent = "absent"
  Match <- MCMatch
  Linkings <- MCLinkings
  Start <- MCStart
  Late = {"packages"}
  Changes <- MCChanges
  Workers = {w1, w2}
  None = None
  MaxRevision <- MCRevisions
  Disruptions = {"control", "clear", "error", "crash", "lapse", "deadline"}
  MaxFaults = 1
INVARIANTS
  InventoryTypeOK
  OutputFollowsInputs
  InputsKept
PROPERTIES
  FencedIsNotPublished
  CatchesUp
CHECK_DEADLOCK FALSE
