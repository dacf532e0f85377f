\* One call of any tool, two clicks and one restart.
CONSTANTS
  c1 = c1 k1 = k1 k2 = k2
  Call = {c1}
  Click = {k1, k2}
  Path <- ToolPaths
  Table <- Tools
  Setting <- Settings
  MaxRestarts = 1
  Hearsay <- NothingRead
  Unverified <- NothingDone
  Ungated <- NoGate
SPECIFICATION Spec
INVARIANTS TypeOK EvidenceWasRead AppliedWasDone ActedWithLicence
SYMMETRY Alike
CHECK_DEADLOCK FALSE
