\* One kill or error: is every fix verified?
CONSTANTS
  EVIDENCE_TOOLS = {"get", "shell"}
  REMEDIATION_TOOLS = {"shell"}
  SUGGESTION_TOOLS = {"suggest"}
  Call <- SomeCalls
  Evidence = {TRUE, FALSE}
  MaxSteps = 3
  MaxReminders = 1
  MaxBatch = 2
  MaxFaults = 1
  MaxResubmits = 0
SPECIFICATION Spec
INVARIANT EveryFixIsVerified
CHECK_DEADLOCK FALSE
