\* Three steps of one or two tool calls, two faults, one resubmission.
CONSTANTS
  EVIDENCE_TOOLS = {"get", "shell"}
  REMEDIATION_TOOLS = {"shell"}
  SUGGESTION_TOOLS = {"suggest"}
  Call <- SomeCalls
  Evidence = {TRUE, FALSE}
  MaxSteps = 3
  MaxReminders = 1
  MaxBatch = 2
  MaxFaults = 2
  MaxResubmits = 1
SPECIFICATION FairSpec
INVARIANTS TypeOK ResolvedIsSupported FixIsVerified CallsAreAnswered
PROPERTIES ProgressKept SettledIsTold EventuallySettled
CHECK_DEADLOCK FALSE
