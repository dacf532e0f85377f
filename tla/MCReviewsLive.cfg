\* One caller, an older record, two kills or failing calls.
CONSTANTS
  Caller = {e1}
  LegacyStatus = {"active", "failed"}
  MaxAttempts = 2
  MaxFaults = 2
SPECIFICATION FairSpec
INVARIANTS TypeOK VerdictFindsRecord
PROPERTIES LegacyIsTaken ImplementsContract EveryReviewEnds
