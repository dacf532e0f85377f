\* Two deliveries at a time, two attempts; the worker and retention.
CONSTANTS
  Caller = {e1, e2}
  LegacyStatus = {"none"}
  MaxAttempts = 2
  MaxFaults = 0
SPECIFICATION Spec
INVARIANTS AttemptsInTurn AnswerIsGood
SYMMETRY Alike
