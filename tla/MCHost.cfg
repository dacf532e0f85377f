\* Two calls, one of a sound file and one of an unsound one; the time unit is
\* thirty seconds: 300 s of monitoring, pauses of 30 s, and checks that take no time.
CONSTANTS
  good = good bad = bad
  Worker = {good, bad}
  Fixer = good
  Sound = {good, "first", "absent"}
  Window = 10
  MaxInterval = 1
  Slow = 0
SPECIFICATION Spec
INVARIANTS TypeOK RestoredIfUnhindered VerifiedWasUp
PROPERTY DownOnlyIfCrossed
CHECK_DEADLOCK FALSE
