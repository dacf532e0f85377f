\* Two calls, one of a sound file and one of an unsound one: is the previous file back?
CONSTANTS
  good = good bad = bad
  Worker = {good, bad}
  Fixer = good
  Sound = {good, "first", "absent"}
  Window = 10
  MaxInterval = 1
  Slow = 0
SPECIFICATION Spec
PROPERTY RestoredIsBack
CHECK_DEADLOCK FALSE
