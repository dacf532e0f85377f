\* Two callers on machines whose clocks are set apart.
CONSTANTS
  c1 = c1 c2 = c2 k1 = k1 k2 = k2
  Caller = {c1, c2}
  Clock = {k1, k2}
  ClockOf <- TwoClocks
  TTL = 2
  PerWindow = 2
  Backend = {"memory", "s3", "unfenced"}
  MaxTime = 4
  MaxRetains = 1
SPECIFICATION Spec
INVARIANTS TypeOK SpentOnce Available OneLivePerSlot
PROPERTY ImplementsContract
SYMMETRY Alike
