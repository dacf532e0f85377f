\* Two alerts and two requests at a time, one of them cut short.
CONSTANTS
  NoAlert = NoAlert
  Alert = {a1, a2}
  Handler = {h1, h2}
  Window = 2
  Retention = 3
  Patience = 1
  MaxTime = 4
  MaxIncidents = 3
  MaxAborts = 1
SPECIFICATION Spec
INVARIANTS TypeOK RepeatsOnlyAfterCooldown LostOnlyByAborts
SYMMETRY Alike
