\* One alert, two requests, nothing fails: is it queued once a window?
CONSTANTS
  NoAlert = NoAlert
  Alert = {a1}
  Handler = {h1, h2}
  Window = 2
  Retention = 3
  Patience = 1
  MaxTime = 4
  MaxIncidents = 3
  MaxAborts = 0
SPECIFICATION Spec
INVARIANT QueuedOnceAWindow
SYMMETRY Alike
