\* Two hosts, a kill and a failed call.
CONSTANTS
  i1 = i1 i2 = i2 o1 = o1 o2 = o2 p1 = p1 p2 = p2 h1 = h1 h2 = h2
  Incident = {i1, i2}
  Org = {o1, o2}
  OrgOf <- OneOrg
  Configured <- OnlyO1
  Process = {p1, p2}
  Host = {h1, h2}
  HostOf <- OwnHost
  NoIncident = NoIncident
  NoOrg = NoOrg
  MaxRestarts = 1
  MaxFaults = 1
  MaxResubmits = 0
SPECIFICATION Spec
INVARIANTS StrandedOnlyByFailures
