\* Two hosts, and nothing fails: is an incident handed to one worker only?
CONSTANTS
  i1 = i1 i2 = i2 o1 = o1 o2 = o2 p1 = p1 p2 = p2 h1 = h1 h2 = h2
  Incident = {i1}
  Org = {o1, o2}
  OrgOf <- LoneOrg
  Configured <- OnlyO1
  Process = {p1, p2}
  Host = {h1, h2}
  HostOf <- OwnHost
  NoIncident = NoIncident
  NoOrg = NoOrg
  MaxRestarts = 0
  MaxFaults = 0
  MaxResubmits = 0
SPECIFICATION Spec
INVARIANTS ClaimedByOne
