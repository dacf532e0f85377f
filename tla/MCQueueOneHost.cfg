\* Two API processes on one host, two incidents of two organisations.
CONSTANTS
  i1 = i1 i2 = i2 o1 = o1 o2 = o2 p1 = p1 p2 = p2 h1 = h1 h2 = h2
  Incident = {i1, i2}
  Org = {o1, o2}
  OrgOf <- TwoOrgs
  Configured <- OnlyO1
  Process = {p1, p2}
  Host = {h1, h2}
  HostOf <- SameHost
  NoIncident = NoIncident
  NoOrg = NoOrg
  MaxRestarts = 2
  MaxFaults = 1
  MaxResubmits = 1
SPECIFICATION FairSpec
INVARIANTS TypeOK Durable ClaimedByOne RunIsRecoverable
PROPERTIES ImplementsContract ImplementsFairContract
