\* Two organisations, one of them the server's own, and two tasks: whose keys does a run use?
SPECIFICATION Spec
CONSTANTS
  Task = {t1, t2}
  Org = {a, b}
  DefaultOrg = b
  Key = {AUTO_APPLY, SLACK_APPROVER_IDS, GITHUB_TOKEN}
  AutoApply = AUTO_APPLY
  Approvers = SLACK_APPROVER_IDS
  ServerKeys = {AUTO_APPLY}
  WillingOwner = {a}
INVARIANT OwnClients
