----------------------------- MODULE MCToolCall -----------------------------
(***************************************************************************)
(* ToolCall over the agent's tools.                                        *)
(***************************************************************************)
EXTENDS ToolCallProps, ToolTable, FiniteSets

ToolPaths == DOMAIN Tools
(* Under the stop, whatever else could let a call pass is set.             *)
Settings ==
  {s \in [stop : BOOLEAN, auto : BOOLEAN, built : BOOLEAN, posting : BOOLEAN] :
     s.stop => s.auto /\ s.built /\ s.posting}

(* All their reads may fail, or they make none, and the answer has no error *)
(* and is not blocked.                                                     *)
NothingRead ==
  {"capacity_check", "bamboo_check", "dr_readiness", "inspect_disk", "diagnose_nginx",
   "database_health", "gcp_pubsub", "terraform",
   "kubectl_read", "kubectl_change", "shell_read", "shell_change"}

(* They make no write, or do not look at what became of one.               *)
NothingDone ==
  {"incident_commander", "restart_lambda", "scale_cloud_run", "git_review",
   "kubectl_read", "shell_read", "install_cron", "renew_certificates",
   "argocd_rollback", "bamboo_increment", "patch_bamboo",
   "gitlab_review", "bitbucket_review", "azure_review"}

(* cloud_tools, cicd_tools, github_tools, a status page and a snapshot.    *)
NoGate ==
  {"restart_ec2", "restart_gce", "restart_azure_vm", "restart_ecs", "restart_app",
   "restart_function", "restart_cloud_run", "scale_ecs", "scale_app",
   "retry_github", "retry_gitlab", "retry_jenkins", "retry_bamboo", "retry_azure",
   "bamboo_increment", "patch_bamboo", "github_pr", "gitlab_mr", "bitbucket_pr",
   "azure_pr", "status_page", "create_snapshot"}

Alike == Permutations(Click)
=============================================================================
