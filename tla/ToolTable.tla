------------------------------ MODULE ToolTable ------------------------------
(***************************************************************************)
(* The agent's tools: what each calls, in which order, and what becomes of *)
(* a call that fails.  ToolCall gives the rows their behaviour.            *)
(*                                                                         *)
(* A tool (or a platform, a cloud, a kind of resource of one) makes its    *)
(* calls one way of a few: a sequence of calls of these kinds, by what     *)
(* failing does to the answer.                                             *)
(*   reads    need   the answer is the error                               *)
(*            halt   the answer says success False, or is the error        *)
(*            later  the tool goes on, and the error is in the answer      *)
(*            told   the error's text stands where the data would          *)
(*            blank  nothing stands there; if it raised, the error is the  *)
(*                   answer where it is not caught                         *)
(*   writes   do     the answer is the error                               *)
(*            run    the answer says success False, or is the error        *)
(*            mark   the tool goes on, and success is False                *)
(*            try    the tool goes on, and success is what it would be; or *)
(*                   as for blank                                          *)
(* A loop stands for one round.  What fails before any call (a credential, *)
(* a setting, an argument that is missing or refused) is ToolCall's.       *)
(***************************************************************************)
EXTENDS Sequences, TLC

(* A tool that gathers evidence; one that counts as a remedy and that the  *)
(* emergency stop refuses; one whose live use is gated as well.            *)
Reads(ways) ==
  [role |-> {"evidence"}, stops |-> FALSE, gate |-> "none", carries |-> "nothing",
   posts |-> FALSE, hosted |-> FALSE, asking |-> {<<>>}, ways |-> ways, dry |-> {}]
Acts(ways) == [Reads(ways) EXCEPT !.role = {"remedy"}, !.stops = TRUE]
Asks(carries, ways, dry) ==
  [Acts(ways) EXCEPT !.gate = "agent", !.carries = carries, !.posts = TRUE,
                     !.dry = dry]
(* A change of a host: _execute_host_mutation retains, the model posts.    *)
OnHost(ways, dry) ==
  [Asks("reference", ways, dry) EXCEPT !.posts = FALSE, !.hosted = TRUE]
(* A command line of the model's, judged by SafeExecutor.                  *)
Command(row) == [row EXCEPT !.role = {"evidence", "remedy"}, !.stops = TRUE]

One(step) == {<<step>>}

-----------------------------------------------------------------------------
(* collectors/aws.py                                                       *)
AwsCompute ==
  [aws_ec2 |-> Reads({<<"need", "need", "told">>}),
   aws_eks |-> Reads({<<"need", "need", "blank">>, <<"need", "need", "need", "blank">>}),
   aws_eks_nodegroup |-> Reads(One("need"))]
AwsContainers ==
  [aws_ecs |-> Reads({<<"need">>, <<"need", "blank">>}),
   aws_ecr |-> Reads({<<"need", "need">>}),
   aws_lambda |-> Reads({<<"need", "told">>})]
AwsData ==
  [aws_rds |-> Reads({<<"need", "need">>}),
   aws_elasticache |-> Reads(One("need")),
   aws_dynamodb |-> Reads(One("need")),
   aws_alb |-> Reads({<<"need", "need", "need">>})]
AwsNetwork ==
  [aws_elb |-> Reads({<<"need", "need">>}),
   aws_vpc |-> Reads({<<"need", "need">>}),
   aws_s3 |-> Reads({<<"need", "blank">>}),
   aws_sqs |-> Reads(One("need")),
   aws_sns |-> Reads({<<"need", "need">>})]
AwsServices ==
  [aws_autoscaling |-> Reads({<<"need", "need">>}),
   aws_beanstalk |-> Reads({<<"need", "need">>}),
   aws_apprunner |-> Reads(One("need")),
   aws_batch |-> Reads(One("need")),
   aws_cloudwatch |-> Reads({<<"need">>, <<"need", "need">>})]

(* collectors/azure.py                                                     *)
AzureCompute ==
  [azure_vm |-> Reads({<<"need", "told">>}),
   azure_vmss |-> Reads({<<"need", "need">>}),
   azure_aks |-> Reads({<<"need", "need">>})]
AzureApps ==
  [azure_aci |-> Reads(One("need")),
   azure_container_apps |-> Reads(One("need")),
   azure_acr |-> Reads(One("need")),
   azure_app_service |-> Reads({<<"need", "blank">>})]
AzureData ==
  [azure_function |-> Reads({<<"need", "need">>}),
   azure_sql |-> Reads({<<"need", "need">>, <<"need", "need", "need">>}),
   azure_cosmosdb |-> Reads(One("need")),
   azure_redis |-> Reads(One("need"))]
AzureNetwork ==
  [azure_load_balancer |-> Reads(One("need")),
   azure_gateway |-> Reads(One("need")),
   azure_storage |-> Reads(One("need")),
   azure_service_bus |-> Reads(One("need")),
   azure_batch |-> Reads(One("need"))]

(* collectors/gcp.py.  A Pub/Sub topic is answered for without a call.     *)
GcpCompute ==
  [gcp_gce |-> Reads({<<"need", "told">>}),
   gcp_gke |-> Reads(One("need")),
   gcp_nodepool |-> Reads(One("need"))]
GcpServices ==
  [gcp_cloud_run |-> Reads({<<"need", "told">>}),
   gcp_function |-> Reads({<<"need", "told">>}),
   gcp_sql |-> Reads(One("need")),
   gcp_artifacts |-> Reads(One("need"))]
GcpData ==
  [gcp_storage |-> Reads(One("need")),
   gcp_load_balancer |-> Reads(One("need")),
   gcp_memorystore |-> Reads(One("need")),
   gcp_pubsub |-> Reads({<<>>, <<"need">>})]
GcpGroups ==
  [gcp_composer |-> Reads(One("need")),
   gcp_instance_group |-> Reads(One("need")),
   gcp_firestore |-> Reads(One("need"))]

-----------------------------------------------------------------------------
(* collectors/k8s.py; the container logs of a pod are blank if unread.     *)
KubernetesContext ==
  [k8s_context |-> Reads({<<"need", "need">>, <<"need", "need", "need">>,
                          <<"need", "blank", "blank", "need">>,
                          <<"need", "need", "blank", "blank", "need">>})]

(* collectors/server.py, which collects before a run and is no tool.       *)
ServerContext ==
  [server_context |-> [Reads({<<"told", "told", "told">>}) EXCEPT !.role = {}]]

(* collectors/helm.py                                                      *)
HelmRelease ==
  [helm_release |-> Reads({<<"later", "told", "told", "told", "told">>})]

(* collectors/argocd.py                                                    *)
ArgoStatus == [argocd_status |-> Reads(One("need"))]
ArgoHistory == [argocd_history |-> Reads(One("need"))]

(* collectors/jenkins.py, bamboo.py, gitlab.py, github.py, azure_devops.py *)
JenkinsLogs == [jenkins_logs |-> Reads({<<"need", "blank">>, <<"need", "need", "blank">>})]
BambooLogs  == [bamboo_logs |-> Reads({<<"need", "blank">>})]
GitlabLogs  == [gitlab_logs |-> Reads({<<"need", "need">>, <<"need", "need", "told">>})]
GithubLogs  == [github_logs |-> Reads({<<"need", "blank">>, <<"need", "blank", "blank">>})]
AzureLogs   == [azure_logs |-> Reads({<<"need", "blank">>, <<"need", "blank", "blank">>})]

-----------------------------------------------------------------------------
(* tools/observability.py.  capacity_check makes its three queries,        *)
(* whatever becomes of them, and has no error to give.                     *)
Queried == One("need")   \* whichever the provider: one request
Metrics ==
  [query_metrics |-> Reads(Queried),
   evaluate_slo |-> Reads({<<"later", "need">>}),
   capacity_check |-> Reads({<<"told", "told", "told">>})]
TracesAndLogs ==
  [query_traces |-> Reads(Queried), query_logs |-> Reads(Queried)]
(* An incident commander is read off the roster: nothing is assigned.      *)
People ==
  [run_synthetic |-> Reads(One("need")),
   oncall_roster |-> Reads(One("need")),
   incident_commander |-> [Acts(One("need")) EXCEPT !.stops = FALSE]]
StatusPage == [status_page |-> Acts(One("do"))]

(* tools/data_state.py.  Without DATABASE_URL, check_database_health       *)
(* reads RDS, or says what else to use.                                    *)
Databases ==
  [database_health |-> Reads({<<>>, <<"need">>}),
   list_snapshots |-> Reads(One("need"))]
Recovery ==
  [create_snapshot |-> Acts(One("do")),
   restore_snapshot |-> [Acts({<<>>}) EXCEPT !.role = {}, !.stops = FALSE,
                                             !.gate = "never"],
   dr_readiness |-> Reads({<<"told", "told">>})]
Probed == One("need")   \* one request, query or connection
Stores ==
  [kafka_health |-> Reads(Probed), elasticsearch_health |-> Reads(Probed),
   redis_health |-> Reads(Probed)]

-----------------------------------------------------------------------------
(* tools/code_review.py.  A diff that cannot be had is empty, and so are   *)
(* the findings in it.                                                     *)
GithubChange    == [github_change |-> Reads({<<"need", "blank", "blank">>})]
GitlabChange    == [gitlab_change |-> Reads({<<"need", "blank">>})]
BitbucketChange == [bitbucket_change |-> Reads({<<"need", "blank", "blank">>})]
AzureChange     == [azure_change |-> Reads({<<"need", "blank", "blank">>})]
GitChange       == [git_change |-> Reads({<<"need", "need", "blank">>})]
Changes == GithubChange @@ GitlabChange @@ BitbucketChange @@ AzureChange @@ GitChange
GithubList    == [github_list |-> Reads(One("need"))]
GitlabList    == [gitlab_list |-> Reads(One("need"))]
BitbucketList == [bitbucket_list |-> Reads(One("need"))]
AzureList     == [azure_list |-> Reads(One("need"))]
ChangeLists == GithubList @@ GitlabList @@ BitbucketList @@ AzureList

(* A review is posted when its own setting or AUTO_APPLY is on, and is     *)
(* otherwise its own dry run; the comments inside it are tried.            *)
Posts(ways) == [Acts(ways) EXCEPT !.gate = "posting", !.dry = {<<>>}]
GithubReview    == [github_review |-> Posts(One("do"))]
GitlabReview    == [gitlab_review |-> Posts({<<"do">>, <<"do", "try">>})]
BitbucketReview == [bitbucket_review |-> Posts({<<"do">>, <<"do", "try">>})]
AzureReview     == [azure_review |-> Posts({<<"do">>, <<"do", "try">>})]
GitReview       == [git_review |-> Posts({<<>>})]
Reviews == GithubReview @@ GitlabReview @@ BitbucketReview @@ AzureReview @@ GitReview

-----------------------------------------------------------------------------
(* tools/cloud_tools.py.  None of these looks at AUTO_APPLY.  A Lambda is  *)
(* not restarted, nor a Cloud Run service scaled: the answer is a message. *)
CloudMessages ==
  [restart_lambda |-> Acts({<<>>}), scale_cloud_run |-> Acts({<<>>})]
AwsInstance   == [restart_ec2 |-> Acts(One("do"))]
AwsService    == [restart_ecs |-> Acts(One("do")), scale_ecs |-> Acts(One("do"))]
GcpInstance   == [restart_gce |-> Acts(One("do"))]
GcpService    == [restart_cloud_run |-> Acts({<<"need", "do">>})]
AzureInstance == [restart_azure_vm |-> Acts(One("do"))]
AzureService ==
  [restart_app |-> Acts(One("do")), restart_function |-> Acts(One("do")),
   scale_app |-> Acts({<<"need", "do">>})]
Instances == AwsInstance @@ GcpInstance @@ AzureInstance
Services  == CloudMessages @@ AwsService @@ GcpService @@ AzureService

(* tools/cicd_tools.py and github_tools.py, which do not look either.      *)
RetryGithub  == [retry_github |-> Acts(One("do"))]
RetryGitlab  == [retry_gitlab |-> Acts(One("do"))]
RetryJenkins == [retry_jenkins |-> Acts(One("do"))]
RetryAzure   == [retry_azure |-> Acts(One("do"))]
RetryBamboo  == [retry_bamboo |-> Acts(One("do"))]
Retries == RetryGithub @@ RetryGitlab @@ RetryJenkins @@ RetryBamboo @@ RetryAzure
PullRequest  == [github_pr |-> Acts({<<"need", "need", "do", "blank", "do", "do">>})]
MergeRequest == [gitlab_mr |-> Acts({<<"blank", "do", "do", "do">>})]
BitbucketPr  == [bitbucket_pr |-> Acts({<<"need", "need", "do", "do", "do">>})]
AzurePr      == [azure_pr |-> Acts({<<"need", "need", "blank", "do", "do">>})]
PullRequests == PullRequest @@ MergeRequest @@ BitbucketPr @@ AzurePr
(* A version is set and then built, whatever becomes of the build.         *)
Queued == {<<"do", "try">>, <<"need", "do", "try">>}
BambooVersion ==
  [bamboo_increment |-> Acts(Queued \cup {<<"do">>, <<"need", "do">>}),
   patch_bamboo |-> Acts(Queued \cup {<<"do">>})]
BambooCheck == [bamboo_check |-> Reads({<<"told", "told">>})]

-----------------------------------------------------------------------------
(* tools/k8s_tools.py, helm_tools.py and argocd_tools.py.  A manifest is   *)
(* retained for approval; a command is posted as it is, and a file named   *)
(* in it is gone when it is clicked; what Argo CD posts is no command.     *)
ApplyManifest ==
  [k8s_apply |->
     [Asks("reference", One("run"), One("halt")) EXCEPT !.asking = One("halt")]]
RollbackDeployment == [k8s_rollback |-> Asks("command", One("run"), {})]
RollbackRelease    == [helm_rollback |-> Asks("command", One("run"), {})]
UpgradeRelease ==
  [helm_upgrade |-> Asks("command", One("run"), One("halt")),
   helm_upgrade_values |-> Asks("file", One("run"), One("halt"))]
SyncApp     == One("do")
RollbackApp == {<<"need", "do", "try">>}
SyncApplication == [argocd_sync |-> Asks("label", SyncApp, One("need"))]
RollbackApplication ==
  [argocd_rollback |->
     [Asks("label", RollbackApp \cup {<<"need">> \o way : way \in RollbackApp}, {})
        EXCEPT !.asking = {<<>>, <<"need">>}]]

(* tools/executor.py: a command that only reads is run, and one that       *)
(* changes something when AUTO_APPLY was on as the executor was made.      *)
Judged(row) == [Command(row) EXCEPT !.gate = "built", !.carries = "command"]
Kubectl ==
  [kubectl_read |-> Command(Reads(One("halt"))),
   kubectl_change |-> Judged(Reads(One("run")))]
Shell ==
  [shell_read |-> Command(Reads(One("halt"))),
   shell_change |-> [Judged(Reads(One("run"))) EXCEPT !.hosted = TRUE]]

(* tools/iac_tools.py                                                      *)
Terraform == [terraform |-> Reads(One("halt"))]

-----------------------------------------------------------------------------
(* tools/disk_cleanup.py, nginx_tools.py and security_updates.py.  What    *)
(* nginx_config saves and puts back is HostFix's.                          *)
InspectDisk == [inspect_disk |-> Reads({<<"told", "told", "told", "told">>})]
CleanupLogs ==
  [cleanup |-> OnHost({<<"blank", "mark">>, <<"blank", "mark", "mark">>}, One("blank"))]
InstallCron == [install_cron |-> OnHost({<<"try", "try">>}, {<<>>})]
DiagnoseNginx ==
  [diagnose_nginx |-> Reads({<<"told", "told", "told", "told", "told">>,
                             <<"told", "told", "told", "told", "told", "blank">>})]
NginxConfig ==
  [nginx_config |-> OnHost({<<"run", "halt">>, <<"run", "halt", "run">>}, {})]
NginxRestart ==
  [nginx_restart |-> OnHost({<<"halt", "blank", "run">>,
                             <<"run", "halt", "halt", "blank", "run">>}, {})]
RenewCertificates ==
  [renew_certificates |-> OnHost({<<"blank", "run", "halt", "try">>}, {<<"blank", "halt">>})]
SecurityUpdates == [security_updates |-> OnHost(One("run"), One("halt"))]

-----------------------------------------------------------------------------
(* What DevOpsAgent._execute_tool can call, in the order it asks.          *)
AwsTools   == AwsCompute @@ AwsContainers @@ AwsData @@ AwsNetwork @@ AwsServices
AzureTools == AzureCompute @@ AzureApps @@ AzureData @@ AzureNetwork
GcpTools   == GcpCompute @@ GcpServices @@ GcpData @@ GcpGroups
PipelineTools ==
  KubernetesContext @@ ApplyManifest @@ Kubectl @@ RollbackDeployment
    @@ Shell @@ GithubLogs @@ GitlabLogs @@ JenkinsLogs @@ BambooLogs @@ AzureLogs
    @@ Retries @@ PullRequests @@ ArgoStatus @@ SyncApplication
    @@ RollbackApplication @@ ArgoHistory
HostTools ==
  HelmRelease @@ RollbackRelease @@ UpgradeRelease @@ Terraform
    @@ AwsTools @@ AzureTools @@ GcpTools
    @@ Instances @@ Services
    @@ InspectDisk @@ CleanupLogs @@ InstallCron @@ DiagnoseNginx
    @@ NginxConfig @@ NginxRestart @@ RenewCertificates @@ SecurityUpdates
EvidenceTools ==
  BambooCheck @@ BambooVersion @@ Metrics @@ TracesAndLogs @@ People @@ StatusPage
    @@ Databases @@ Recovery
ReviewTools == Stores @@ Changes @@ Reviews @@ ChangeLists

Tools == PipelineTools @@ HostTools @@ EvidenceTools @@ ReviewTools
=============================================================================
