----------------------------- MODULE OrgContext -----------------------------
(***************************************************************************)
(* services/org_context.py: the credentials of an organisation, laid over  *)
(* the environment of the process for as long as one of its runs lasts.    *)
(*                                                                         *)
(* Tasks of one event loop serve the organisations: in the API server the  *)
(* queue worker and the approved actions, in the MCP server tool calls and *)
(* diagnoses.  All share os.environ, the clients built from it and the     *)
(* attribute agent.auto_apply.  A step is what a task does between two     *)
(* awaits; entering and leaving a scope hold none.                         *)
(*                                                                         *)
(* A value stands for whose it is: an organisation's, the server's own, or *)
(* nobody's (Unset).                                                       *)
(***************************************************************************)
EXTENDS Sequences, Functions

CONSTANTS
  Task,
  Org,
  DefaultOrg,   \* ORG_ID: the organisation the environment itself serves
  Key,          \* ORG_CREDENTIAL_KEYS, ...
  AutoApply,    \* ... AUTO_APPLY and ...
  Approvers,    \* ... SLACK_APPROVER_IDS among them
  ServerKeys,   \* keys the server is started with
  WillingOwner  \* those whose AUTO_APPLY is "true"

ASSUME KeyAssumption == AutoApply \in Key /\ Approvers \in Key
ASSUME OrgAssumption == DefaultOrg \in Org /\ ServerKeys \subseteq Key

Server == "server"
Unset  == "unset"
Owner  == Org \cup {Server, Unset}

VARIABLES
  role,       \* which process this is
  stored,     \* the keys in an organisation's credentials.json
  env,        \* whose value os.environ holds for a key
  clients,    \* whose values the agent's clients were built from
  gate,       \* whose AUTO_APPLY agent.auto_apply was read from
  saves,      \* what a task's open scopes saved, the inner one last
  since,      \* the tasks that entered after a task and have not left
  kind,       \* what a task is
  active,     \* the context variable _active_org, by task
  serves,     \* history: the organisation a task was started for
  retained,   \* history: approvals asked for: by whose run, bound to whom
  crossed     \* history: a scope was left before one entered after it

run    == <<kind, active, serves>>
scopes == <<saves, since>>
vars   == <<role, stored, env, clients, gate, scopes, run, retained, crossed>>

AtStart == [k \in Key |-> IF k \in ServerKeys THEN Server ELSE Unset]
Kind    == {"worker", "approved", "tool", "diagnose"}

Init ==
  /\ role \in {"api", "mcp"}
  /\ stored \in [Org -> SUBSET Key]
  /\ env = AtStart /\ clients = AtStart
  /\ gate = AtStart[AutoApply]
  /\ saves = [t \in Task |-> <<>>]
  /\ since = [t \in Task |-> {}]
  /\ kind = [t \in Task |-> "none"]
  /\ active = [t \in Task |-> DefaultOrg]
  /\ serves = [t \in Task |-> DefaultOrg]
  /\ retained = {} /\ crossed = FALSE

-----------------------------------------------------------------------------
(* resolve_org_credentials: what is stored, over what the environment      *)
(* holds if it is said to be this organisation's.                          *)
CredentialKeys(o, e) ==
  stored[o] \cup (IF o = DefaultOrg THEN {k \in Key : e[k] # Unset} ELSE {})

Overlay(o, e) == [k \in Key |-> IF k \in stored[o] THEN o ELSE e[k]]
Saved(o, e)   == Restrict(e, CredentialKeys(o, e))

(* Mutant: the environment becomes what was saved of it.                   *)
MutBackup(saved, e) == saved

(* Mutant: a value the environment lacked is left in it.                   *)
MutRestore(saved, e) ==
  [k \in Key |-> IF k \in DOMAIN saved /\ saved[k] # Unset THEN saved[k] ELSE e[k]]

Restore(saved, e) == [k \in Key |-> IF k \in DOMAIN saved THEN saved[k] ELSE e[k]]

-----------------------------------------------------------------------------
(* PUT and DELETE /orgs/{org_id}/config, configure_org_credentials.        *)
Configure(o) ==
  /\ \E keys \in SUBSET Key : stored' = [stored EXCEPT ![o] = keys]
  /\ UNCHANGED <<role, env, clients, gate, scopes, run, retained, crossed>>

(* A task enters a scope, or two with no await between: the caller's and,  *)
(* inside it, the agent's own.                                             *)
Push(t, saved) ==
  /\ saves' = [saves EXCEPT ![t] = saved]
  /\ since' = [x \in Task |-> IF saves[x] # <<>> THEN since[x] \cup {t} ELSE {}]

EnterOnce(t, o) ==
  /\ env' = Overlay(o, env)
  /\ clients' = env'
  /\ Push(t, <<Saved(o, env)>>)
  /\ UNCHANGED gate

(* The run then reads AUTO_APPLY.                                          *)
EnterTwice(t, o) ==
  LET outer == Overlay(o, env)
  IN  /\ env' = Overlay(o, outer)
      /\ clients' = env'
      /\ gate' = env'[AutoApply]
      /\ Push(t, <<Saved(o, env), Saved(o, outer)>>)

(* Mutant: the active organisation is one for the process.                 *)
MutBecome(t, o, what) ==
  /\ kind' = [kind EXCEPT ![t] = what]
  /\ active' = [x \in Task |-> o]
  /\ serves' = [serves EXCEPT ![t] = o]

Become(t, o, what) ==
  /\ kind' = [kind EXCEPT ![t] = what]
  /\ active' = [active EXCEPT ![t] = o]
  /\ serves' = [serves EXCEPT ![t] = o]

(* The queue worker takes one incident at a time; the MCP server serves    *)
(* requests as they come.                                                  *)
Start(t) ==
  /\ kind[t] = "none"
  /\ \E o \in Org :
       /\ \/ role = "api" /\ (\A x \in Task : kind[x] # "worker") /\ Become(t, o, "worker")
          \/ role = "mcp" /\ \E what \in {"tool", "diagnose"} : Become(t, o, what)
       /\ EnterTwice(t, o)
  /\ UNCHANGED <<role, stored, retained, crossed>>

(* _slack_approvers: a scope that is left before anything is awaited.      *)
ApproversOf(o) == Overlay(o, env)[Approvers]

(* A click on an approval: unless the list denies it, the approved action  *)
(* is run as a task in a scope of the organisation the button names.       *)
SlackClick(t) ==
  /\ role = "api" /\ kind[t] = "none"
  /\ \E a \in retained :
       /\ Become(t, a.bound, "approved")
       /\ EnterOnce(t, a.bound)
  /\ UNCHANGED <<role, stored, retained, crossed>>

(* A run may change a host (_execute_host_mutation): at once, where        *)
(* agent.auto_apply was read from a willing owner, ...                     *)
InRun(t)   == kind[t] \in {"worker", "tool", "diagnose"} /\ Len(saves[t]) = 2
Ungated(t) == InRun(t) /\ gate \in WillingOwner

(* ... or the change is retained for approval.                             *)
AskApproval(t) ==
  /\ InRun(t) /\ ~Ungated(t)
  /\ retained' = retained \cup {[by |-> serves[t], bound |-> active[t]]}
  /\ UNCHANGED <<role, stored, env, clients, gate, scopes, run, crossed>>

-----------------------------------------------------------------------------
(* What a scope saved is put back, then the clients are built again.       *)
Unwind(t, e) ==
  IF Len(saves[t]) = 2
  THEN Restore(saves[t][1], Restore(saves[t][2], e))
  ELSE Restore(saves[t][1], e)

(* Only the worker awaits between leaving its two scopes, to escalate.     *)
LeaveInner(t) ==
  /\ kind[t] = "worker" /\ Len(saves[t]) = 2
  /\ env' = Restore(saves[t][2], env)
  /\ clients' = env'
  /\ saves' = [saves EXCEPT ![t] = <<@[1]>>]
  /\ crossed' = (crossed \/ since[t] # {})
  /\ UNCHANGED <<role, stored, gate, since, run, retained>>

Leave(t) ==
  /\ kind[t] # "none"
  /\ kind[t] = "worker" => Len(saves[t]) = 1
  /\ env' = Unwind(t, env)
  /\ clients' = env'
  /\ saves' = [saves EXCEPT ![t] = <<>>]
  /\ since' = [x \in Task |-> IF x = t THEN {} ELSE since[x] \ {t}]
  /\ crossed' = (crossed \/ since[t] # {})
  /\ Become(t, DefaultOrg, "none")
  /\ UNCHANGED <<role, stored, gate, retained>>

Next ==
  \/ \E o \in Org : Configure(o)
  \/ \E t \in Task :
       Start(t) \/ SlackClick(t) \/ AskApproval(t)
       \/ LeaveInner(t) \/ Leave(t)

Spec == Init /\ [][Next]_vars
=============================================================================
