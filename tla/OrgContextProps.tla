--------------------------- MODULE OrgContextProps ---------------------------
(***************************************************************************)
(* What is claimed of OrgContext.                                          *)
(***************************************************************************)
EXTENDS OrgContext

Values == [Key -> Owner]
SavedValues == UNION {[keys -> Owner] : keys \in SUBSET Key}

(* Every variable keeps its type.                                          *)
TypeOK ==
  /\ role \in {"api", "mcp"}
  /\ stored \in [Org -> SUBSET Key]
  /\ env \in Values /\ clients \in Values /\ gate \in Owner
  /\ saves \in [Task -> Seq(SavedValues)]
  /\ since \in [Task -> SUBSET Task]
  /\ kind \in [Task -> Kind \cup {"none"}]
  /\ active \in [Task -> Org] /\ serves \in [Task -> Org]
  /\ retained \subseteq [by : Org, bound : Org]
  /\ crossed \in BOOLEAN

(* No task is in a scope, and more than one is.                            *)
Idle    == \A t \in Task : kind[t] = "none"
Overlap == \E t \in Task : since[t] # {}

(* The environment is the server's own again once all scopes are left,     *)
(* although credentials are configured and deleted in between; a click     *)
(* that comes then is judged by its own organisation's approvers, or the   *)
(* server's.                                                               *)
RestoredWhenIdle ==
  Idle => env = AtStart /\ \A o \in Org : ApproversOf(o) \in {o, Server, Unset}

(* A run that is alone is served by its own clients, or the server's.      *)
OwnWhenAlone ==
  ~Overlap => \A t \in Task : kind[t] # "none" =>
                \A k \in Key : clients[k] \in {serves[t], Server, Unset}

(* Both, as long as no scope was left before one that was entered after    *)
(* it: what runs share, they share by crossing or overlapping only.        *)
SharedOnlyByOverlap == ~crossed => RestoredWhenIdle /\ OwnWhenAlone

(* What the documents say: a run never uses the keys of another            *)
(* organisation.  While two overlap, the clients are of whichever entered  *)
(* or left a scope last.                                                   *)
OwnClients ==
  \A t \in Task : kind[t] # "none" =>
    \A k \in Key \ {AutoApply, Approvers} : clients[k] \in {serves[t], Server, Unset}

(* An approval is bound to the organisation whose run asks for it, however *)
(* many runs share the process meanwhile.                                  *)
BoundToItsOrg == \A a \in retained : a.bound = a.by

(* A change of a host goes unapproved only by the organisation's own       *)
(* AUTO_APPLY, or the server's.                                            *)
OwnAutoApply == \A t \in Task : Ungated(t) => gate \in {serves[t], Server}

(***************************************************************************)
(* The inductive invariant behind SharedOnlyByOverlap.                     *)
(***************************************************************************)

(* The keys that a task's scopes put back.                                 *)
Keys(t) == IF saves[t] = <<>> THEN {} ELSE DOMAIN saves[t][1]

(* With the scopes of T left, those that were entered last first, k has    *)
(* one of the values: it has now, if none of T puts it back, or it is what *)
(* the first of T that puts it back has saved.                             *)
Under(T, k, values) ==
  /\ (\A u \in T : k \notin Keys(u)) => env[k] \in values
  /\ \A u \in T :
       k \in Keys(u) /\ (\A v \in T : u \in since[v] => k \notin Keys(v))
       => saves[u][1][k] \in values

(* Tasks in scopes are ordered, and an inner scope saves no other keys.    *)
ScopeInv ==
  /\ clients = env
  /\ \A t \in Task :
       /\ IF kind[t] = "none" THEN saves[t] = <<>> /\ since[t] = {}
                              ELSE Len(saves[t]) \in {1, 2}
       /\ Len(saves[t]) = 2 => DOMAIN saves[t][2] \subseteq DOMAIN saves[t][1]
  /\ \A t, u \in Task :
       kind[t] # "none" /\ kind[u] # "none" /\ t # u => t \in since[u] \/ u \in since[t]

Own(t)   == {serves[t], Server, Unset}
First(t) == kind[t] # "none" /\ \A u \in Task : t \notin since[u]

(* Under all scopes lies the environment of the start, and under those     *)
(* within its own the first task's.                                        *)
RestInv == \A k \in Key : Under(Task, k, {AtStart[k]})
OwnInv ==
  \A t \in Task : First(t) =>
    \A k \in Key :
      /\ Under(since[t], k, Own(t))
      /\ Len(saves[t]) = 2 /\ k \in DOMAIN saves[t][2] => saves[t][2][k] \in Own(t)

NestInv == ScopeInv /\ (~crossed => RestInv /\ OwnInv)
=============================================================================
