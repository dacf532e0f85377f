--------------------------- MODULE IncidentQueue ---------------------------
(***************************************************************************)
(* The durable incident queue and the background worker that drains it:    *)
(* services/incident_queue.py for incidents without a review identity,     *)
(* services/background_lock.py, and the worker half of api/server.py       *)
(* (lifespan, _queue_worker_loop, process_incident).                       *)
(*                                                                         *)
(* The object store holds one record per incident under queue/pending,     *)
(* queue/processing, queue/completed and queue/failed; a record carries    *)
(* nothing the properties tell apart, so each prefix is the set of the     *)
(* incidents that have a record there.  One storage call is one step.      *)
(* A process is an API process: it is down, it serves webhooks only, or it *)
(* holds its host's background lock and runs the worker loop.              *)
(*                                                                         *)
(* A storage call may raise with or without having taken effect, a process *)
(* may be killed between any two calls, and a shutdown cancels the worker  *)
(* at an await.  The three counters at the end bound how often.            *)
(***************************************************************************)
EXTENDS Naturals, FiniteSets

CONSTANTS
  Incident,      \* incident ids
  Org,           \* organisations
  OrgOf,         \* the organisation of an incident
  Configured,    \* organisations named by ORG_ID and ORG_IDS
  Process,       \* API processes
  Host,          \* machines
  HostOf,        \* where a process runs: the lock file is per host
  NoIncident,    \* "no current incident"
  NoOrg,         \* "no current organisation"
  MaxRestarts,   \* bound on kills and shutdowns
  MaxFaults,     \* bound on storage calls and notifications that raise
  MaxResubmits   \* bound on repeated submissions of a caller-chosen id

ASSUME OrgAssumption ==
  /\ OrgOf \in [Incident -> Org]
  /\ Configured \subseteq Org
ASSUME HostAssumption == HostOf \in [Process -> Host]
ASSUME NullAssumption == NoIncident \notin Incident /\ NoOrg \notin Org
ASSUME BoundAssumption ==
  MaxRestarts \in Nat /\ MaxFaults \in Nat /\ MaxResubmits \in Nat

VARIABLES
  pending, processing, completed, failed,  \* the store: ids with a record
  holder,     \* processes that hold their host's background lock
  pc,         \* what a process is about to do
  org,        \* the organisation the worker is at
  todo,       \* organisations left in this poll
  keys,       \* listed keys the worker has yet to look at
  cur,        \* the incident the worker is at
  accepted,   \* history: ids returned to a submitter
  licensed,   \* history: ids that have a run coming to them
  restarts, faults, resubmits

store   == <<pending, processing, completed, failed>>
local   == <<org, todo, keys, cur>>
history == <<accepted, licensed>>
budget  == <<restarts, faults, resubmits>>
vars    == <<store, holder, pc, local, history, budget>>

(* Program points after a claim and before the claim's record is gone.     *)
RunPoint ==
  {"run", "completePut", "completeDelete", "failPut", "failDelete"}
(* Program points that are about one incident.                             *)
CurPoint ==
  RunPoint \cup {"recoverPut", "recoverDelete", "claimCreate", "claimDelete",
                "claimUndo", "notify", "notifyError"}
(* Program points at which the worker awaits, so that a shutdown's         *)
(* cancellation can reach it: failPut, because escalate is awaited before  *)
(* mark_failed.                                                            *)
AwaitPoint == {"sleep", "run", "failPut", "notify", "notifyError"}
WorkerPoint ==
  CurPoint \cup AwaitPoint \cup {"next", "recover", "claim", "cancelled"}
Point == WorkerPoint \cup {"down", "serving"}

Stored == pending \cup processing \cup completed \cup failed

(* The worker of p is handling i, on the strength of a processing record.  *)
Runs(p, i) == pc[p] \in RunPoint /\ cur[p] = i
Running(i) == i \in processing /\ \E p \in Process : Runs(p, i)

Goto(p, point) == pc' = [pc EXCEPT ![p] = point]

Init ==
  /\ pending = {} /\ processing = {} /\ completed = {} /\ failed = {}
  /\ holder = {}
  /\ pc = [p \in Process |-> "down"]
  /\ org = [p \in Process |-> NoOrg]
  /\ todo = [p \in Process |-> {}]
  /\ keys = [p \in Process |-> {}]
  /\ cur = [p \in Process |-> NoIncident]
  /\ accepted = {} /\ licensed = {}
  /\ restarts = 0 /\ faults = 0 /\ resubmits = 0

-----------------------------------------------------------------------------
(* Submission.  A webhook draws a fresh id; an MCP client may name the id  *)
(* itself and so may submit it again.                                      *)
(* Mutant: a submission is dropped, though acknowledged, while the id runs. *)
MutEnqueueDrops(i) ==
  /\ IF i \in accepted
     THEN resubmits < MaxResubmits /\ resubmits' = resubmits + 1
     ELSE resubmits' = resubmits
  /\ pending' = IF i \in processing THEN pending ELSE pending \cup {i}
  /\ licensed' = licensed \cup {i}
  /\ accepted' = accepted \cup {i}
  /\ UNCHANGED <<processing, completed, failed, holder, pc, local, restarts, faults>>

enqueue(i) ==
  /\ IF i \in accepted
     THEN resubmits < MaxResubmits /\ resubmits' = resubmits + 1
     ELSE resubmits' = resubmits
  /\ pending' = pending \cup {i}
  /\ licensed' = licensed \cup {i}
  /\ \/ accepted' = accepted \cup {i} /\ UNCHANGED faults
     \/ \* stored, but the acknowledgement is lost and the caller sees an error
        /\ faults < MaxFaults /\ faults' = faults + 1
        /\ UNCHANGED accepted
  /\ UNCHANGED <<processing, completed, failed, holder, pc, local, restarts>>

-----------------------------------------------------------------------------
(* Process lifecycle.                                                      *)
(* Mutant: every process locks a file of its own.                          *)
MutLockFree(p) == TRUE

LockFree(p) == \A q \in holder : HostOf[q] # HostOf[p]

(* lifespan startup: a non-blocking flock, tried once.  A start that fails *)
(* (the lock's file, the adoption of older reviews) leaves the process     *)
(* down: no step, or, seen from a process that finds the lock taken        *)
(* meanwhile, a start and a kill.                                          *)
Start(p) ==
  /\ pc[p] = "down"
  /\ IF LockFree(p)
     THEN holder' = holder \cup {p} /\ Goto(p, "sleep")
     ELSE UNCHANGED holder /\ Goto(p, "serving")
  /\ UNCHANGED <<store, local, history, budget>>

Forget(p) ==
  /\ org' = [org EXCEPT ![p] = NoOrg]
  /\ todo' = [todo EXCEPT ![p] = {}]
  /\ keys' = [keys EXCEPT ![p] = {}]
  /\ cur' = [cur EXCEPT ![p] = NoIncident]

(* An interrupted run leaves its record behind and is owed another run.    *)
Interrupt(p) ==
  licensed' = IF pc[p] \in RunPoint /\ cur[p] \in processing
              THEN licensed \cup {cur[p]} ELSE licensed

(* The process is killed; the kernel drops its flock with it.              *)
Crash(p) ==
  /\ pc[p] # "down"
  /\ restarts < MaxRestarts /\ restarts' = restarts + 1
  /\ Goto(p, "down")
  /\ holder' = holder \ {p}
  /\ Forget(p)
  /\ Interrupt(p)
  /\ UNCHANGED <<store, accepted, faults, resubmits>>

(* lifespan shutdown: cancel the tasks and wait for them, ...              *)
Cancel(p) ==
  /\ pc[p] \in AwaitPoint
  /\ restarts < MaxRestarts /\ restarts' = restarts + 1
  /\ Goto(p, "cancelled")
  /\ Forget(p)
  /\ Interrupt(p)
  /\ UNCHANGED <<store, holder, accepted, faults, resubmits>>

(* ... and only then release the lock.                                     *)
release_background_worker_lock(p) ==
  /\ pc[p] = "cancelled"
  /\ holder' = holder \ {p}
  /\ Goto(p, "down")
  /\ UNCHANGED <<store, local, history, budget>>

-----------------------------------------------------------------------------
(* What the storage call at the worker's program point does to the store.  *)

Write(p) ==
  LET i == cur[p] IN
  \/ /\ pc[p] = "recoverPut"
     /\ pending' = pending \cup {i}
     /\ UNCHANGED <<processing, completed, failed>>
  \/ /\ pc[p] = "claimCreate"
     /\ processing' = processing \cup {i}
     /\ UNCHANGED <<pending, completed, failed>>
  \/ /\ pc[p] = "claimDelete"
     /\ pending' = pending \ {i}
     /\ UNCHANGED <<processing, completed, failed>>
  \/ /\ pc[p] \in {"recoverDelete", "claimUndo", "completeDelete", "failDelete"}
     /\ processing' = processing \ {i}
     /\ UNCHANGED <<pending, completed, failed>>
  \/ /\ pc[p] = "completePut"
     /\ completed' = completed \cup {i}
     /\ UNCHANGED <<pending, processing, failed>>
  \/ /\ pc[p] = "failPut"
     /\ failed' = failed \cup {i}
     /\ UNCHANGED <<pending, processing, completed>>

(* A step of the worker that leaves the rest of the system alone.          *)
Quiet == UNCHANGED <<holder, accepted, budget>>

-----------------------------------------------------------------------------
(* _queue_worker_loop                                                      *)

(* Mutant: organisations are not discovered from queue keys.               *)
MutListConfigured == Configured

list_pending_org_ids ==
  Configured \cup {OrgOf[i] : i \in pending \cup processing}

Poll(p) ==
  /\ pc[p] = "sleep"
  /\ todo' = [todo EXCEPT ![p] = list_pending_org_ids]
  /\ Goto(p, "next")
  /\ UNCHANGED <<store, org, keys, cur, licensed>> /\ Quiet

(* The next organisation: recover_stale_processing lists its processing    *)
(* records.  When none is left the worker sleeps until the next poll.      *)
NextOrg(p) ==
  /\ pc[p] = "next"
  /\ \/ \E o \in todo[p] :
          /\ org' = [org EXCEPT ![p] = o]
          /\ todo' = [todo EXCEPT ![p] = @ \ {o}]
          /\ keys' = [keys EXCEPT ![p] = {i \in processing : OrgOf[i] = o}]
          /\ cur' = [cur EXCEPT ![p] = NoIncident]
          /\ Goto(p, "recover")
     \/ /\ todo[p] = {}
        /\ Forget(p)
        /\ Goto(p, "sleep")
  /\ UNCHANGED <<store, licensed>> /\ Quiet

RecoverGet(p) ==
  /\ pc[p] = "recover"
  /\ \E i \in keys[p] :
       /\ keys' = [keys EXCEPT ![p] = @ \ {i}]
       /\ IF i \in processing
          THEN cur' = [cur EXCEPT ![p] = i] /\ Goto(p, "recoverPut")
          ELSE UNCHANGED <<cur, pc>>
  /\ UNCHANGED <<store, org, todo, licensed>> /\ Quiet

RecoverPut(p) ==
  /\ pc[p] = "recoverPut"
  /\ Write(p)
  /\ Goto(p, "recoverDelete")
  /\ UNCHANGED <<local, licensed>> /\ Quiet

RecoverDelete(p) ==
  /\ pc[p] = "recoverDelete"
  /\ Write(p)
  /\ cur' = [cur EXCEPT ![p] = NoIncident]
  /\ Goto(p, "recover")
  /\ UNCHANGED <<org, todo, keys, licensed>> /\ Quiet

ClaimList(p) ==
  /\ pc[p] = "recover" /\ keys[p] = {}
  /\ keys' = [keys EXCEPT ![p] = {i \in pending : OrgOf[i] = org[p]}]
  /\ Goto(p, "claim")
  /\ UNCHANGED <<store, org, todo, cur, licensed>> /\ Quiet
(* Mutant: the claim is made by deleting the pending record alone.         *)
MutClaimGetDeletes(p) ==
  /\ pc[p] = "claim"
  /\ \E i \in keys[p] :
       /\ keys' = [keys EXCEPT ![p] = @ \ {i}]
       /\ cur' = [cur EXCEPT ![p] = i]
       /\ Goto(p, "claimDelete")
  /\ UNCHANGED <<store, org, todo, licensed>> /\ Quiet

ClaimGet(p) ==
  /\ pc[p] = "claim"
  /\ \E i \in keys[p] :
       /\ keys' = [keys EXCEPT ![p] = @ \ {i}]
       /\ IF i \in pending
          THEN cur' = [cur EXCEPT ![p] = i] /\ Goto(p, "claimCreate")
          ELSE UNCHANGED <<cur, pc>>
  /\ UNCHANGED <<store, org, todo, licensed>> /\ Quiet
(* Mutant: the processing record is not written.                           *)
MutClaimCreateSkips(p) ==
  /\ pc[p] = "claimCreate"
  /\ Goto(p, "claimDelete")
  /\ UNCHANGED <<store, local, licensed>> /\ Quiet

(* put_json_if_absent of the processing record: the claim proper.          *)
ClaimCreate(p) ==
  /\ pc[p] = "claimCreate"
  /\ IF cur[p] \in processing
     THEN /\ cur' = [cur EXCEPT ![p] = NoIncident]
          /\ Goto(p, "claim")
          /\ UNCHANGED store
     ELSE Write(p) /\ Goto(p, "claimDelete") /\ UNCHANGED cur
  /\ UNCHANGED <<org, todo, keys, licensed>> /\ Quiet
(* Mutant: delete's answer is read the wrong way round.                    *)
MutClaimDeleteInverted(p) ==
  /\ pc[p] = "claimDelete"
  /\ Write(p)
  /\ IF cur[p] \in pending
     THEN Goto(p, "claimUndo") /\ UNCHANGED licensed
     ELSE Goto(p, "run") /\ licensed' = licensed \ {cur[p]}
  /\ UNCHANGED local /\ Quiet

(* delete reports whether the key was there; only then is the entry        *)
(* returned to the worker and its run begins.                              *)
ClaimDelete(p) ==
  /\ pc[p] = "claimDelete"
  /\ Write(p)
  /\ IF cur[p] \in pending
     THEN Goto(p, "run") /\ licensed' = licensed \ {cur[p]}
     ELSE Goto(p, "claimUndo") /\ UNCHANGED licensed
  /\ UNCHANGED local /\ Quiet

ClaimUndo(p) ==
  /\ pc[p] = "claimUndo"
  /\ Write(p)
  /\ cur' = [cur EXCEPT ![p] = NoIncident]
  /\ Goto(p, "claim")
  /\ UNCHANGED <<org, todo, keys, licensed>> /\ Quiet

ClaimNone(p) ==
  /\ pc[p] = "claim" /\ keys[p] = {}
  /\ Goto(p, "next")
  /\ UNCHANGED <<store, local, licensed>> /\ Quiet

-----------------------------------------------------------------------------
(* process_incident: the agent run, escalation and audit, then the verdict. *)
(* Mutant: a failing run loses its entry.                                  *)
MutRunLosesEntry(p) ==
  /\ pc[p] = "run"
  /\ Goto(p, "failPut")
  /\ cur' = [cur EXCEPT ![p] = NoIncident]
  /\ UNCHANGED <<store, org, todo, keys, licensed>> /\ Quiet

RunEnds(p) ==
  /\ pc[p] = "run"
  /\ \E point \in {"completePut", "failPut"} : Goto(p, point)
  /\ UNCHANGED <<store, local, licensed>> /\ Quiet

(* mark_completed and mark_failed: the verdict, then the processing record. *)
Verdict(p) ==
  \/ /\ pc[p] = "completePut" /\ Write(p) /\ Goto(p, "completeDelete")
     /\ UNCHANGED <<local, licensed>> /\ Quiet
  \/ /\ pc[p] = "failPut" /\ Write(p) /\ Goto(p, "failDelete")
     /\ UNCHANGED <<local, licensed>> /\ Quiet
DeleteProcessing(p) ==
  \/ /\ pc[p] = "completeDelete" /\ Write(p) /\ Goto(p, "notify")
     /\ UNCHANGED <<local, licensed>> /\ Quiet
  \/ /\ pc[p] = "failDelete" /\ Write(p) /\ Goto(p, "notifyError")
     /\ UNCHANGED <<local, licensed>> /\ Quiet

Notified(p) ==
  /\ pc[p] \in {"notify", "notifyError"}
  /\ Goto(p, "next")
  /\ UNCHANGED <<store, local, licensed>> /\ Quiet

-----------------------------------------------------------------------------
(* A storage call or a notification raises.  In process_incident's try     *)
(* block the exception lands in its except branch; elsewhere (in the       *)
(* credential overlay before the try block, in the except branch itself,   *)
(* in recovery or in a claim) it ends the poll.  An exception of the agent *)
(* run itself is RunEnds and needs no budget.                              *)

Handler(point) ==
  IF point \in {"completePut", "completeDelete", "notify"}
  THEN "failPut" ELSE "sleep"

Raise(p) ==
  /\ pc[p] \in WorkerPoint \ {"sleep", "cancelled"}
  /\ faults < MaxFaults /\ faults' = faults + 1
  /\ \/ UNCHANGED store
     \/ /\ pc[p] = "claimCreate" => cur[p] \notin processing
        /\ Write(p)
  /\ Goto(p, Handler(pc[p]))
  /\ IF Handler(pc[p]) = "sleep"
     THEN /\ Forget(p)
          /\ licensed' = IF pc[p] \in RunPoint /\ cur[p] \in processing'
                         THEN licensed \cup {cur[p]} ELSE licensed
     ELSE UNCHANGED <<local, licensed>>
  /\ UNCHANGED <<holder, accepted, restarts, resubmits>>

-----------------------------------------------------------------------------
WorkerStep(p) ==
  \/ Poll(p) \/ NextOrg(p)
  \/ RecoverGet(p) \/ RecoverPut(p) \/ RecoverDelete(p)
  \/ ClaimList(p) \/ ClaimGet(p) \/ ClaimCreate(p) \/ ClaimDelete(p)
  \/ ClaimUndo(p) \/ ClaimNone(p)
  \/ RunEnds(p) \/ Verdict(p) \/ DeleteProcessing(p) \/ Notified(p)

Lifecycle(p) ==
  \/ Start(p) \/ Crash(p) \/ Cancel(p) \/ release_background_worker_lock(p)

Next ==
  \/ \E i \in Incident : enqueue(i)
  \/ \E p \in Process : Lifecycle(p) \/ WorkerStep(p) \/ Raise(p)

Spec == Init /\ [][Next]_vars

(* The event loop keeps running the worker task; a run ends because the    *)
(* agent loop is bounded by max_steps and its calls by timeouts; a process *)
(* that went down is started again by its supervisor; a shutdown proceeds. *)
Fairness ==
  \A p \in Process :
    /\ WF_vars(WorkerStep(p))
    /\ WF_vars(Start(p))
    /\ WF_vars(release_background_worker_lock(p))

FairSpec == Spec /\ Fairness
=============================================================================
