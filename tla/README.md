# Verification of the DevOps agent

TLA+ models of the parts of the open-devops-agent that keep state and can go
wrong in ways a unit test hardly reaches, TLC runs that check them on small
instances, and TLAPS proofs of what matters most for instances of every size.

Run inside this directory:

    tlc -workers 2 -config MCQueueOneHost.cfg MCIncidentQueue.tla
    tlapm IncidentQueueProofs.tla

Five further configurations each show one disagreement between code and
documents that section 11 describes; TLC ends with the counterexample:

    tlc -config MCQueueTwoHostsTwice.cfg MCIncidentQueue.tla    # ClaimedByOne
    tlc -config MCDedupeTwice.cfg MCAlertDedupe.tla             # QueuedOnceAWindow
    tlc -config MCAgentUnverified.cfg MCAgentLoop.tla           # EveryFixIsVerified
    tlc -config MCOrgKeys.cfg MCOrgContext.tla                  # OwnClients
    tlc -config MCHostRestored.cfg MCHostFix.tla                # RestoredIsBack

`PROJECT.json` lists every run, every theorem, every mutant, the source lines a
definition stands for, and the hazards of the code with the properties that
watch them.

Contents: [1 the system](#1-the-system) - [2 the modules](#2-the-modules) -
[3 the incident queue](#3-the-incident-queue) - [4 command approvals](#4-command-approvals) -
[5 alert deduplication](#5-alert-deduplication) - [6 code reviews](#6-code-reviews) -
[7 the agent's run](#7-the-agents-run) - [8 organisation context](#8-organisation-context) -
[9 tools and their answers](#9-tools-and-their-answers) -
[10 a change of a host and its verification](#10-a-change-of-a-host-and-its-verification) -
[11 what the checks found](#11-what-the-checks-found) -
[12 what is not modelled](#12-what-is-not-modelled) - [13 plan](#13-plan)

## 1 The system

Alerts, builds and operators hand incidents to an HTTP API (or to an MCP
server). The API stores each as a JSON object in a queue on an object store
and answers at once. A background worker, one for each host, claims incidents
one after another and runs an LLM agent on each; the agent collects evidence
and calls tools, some of which run commands on hosts behind safety gates and
human approvals; it ends with a resolution, an escalation or an error, and the
worker stores the verdict.

### Components

| Component | Code | State it keeps | Operations |
|---|---|---|---|
| Incident queue | `services/incident_queue.py` | objects under `queue/{pending,processing,completed,failed}` | `enqueue`, `claim_next`, `recover_stale_processing`, `mark_completed`, `mark_failed`, `list_pending_org_ids`, status |
| Background worker | `api/server.py` (`lifespan`, `_queue_worker_loop`, `process_incident`), `services/background_lock.py` | a host-wide file lock, an asyncio task | start, poll, run, shutdown |
| Code-review attempts | `services/incident_queue.py` | heads, dedupe index, claims, terminal fences, per-attempt queue keys | enqueue of a review, adoption of legacy records, the review halves of claim, recovery and verdict |
| Command approvals | `services/approval_store.py` | `reserved.json` slots and `command.json` payloads | `retain`, `resolve`, `cleanup` |
| Alert deduplication | `services/alert_dedupe.py`, the alert webhooks | one marker for each alert and organisation | `claim` |
| Incident store | `services/incident_store.py` | audit entries, logs, checkpoints, index | read, write, `apply_retention` |
| Agent loop | `agent/core.py`, `agent/grounding.py` | conversation, step count, checkpoint | tool loop, resume, evidence reminders, escalation |
| Command execution | `tools/executor.py`, `tools/safety.py`, the gates in `agent/core.py` | AUTO_APPLY flags, emergency-stop file, audit log | classify, gate, ask for approval, execute |
| Agent tools | `tools/*.py`, `tools/observability.py`, cloud, CI and review tools | none between calls | a sequence of external calls each |
| Collectors | `collectors/*.py` | none between calls | a sequence of reads each |
| Organisation context | `services/org_context.py`, `services/org_config.py` | an overlay of `os.environ`, the clients built from it | enter, leave, configure |
| Fix verification | `tools/fix_verifier.py` | counters of one verification | look at once, monitor |
| Host operations | `tools/nginx_tools.py`, `tools/disk_cleanup.py` | files on a host | backup, write, test, reload, roll back |
| Object storage | `storage/*.py` | the objects | put, conditional create, conditional replacement, list, delete |
| Middleware | `middleware/app.py` | none | allow list, forwarding |
| Notifiers, metrics, scrubbing, command line | `services/`, `devops_agent/` | none between calls | one external call each |

### How they interact

* API and worker share nothing but the object store: a webhook puts a pending
  record and the worker of some process finds it by listing. Several API
  processes, on one host or several, work over one store.
* The worker calls the agent inside an organisation's credential overlay; the
  agent calls the executor; the executor calls the approval store, which is
  also called by the API process that an operator's client talks to.
* Alert webhooks claim a marker before they enqueue; retention deletes markers,
  verdicts and reviews behind everybody's back.

### What is hard

* **No transactions.** The store has atomic single-object operations only.
  Every move of a record between prefixes is several calls, each of which may
  fail, may fail after it took effect, or may be the last the process makes.
* **Processes come and go.** Kills, rolling restarts and shutdowns that cancel
  the worker's task at an `await`.
* **Senders repeat themselves**: alert replicas, webhook retries, MCP clients
  that choose the id.
* **Clocks.** Expiry and windows are computed from clocks of several machines,
  read before the call whose outcome they judge.
* **Shared process state.** The credential overlay, the emergency stop and
  AUTO_APPLY are looked at at one time and relied on at another.

### What makes each component correct

* Queue: an accepted incident is never lost, runs in one worker at a time, is
  run only as often as it is owed a run, and reaches a verdict.
* Review attempts: no attempt starts after it ended; a completed review is
  never repeated; one live attempt for each identity; a terminal record is
  written once.
* Approvals: a reference releases its command once; it stays usable until it
  is spent or has expired; admission is bounded.
* Deduplication: an alert that keeps firing is queued once a window; what is
  answered as a duplicate is being handled.
* Agent loop: a resumed run continues where its checkpoint was; a conclusion
  counts as resolved only if its evidence supports it.
* Command execution: nothing is changed under the emergency stop, nor by a gated
  tool without AUTO_APPLY or a posted approval.
* Tools: an answer that the agent takes for evidence was read, one that it takes
  for a fix was done.
* Organisation context: an agent run sees its own organisation's credentials.
* Host operations and fix verification: a change that fails leaves what was
  there; a fix called verified is in place and was up.

## 2 The modules

| Module | What it is |
|---|---|
| `IncidentQueue` | the queue, the host lock and the worker, call by call |
| `QueueContract` | what the queue promises about one incident (abstract) |
| `IncidentQueueProps` | properties, inductive invariant, refinement mapping |
| `IncidentQueueProofs` | proofs |
| `MCIncidentQueue` + `MCQueue*.cfg` | four TLC instances |
| `ApprovalStore`, `ApprovalStoreProps`, `ApprovalStoreProofs` | approvals: model, properties, invariants and refinement mapping, proofs |
| `ApprovalContract` | what the approval store promises about references (abstract) |
| `MCApprovalStore` + `MCApprovals.cfg` | a TLC instance |
| `AlertDedupe`, `AlertDedupeProps`, `AlertDedupeProofs` | deduplication: model, properties and invariants, proofs |
| `MCAlertDedupe` + `MCDedupe*.cfg` | two TLC instances |
| `ReviewQueue`, `ReviewQueueProps`, `ReviewQueueProofs` | code reviews in the queue, with retention of their records: model, properties, invariant and refinement mapping, proofs |
| `ReviewContract` | what the queue promises about the attempts of one head (abstract) |
| `MCReviewQueue` + `MCReviews*.cfg` | two TLC instances |
| `AgentLoop`, `AgentLoopProps`, `AgentLoopProofs` | one incident's run, its grounding, checkpoints and verdict: model, properties and invariant, proofs |
| `MCAgentLoop` + `MCAgent*.cfg` | two TLC instances |
| `OrgContext`, `OrgContextProps`, `OrgContextProofs` | one environment shared by the runs of organisations: model, properties, proofs |
| `MCOrgContext` + `MCOrg*.cfg` | three TLC instances |
| `ToolTable` | the calls each tool makes, as data |
| `ToolCall`, `ToolCallProps`, `ToolCallProofs` | a call of a tool, its gates, its approval and the clicks on it, over any table; uses `ApprovalContract`: model, properties, proofs |
| `MCToolCall` + `MCTools.cfg` | a TLC instance over `ToolTable` |
| `HostFix`, `HostFixProps`, `HostFixProofs` | changes of nginx, command by command, and the verification of one: model, properties, proofs |
| `MCHostFix` + `MCHost*.cfg` | two TLC instances |

How they compose: `IncidentQueue` implements `QueueContract`, `ReviewQueue`
implements `ReviewContract` and `ApprovalStore` implements `ApprovalContract`,
to which `ToolCall`, that uses it, is proved to keep. `AgentLoop` is one run of
`IncidentQueue`'s worker, and a call of its tools is one of `ToolCall`'s.

Conventions. One storage call, or one reading of a clock that later code relies
on, is one step; everything a process does between two of them is part of the
step. A process's place in its code is `pc` (`cpc` and `wpc` for callers and
the worker of `ReviewQueue`); a point is named for the call that
comes next. Lists that code iterates over are sets, because the order of keys
is the store's. Definitions whose names begin with `Mut` are plausible mistakes
in the definition that follows them; they are used by no specification, and
for each there is a property that TLC finds violated when the mistake takes the
definition's place.

## 3 The incident queue

### State and actions

`pending`, `processing`, `completed`, `failed` are the ids with an object under
the prefix of that name. `holder` is the set of processes with the flock of
their host. Each process has a `pc` (`down`, `serving` without the lock,
or a point of the worker loop), the organisations and keys it listed and has
yet to visit (`todo`, `keys`) and the incident it is at (`cur`).

| Code | Actions |
|---|---|
| `enqueue` (webhooks draw a fresh id, MCP clients may repeat one) | `enqueue` |
| `lifespan` start, `acquire_background_worker_lock` | `Start` |
| `lifespan` shutdown: cancel, wait, release | `Cancel`, `release_background_worker_lock` |
| `_queue_worker_loop` | `Poll`, `NextOrg` |
| `recover_stale_processing` | `NextOrg` (its listing), `RecoverGet`, `RecoverPut`, `RecoverDelete` |
| `claim_next` | `ClaimList`, `ClaimGet`, `ClaimCreate`, `ClaimDelete`, `ClaimUndo`, `ClaimNone` |
| `process_incident` | `RunEnds`, `Notified` |
| `mark_completed`, `mark_failed` | `Verdict`, `DeleteProcessing` |
| any call that raises, with or without effect | `Raise` |
| a kill | `Crash` |

The whole agent run is one step, `RunEnds`, that ends in a result or an error;
what it does inside is the subject of `AgentLoop` (section 7). A shutdown reaches the
worker at an `await` only: its sleep, the run, the notifications, and the
escalation that precedes `mark_failed`. A process that did not get the lock at
start never tries again. A start that fails (on the lock's file, or on adopting
older reviews) leaves the process down, to be started again: it is a `Start`
that a kill follows, or none. `accepted` (ids a submitter was given) and `licensed`
(ids that have a run coming to them) are history variables.

Abstractions. A record's content is left out. `delete` is one step, and
answers whether the key was there: on S3, GCS and Azure it is an existence test
and then a deletion. With one worker nothing comes between the two, so the
single-host runs and proofs are of the code; with two hosts the real delete is
weaker still than the modelled one.

### The contract

`QueueContract` says what a submitter may rely on, with no store and no
processes: an incident is absent, queued, running or done; a submission, and a
run cut short, license one run, and a run uses a licence up. Its liveness: an
incident that is queued is begun, and one begun again and again is carried to
a verdict (strong fairness, since kills may cut runs short). `phase` in
`IncidentQueueProps` reads the phase off the records and program points.

### Runs

| Run | Instance | Shows |
|---|---|---|
| `queue_one_host` | 2 processes on one host, 2 incidents of 2 organisations (one not configured), 2 kills or shutdowns, 1 failing call, 1 repeated submission | `TypeOK`, `Durable`, `ClaimedByOne`, `RunIsRecoverable`, `ImplementsContract`; under fairness `ImplementsFairContract` |
| `queue_two_hosts` | a worker on each of 2 hosts, 2 incidents, a kill and a failed call | `StrandedOnlyByFailures` |
| `queue_two_hosts_loss` | 1 incident, with a kill | a violation of `Accounted`: finding 1 |

`StrandedOnlyByFailures` is what holds on any number of hosts. An accepted
incident is stranded when it is neither waiting, nor decided, nor being run; a
processing record may still name it, for a recovery to find, or none. A kill, a
shutdown or a failed call strands one incident at most, and nothing else does:
however the claims and recoveries of two hosts interleave, an incident is
stranded only with a failure to blame. The violating run shows the other side:
with a kill a stranded incident may be left without any record.

The bounds. Two processes are the worker and the process that takes over from
it; the lock keeps a third out. Two incidents of two organisations make the
loop pass over one to get to the other, and let a poll end between them. Two
kills allow a crash during the recovery from a crash. A failed call may take
effect or not, and its exception lands in the handler of the point it is at.
With a kill between the verdict and the deletion of the processing record a
completed incident is run again, and may fail: the contract allows it. With two
hosts a kill and a failed call are the two causes `StrandedOnlyByFailures`
counts, one for each of the two incidents.

### Fairness

`FairSpec` has weak fairness of a process's worker step (the event loop keeps
scheduling the task; an agent run ends, because the loop is bounded by
`max_steps` and its calls by timeouts), of `Start` (a supervisor restarts the
service: `restart: unless-stopped`, a Kubernetes deployment), and of the
release of the lock once the shutdown is under way. No fairness is assumed of
submissions, kills or failures: there are finitely many of the latter, so
nothing is claimed of a store that fails for ever. Nor is there any for two
hosts: they can put back and run one incident again and again without end.

### Proofs

`IncidentQueueProofs` proves for every set of incidents, organisations and
processes and every bound:

* `TypeCorrect`, on any number of hosts;
* `DurableAlways`, `ClaimedByOneAlways`, `RunIsRecoverableAlways`, from the
  assumption `SingleHost` (all processes run on one machine);
* `ContractImplemented`: `Spec => Contract!Spec` under `SingleHost`;
* `StrandedOnlyByFailuresAlways` and `AccountedWithoutFailures`, on any number
  of hosts: the latter is `Accounted` for as long as nothing is killed and no
  call fails.

None of the three invariants is inductive. `QueueInv` adds what they rest on:
`LockInv` (a process at a point of the worker loop holds the lock, and the lock
has one holder for each host), which makes the worker unique (`OneWorker`), and
`StepInv` (what the store holds at each program point: for instance the record
that recovery is about to delete from processing is in pending by then, and
`claimUndo` is unreachable). With a unique worker the store changes under it by
submissions only, and those only add to pending, so `StepInv` is preserved.
`LicenceInv` ties the history variable to the records: the ids owed a run are
those in pending and those in processing that nobody runs. The refinement has
one lemma for each kind of step (`SubmitMaps`, `FinishMaps`, `CutShortMaps`,
`WorkerMaps`, `RaiseMaps`, `LifecycleMaps`): each maps to a step of the
contract or to a stutter. The one that is not obvious is a failure of the call
after the deletion of a processing record: the run has ended for the contract,
and the handler's `mark_failed` is a stutter on what is already done.

With several hosts none of `QueueInv` is left to build on: another host's worker
may delete any processing record at any time. What is left is that no step
takes a verdict back and a worker writes it before it deletes (`VerdictInv`),
and a count. `StrandedIs` puts what is stranded as the incidents that nobody
has queued or decided (`Undecided`) less those that some worker runs. A worker's
own step adds none (`WorkerStrands`): it takes an incident out of pending only
into its own hands, and lets go of it only when it is queued or decided. A kill
or a failed call adds at most the one its worker had in hand (`FailureStrands`),
and raises `restarts` or `faults` by one (`OneStranded`). Like every result about
two hosts, these two are about a store that deletes in one step.

Liveness (`ImplementsFairContract`) is checked by TLC only. `ClaimedByOne` does
not hold with a worker on each of two hosts: see section 11.

## 4 Command approvals

### State and actions

A reference stands for its identifier: the second it was created (its expiry is
one TTL later), its admission slot and a random part, which is a number drawn
once. `reserved` is the set of slots with a `reserved.json`; `payload` and
`terminal` say what the object of a reference holds. Callers are requests in
several processes; each has a `pc`, its reference, and what its cleanup listed
and has yet to delete (`stale`). `executions` counts how often the command of
an issued reference was released; `spent` records what was consumed. There is a
clock for each machine, and clocks need not agree.

| Code | Actions |
|---|---|
| `cleanup` | listing in `BeginRetain`/`BeginResolve`, then `CleanupDelete`, object by object |
| `retain` | `CleanedRetain`, `Reserve` (slot after slot), `Probe` and `Put` (`_create_atomically` and the fencing probe), `Recheck`, `Drop` |
| `resolve` | `CleanedResolve`, `Read`, `Compare` and `Replace` (`_consume_existing`), `CheckSpent`, `Grant`, `Release`, `Drop` |
| a kill or a raising call | `Abort` |

The store is of one of four kinds: `memory` compares and deletes under its
lock; `s3` replaces conditionally and probes first that the server fences a
replacement of an absent object; `versioned` (GCS, Azure) skips the probe;
`unfenced` is an S3-compatible server that lets the replacement through, which
the probe must find. The command, host and organisation are bound in the
payload, never change, and are left out. In a cleanup the reading of the clock
and the listing are one step: a listing that is later sees more objects, all of
which are judged by the older time, and which are younger than it.

### Runs and proofs

`approvals`: two callers on machines with clocks of their own, a TTL of 2
ticks, 2 slots to a window, clocks up to 4 (two windows, so that the cleanup of
a window happens), stores `memory`, `s3` and `unfenced`, every caller killed
anywhere. It checks

* `SpentOnce`: no command is released twice;
* `Available`: an issued reference that is not spent has its payload until
  *some* clock shows it expired;
* `OneLivePerSlot`: payloads that no clock shows expired share no slot, so
  there are at most `PerWindow` of each window;
* `ImplementsContract`: the store implements `ApprovalContract`, in which a
  reference is issued once, may lapse at any time, and releases its command
  while it is live, which ends its life. A reference is `live` while its payload
  is there, and, once that is consumed, in the hands of the one caller that
  consumed it: so the lapse of a reference whose consumer is killed, and the
  release by a caller whose own read is long past, map to single steps.

Callers and clocks that are renamed together are interchangeable, hence the
symmetry. `MaxRetains` bounds when a retention may start; `versioned` differs from `s3`
by one step less and is left to the proofs.

`ApprovalStoreProofs` proves `TypeCorrect`, `SpentOnceAlways`,
`AvailableAlways`, `OneLivePerSlotAlways` and the refinement,
`ContractImplemented`, for any number of callers, any
assignment of clocks, any TTL and window size and all four kinds of store. The
inductive invariants: `IdInv` (random ids are drawn once; what a retention is
busy with is nobody else's, and what a resolution is at was issued), `FenceInv`
(behind an unfenced server nothing is ever retained), `SpendInv` (a consumed
payload is gone for good, and one caller, or one execution, has it), `StaleInv`
(what a cleanup is about to delete has expired by some clock), `RecheckInv`
(so has what is returned without its payload) and `AdmissionInv` (a slot about
to be freed is of a window all of whose references have expired; each live
payload, and each retention that will write one, holds a slot of its own). The
arithmetic is in `WindowBounds`, `WindowsApart` and `TimesMono`.

## 5 Alert deduplication

### State and actions

An alert stands for its identity (organisation, fingerprint, `startsAt`).
`marker[a]` is the stored marker: the incident it names and the time it was
claimed. A handler serves one request that lists some alerts, and takes them in
any order: `EnqueueAlert` (draws the incident's id and reads the clock),
`ClaimMarker` (`put_json_if_absent`), `ReadMarker` (duplicate, or its window is
over), `Overwrite` (`put_json`), `EnqueueIncident`. `Abort` is a kill or a call
that raises. `RetentionRead` and `RetentionDelete` are the two calls retention
makes for a marker. `claims` and `answers` are history variables.

The clock advances past a busy handler by `Patience` at the most (requests are
served in seconds), and `RetentionAssumption`, `Window + Patience <= Retention`,
says that retention, in days, exceeds a window, of an hour, and a request.
Handlers read one clock.

### Runs and proofs

`dedupe`: 2 alerts, 2 handlers, a window of 2, retention of 3, one request cut
short, time up to 4. It checks `TypeOK`, `RepeatsOnlyAfterCooldown` and
`LostOnlyByAborts`.

What the code does guarantee is `RepeatsOnlyAfterCooldown`: two claims of an
alert within a window of each other happen only once a window has passed since
an earlier claim of it. Retention and overwriting do not break the first
window. What the documentation says, that an alert is queued once in every
window (`QueuedOnceAWindow`), does not hold; nor that what is answered as a duplicate is always being
handled: see section 11. `LostOnlyByAborts` says how far: each request that is
cut short loses at most one incident, of all that were claimed or given as the
original of a duplicate, and nothing else loses any. Time 4 lets a window end, a
marker be retained out and an alert be claimed anew. Alerts, and handlers, are
interchangeable, hence the symmetry; no liveness is checked with it.

`AlertDedupeProofs` proves `TypeCorrect`, `RepeatsOnlyAfterCooldownAlways` and
`LostOnlyByAbortsAlways` for any number of alerts and handlers. `DedupeInv` adds `BusyInv` (a busy
handler's time is at most `Patience` old) and `MarkerInv` (a marker is of a
claim; an alert that was claimed and has no marker has a claim older than
retention; a handler about to overwrite saw a claim that is a window old).
`AgedCooled` is where `RetentionAssumption` is used. `LostInv` is for the other:
`LostOnlyByAborts` needs `NamedInv`, that a marker names an incident that was
claimed, so that a duplicate's answer promises nothing new. `StepLost` shows
that a step adds to what is lost only if it cuts a request short, and then one
incident; what is lost is a subset of the ids drawn, hence finite, and the rest
is counting.

## 6 Code reviews

### State and actions

`ReviewQueue` is about one review identity: an organisation, a platform, a
repository, a change and a head commit. Its attempts are numbered by their slot
in `review_heads`; `heads` counts the slots, `legacy` is the record of the
older format, and `rec` is the rest of the store:

| `rec` | Key in the store | Written by |
|---|---|---|
| `pending` | `queue/pending/<id>` | publication; deleted at the end, by recovery, claim and retention |
| `index` | `review_dedupe/<id>` | publication, claim, recovery, both verdicts; deleted by a failure |
| `claim` | `review_claims/<id>` | claim, both verdicts, retention; deleted by recovery |
| `failed` | `queue/failed/<id>` | a failure |
| `terminal` | `review_releases/<id>` | both verdicts, and a delivery that finishes a failure; never changed |

| Code | Actions |
|---|---|
| `enqueue` of a review | `Deliver`, `LookUp` (`List`, `GetLegacy`, `NextAttempt`, `GetFailed`, `RecordTerminal`), `Answer` |
| `_reserve_review_slot` | `_reserve_review_slot` |
| `_publish_review` | `_publish_review` (`ReadIndex`, `Publish`, `DeletePending` and tests) |
| `adopt_legacy_reviews`, `_adopt_legacy_review` | the same names, `DeleteLegacy` |
| `recover_stale_processing` | `recover_stale_processing`, `RecoverFailed` |
| `claim_next` | `claim_next`, `ClaimPut` |
| `process_incident` | `RunEnds`, `Notified` |
| `mark_completed`, `mark_failed`, `_finish_review`, `_record_terminal` | `mark_completed`, `mark_failed`, `FailPut` |
| `apply_retention` | `RetentionPick`, `RetentionLegacy`, `RetentionWrite` |
| a caller that is killed, or whose call raises | `Stop` |
| a call of the worker, or of retention, that raises | `Raise`, `RetentionRaises` |
| a kill, a shutdown and a start of the worker | `Crash`, `Start` |

Every reading and every writing call is a step of its own, except that the four
reads that follow a failed put of the pending record are one. The table
`Writes` lists the worker's writes.

What is abstracted, and why that is sound:

* The worker is one process, the holder of the host's lock; that there is only
  one is what section 3 proves. Retention runs in the worker's event loop and
  makes its calls without awaiting, so it breaks in only where the worker
  awaits (`AwaitPoint`).
* The age of records: any attempt that has ended may be old enough at any time,
  and retention may take its records in any order.
* The content of a slot is the attempt it names. The mismatch of a slot with an
  adopted id, and a verdict for an attempt with no record to make an entry of,
  raise or fall back in the code; `LegacyIsTaken` and `VerdictFindsRecord` say
  that neither happens. The compact claim that retention leaves for an id of
  the older format matters to nobody, since no attempt has that id unless it
  was adopted, and is left out.
* Adoption at the start of a process is an action of callers: it runs before
  the worker's loop begins, and in processes without the lock as well.

### Runs

| Run | Instance | Shows |
|---|---|---|
| `reviews` | 2 callers, 2 attempts, no older record, callers stopped anywhere | `AttemptsInTurn`, `AnswerIsGood` |
| `reviews_live` | 1 caller, 2 attempts, an older record that is active or failed, the worker killed or its calls failing twice anywhere, under fairness | `TypeOK`, `VerdictFindsRecord`, `LegacyIsTaken`, `ImplementsContract`, `EveryReviewEnds` |

* `AttemptsInTurn`, of two parts. `OneAtATime`: all attempts before the latest
  have failed, on record, so an identity has one live attempt, and none after it
  completed. `EndedIsFinal`: no attempt is run that has ended, or has a failure
  on record, however old the listing, the claim or the publication that led to
  it.
* `AnswerIsGood`, of two parts. `AnswerIsSafe`: a sender is given the id of an
  attempt that is queued, with what the worker needs, or has ended.
  `FailedIsRetried`: a delivery is not answered with an attempt that had failed
  before it came in.
* `ImplementsContract`: the queue implements `ReviewContract`. Each attempt is
  opened behind one that failed, accepted, run and perhaps cut short, and then
  completed, or put on record as failing and carried through to failed; there
  is no other way from one of these phases to another. `phase` reads the phase
  off the records and the worker's point: a run lasts from its start until the
  verdict or the failed record is written. `SafeForGood`, that a safe attempt
  stays so through every kill, failed call, late deletion and retention,
  follows: no phase leads back to "open".
* `LegacyIsTaken`: active work of the older format is taken over by an attempt
  that bears its id, and its record goes only when that attempt is safe.
* `EveryReviewEnds`: a safe attempt gets its verdict.

The bounds. Two callers are two deliveries, or a delivery that was delayed and
one that overtakes it; with stops anywhere a third adds another of either. Two
attempts are a failed one and the one that follows it; the guard of
`_reserve_review_slot` lets no third begin, a caller that wants one stays
there or stops, and none comes once both attempts have failed (the guard of
`Deliver`). Two faults are a kill, and another during the recovery from it.
Faults of the worker are in the second run, with one caller at a time; two
callers and faults together are beyond five minutes. Callers are
interchangeable, hence the symmetry of the first run; no liveness is checked
with it. Deadlock is checked.

Fairness: `WF` of `Start` and of retention, as in section 3, and `SF` of the
worker. The worker waits at an `await` while retention works, so its step is
disabled again and again if there are always records to expire; the event loop
runs each ready task in turn, so it gets its turn nevertheless. Nothing is
assumed of callers: none has to finish for an attempt to end.

### Proofs

`ReviewQueueProofs` proves `TypeCorrect`, `AttemptsInTurnAlways`,
`AnswerIsGoodAlways`, `VerdictFindsRecordAlways`, `SafeForGoodAlways`,
`LegacyIsTakenAlways` and `ContractImplemented` for any number of callers,
attempts and faults, from `LegacyAssumption` and `BoundAssumption` alone. None
of them is inductive; `ReviewInv` adds

* `RecordInv`: how the records of an attempt go together. What is claimed, has
  failed, or has an index beyond pending is still listed, or has ended (`Kept`);
  what is listed has an index, a failure or a verdict (`Lodged`); what is
  completed has its claim;
* `CallerInv`: what a caller knows at its point, however long ago it read it: a
  slot is reserved only after a failed attempt, or as the first one with no
  active older record left aside (`ReservesNext`); what had failed before the
  delivery is behind it (`LeavesBehind`);
* `WorkerInv`, `RetentionInv`, `VerdictInv`: the same of the worker, of the pass
  that breaks into its awaits, and of what leads up to a verdict.

The argument is in two lemmas. `StepWrites`: whoever takes a step, the store
changes by one of ten kinds of write, each under what is known then (`Allowed`).
`WriteLasts`: under such a write, verdicts, and what is kept, broken or lodged,
stay so; so what a process once read is still good when it acts on it, and the
rest is a case for each program point.

The refinement needs one fact more, that an attempt about to be recorded as
completed has not failed (`CompletesUnfailed`). Then it has two halves.
`PhaseAdvances`: seen from one attempt, every step is a step of the contract
or a stutter; most of it is `WriteLasts` again. `TouchesOne`: a step changes the
phase of one attempt at the most, though it may move the worker from one to
another, or break off one's run while retention is at a second one's records.
`OpensBehind` has the one guard that looks at two attempts: whoever reserves a
slot has read, at some time, the failure of the attempt before it, and verdicts last.

`EveryReviewEnds` is liveness, and is checked by TLC only.

## 7 The agent's run

### State and actions

`AgentLoop` is about one incident that the queue hands to the worker, from
then until its record is gone, and again if it is still owed a verdict or is
submitted anew. In the store there are `owed` (it is pending or processing),
`checkpoint`, `audit` and `verdict`; in memory `steps`, `actions` (the calls of
tools made), `reminders`, `last` (what the conversation ends with), `left` (calls
of the last answer yet to be made) and `result`. `told` says that the run has
escalated. `done`, `unproved` and `calls` are history: what was really done
since the last run that found no checkpoint began, whether the agent remembers
it or not.

| Code | Actions |
|---|---|
| `run`, `load_checkpoint` | `Begin`, `load_checkpoint`, `_collect_context` |
| the loop: one answer of the model, its tools one by one, the results, the checkpoint | `_call_claude`, `_execute_tool`, `save_log`, `save_checkpoint` |
| `end_turn`: `validate_resolution`, a reminder or a conclusion | `end_turn` (`Remind`, `ConcludeWith`) |
| `verify_fix`, the end of a run | `verify_fix`, `save_conversation`, `delete_checkpoint` |
| out of steps, or an answer that was cut off | `give_up` |
| `_process_incident_with_org_creds` | `process_incident`, its handler `handle_error` |
| `EscalationService.evaluate`, `escalate` | `evaluate`, `escalate` |
| a call that raises, with or without effect | `Raise` |
| a kill or a shutdown | `Kill` |
| a client that submits the id again | `Resubmit` |

What is abstracted: the model answers anything, and a tool ends in any way; a
call is a tool of one of the three kinds that grounding knows, with an outcome;
`actions` is a set, because grounding asks only whether some call is of a kind
and ended well; an answer's text either has an evidence section or not, and
claims a fix or not. The retries of a call to the model keep no state. A
verification ends either way. The queue's part is what section 3 proves: one
run at a time, and another after one that was cut short. The audit entry and
the verdict are the last of their key.

### Runs

`agent`: 3 steps of 1 or 2 tool calls, 4 calls (a collector that fails, a command
that is evidence and a fix or evidence only, suggestions), types that require
evidence and that do not, 1 reminder, 2 kills or raising calls anywhere, 1
resubmission, under fairness.

* `ResolvedIsSupported`: what is called resolved rests on calls that were made
  and ended well, those before a resume included.
* `FixIsVerified`: a run that says resolved, and knows of every fix that was
  made, has verified them all. Without the second condition, as
  `EveryFixIsVerified`, it does not hold: see section 11.
* `CallsAreAnswered`: no conversation goes to the model, from whatever
  checkpoint, in which a complete answer's tool calls have no results.
* `ProgressKept`: a checkpoint is never replaced by one with fewer steps or
  calls.
* `SettledIsTold`: no incident is settled as anything but resolved before
  people were told, nor, unless it failed, before its audit entry says the
  same. A failed one gets its verdict first, and a kill in between leaves it
  without the entry.
* `EventuallySettled`: the incident gets a verdict.

The bounds. Three steps are a reminder or a call of tools, another, and the
conclusion; one reminder instead of the code's two lets reminders run out
before the steps do. Two faults are a kill, and another in the resumed run.
Two calls in an answer let the second be cut off after the first. The
resubmission finds what each way to end has left: nothing, the checkpoint of a
run that gave up, or that of one that failed. When all these are used up and
the incident is settled, nothing is left to do: deadlock is not checked.

Fairness: `WF` of what the worker does, for the reasons of section 3. The model
and each tool answer or time out.

### Proofs

`AgentLoopProofs` proves every property of the list but the last, and
`TypeCorrect`, for any sets of tools and calls and all bounds; and
`StepBudgetAlways`: resuming does not multiply the steps, the model is called
`max_steps` times, and once more for each kill or error. Reminders are counted
anew by each resumed run, so it is the checkpoint after a reminder that bounds
them. The module assumes that calls are of the known tools (`CallAssumption`) and
that the bounds are numbers (`BoundAssumption`). None of the invariants is
inductive; `AgentInv` adds

* `MemoryInv`: what memory holds at which point; nothing is called resolved
  before a conclusion;
* `DoneInv`: what the agent remembers, in memory or in the checkpoint, was done,
  and what is unproved is a fix that was done. So a conclusion on what is
  remembered is one on what was done, and a run that remembers no fix, and has
  forgotten none, has none to verify;
* `CheckpointInv`: while a conversation goes on, the checkpoint is one step
  behind at the most, and none when the model is about to be called. So a kill
  or an error costs one step, which is what `BudgetInv` counts;
* `AnswerInv`: no conversation is saved between an answer and the results of
  its calls;
* `ToldInv`: on the way to `mark_completed` or `mark_failed` people have been
  told, or need not be.

Each has a lemma for its step, with a case for each action (`StepDone`,
`StepCheckpoint`, ...). `StoreSteps` says which actions change the checkpoint
and the verdict; with it the two action properties follow from the invariant.
`EventuallySettled` is checked by TLC only.

## 8 Organisation context

### State and actions

`org_context` lays an organisation's stored credentials over `os.environ` for as
long as one of its runs lasts, builds the agent's clients from the result, and
puts back what it saved. All runs of a process share the one environment, the
clients and the attribute `agent.auto_apply`. A value stands for whose it is:
an organisation's, the server's own, or nobody's.

| Code | Actions |
|---|---|
| the worker's incident, an MCP tool call, an MCP diagnosis | `Start` (two scopes, the caller's and the agent's, and the reading of AUTO_APPLY) |
| a Slack click on an approval | `SlackClick` (one scope) |
| `_slack_approvers` | `ApproversOf`: a scope without an `await` |
| `_execute_host_mutation`, approval wanted | `AskApproval`; not wanted: `Ungated` |
| leaving a scope | `LeaveInner` (the worker awaits before it leaves the outer), `Leave` |
| `PUT`/`DELETE /orgs/{id}/config`, `configure_org_credentials` | `Configure` |

A step is what a task does between two awaits. The context variable
`_active_org` is each task's own, which is what `active` says. `crossed` is
history: some scope was left before one that was entered after it.

### Runs and proofs

| Run | Instance | Shows |
|---|---|---|
| `org_context` | 2 tasks, 2 organisations, one of them the server's own, 2 keys, every configuration of both, the API and the MCP process | `TypeOK`, `SharedOnlyByOverlap`, `BoundToItsOrg` |
| `org_context_gate` | the same | a violation of `OwnAutoApply`: finding 2 |

* `SharedOnlyByOverlap`: as long as scopes nest, the environment is the server's
  own again once all are left, although credentials were configured and deleted
  meanwhile, and a run that is alone has its own clients. Crossing scopes break
  both; the condition says that nothing else does. While two runs overlap the
  clients may be another organisation's (`OwnClients` does not hold): see
  section 11.
* `BoundToItsOrg`: an approval is bound to the organisation whose run asks for
  it, whatever the environment is then.

Two tasks are the fewest that overlap and cross; a third crosses in pairs as
well. Two keys are the flag that a run copies and one it does not. Deadlock is
checked. `OrgContextProofs` proves `TypeCorrect`, `BoundAlways` and
`SharedOnlyByOverlapAlways` for any tasks, organisations and keys. The last
needs to know what each scope of a stack saved, and `NestInv` says it key by
key, without a recursion over the stack: `Under` says of a set of tasks that
with all of them gone a key has one of some values, for either none of them puts
it back and it has one now, or the first that puts it back has saved one. Under
all tasks lies the value of the start (`RestInv`), under those above the first
task a value of its own (`OwnInv`). `EnterUnder` and `LeftUnder` carry `Under`
over entering and over the last task's leaving; `LastIsOver`, that tasks in
scopes are ordered, puts the one that leaves above all others.

## 9 Tools and their answers

### State and actions

`ToolTable` is data: for each tool, told apart by platform where its calls
differ, a row with the role that grounding gives it, whether the emergency stop
refuses it, its gate, what its approval carries, and the ways it makes its
calls. A way is a sequence of calls, each of a kind that says what its failure
does to the answer: ends it with an error, ends it with `success` False, goes on
and says so, goes on and says nothing. The comment at the head of the module lists
the kinds. A loop stands for one round.

`ToolCall` gives any such table its behaviour:

| Code | Actions |
|---|---|
| the gates of `_execute_tool`, `_require_approval`, `_execute_host_mutation`, `SafeExecutor` | `Refuse`, `Rehearse`, `Act`, `Ask` |
| a call that succeeds; fails, with or without effect; takes effect later | `Succeed`, `Fail`, `TakesEffect` |
| the answer | `Answered` |
| an approval: retained or handed out; refused; posted by the model | `Request`, `CannotRequest`, `Notify` |
| a click in Slack | `Approve`, `ApproveInVain`, `GiveUp` (its 60 s time-out) |
| a kill and a restart, with a changed environment | `Restart` |

A job counts the reads that succeeded, the writes it began, those that took
effect, and those given up that still may. Retained references are those of
`ApprovalContract`, which `ApprovalStore` implements (section 4): a reference
may lapse, and releases its operation once. `Setting` is the environment at
start: the emergency stop, AUTO_APPLY as a run reads it, as the executor
found it when it was made, and the flag for posting reviews.

### Runs and proofs

`tools`: one call of any tool in the table, two clicks on its approval, one
restart, every setting.

* `EvidenceWasRead`: an answer that `has_tool_evidence` takes for evidence comes
  from a call that read something. The tools in `NothingRead` are the
  exceptions: their answers hide that no read succeeded.
* `AppliedWasDone`: an answer that `has_successful_remediation` takes for a fix
  means that every write that was begun took effect, and there was one; except
  for dry runs, and the tools in `NothingDone`.
* `ActedWithLicence`: whatever is changed was let, by AUTO_APPLY as the tool
  reads it, by a posted approval, or by a tool of `NoGate`, which asks for
  neither; nothing that began under the emergency stop changes anything; and
  one click on a reference at the most changes something, on the host that was
  asked.

The three lists are part of what the run shows: a tool added to the table, or a
failure newly swallowed, that is not in them is a violation.

One call, because calls follow one another and share nothing but the
environment; two clicks on one approval, because the second is the case that
matters; a restart between any two of these. Clicks are interchangeable, hence
the symmetry. `Settings` leaves out combinations under the stop that let less
pass. When call and clicks are used up nothing is left to do: deadlock is not
checked.

`ToolCallProofs` proves `TypeCorrect`, `ActedWithLicenceAlways`,
`EvidenceWasReadAlways` and `AppliedWasDoneAlways` for any number of calls,
clicks and restarts, and for any table whose rows satisfy four assumptions,
which TLC evaluates for the table of the code:

* `RowAssumption`: rehearsals, and tools that the stop lets pass, only read;
* `UngatedAssumption`: a tool with no gate that is not in `NoGate` only reads;
* `HearsayAssumption`: a tool of evidence that is not in `NothingRead` makes,
  before any call whose failure may leave an answer with `success` False, one
  whose failure ends it with an error (`Guarded`), and at least one whose
  failure shows in the answer (`Informs`);
* `UnverifiedAssumption`: a remedy that is not in `NothingDone` writes
  (`Writes`), and every write of it shows in the answer when it fails
  (`LooksAt`).

So the four say what a new row has to satisfy, and the proofs what follows.

For `ActedWithLicence` the invariants say what gate a job passed when it began,
that a reference which was released is gone, and that who asks for approval has
written nothing. For the other two it is `AnswersSound`, about the record of
each job: `EvidenceSound`, it has read, or its answer is no evidence, or a call
whose failure would show is still ahead; `AppliedSound`, while its answer is
fine every write it began took effect, none is late, and it has written or is
about to. What is ahead is a suffix of a way, so the lemmas `Tail...` say what the rest of a way
keeps of `Guarded`, `Informs`, `Writes` and `LooksAt` when its first call is
made; then there is one lemma for each outcome of a call (`SucceedSound`,
`FailSound`, `DoneSound`, `NoAnswerSound`, `LateSound`).

`ContractKept`: `Spec => Contract!Spec`. Tools issue, lose and release
references only as `ApprovalContract` says. `ApprovalStore` is proved to
implement it (section 4), so what a tool relies on is what the store provides.

## 10 A change of a host and its verification

### State and actions

`HostFix` is `NginxTools.apply_nginx_config` and `NginxTools.restart`, command by
command, and `FixVerifier`. `file`, `backup`, `serving` and `up` are the host's; each call
(`Worker`) is at a command, and `late` holds commands that were given up and
go on. A call is one of five (`Tool`): it applies a file and reloads; or, with new
contents or without, it diagnoses and then restarts or reloads. Nothing in the code
keeps two calls apart, and all use one backup beside the file. `accepted`, the
contents that `nginx -t` accepted for a call, and `hindered`, the calls that
others crossed or whose commands were lost or given up, are history.

| Code | Actions |
|---|---|
| a command: copy, write, test, restore, reload, restart | `Run`, by `Do`, `Succeeds` and `Then` |
| its answer is lost; it is given up and takes effect later | `Lose`; `GiveUp`, `Arrive` |
| nginx dies, or is started | `Fall`, `Rise` |
| `verify_fix`, `_verify_server_fix` | `Immediate` |
| `_monitor_stability` | `Check`, `Conclude` |

The verification asks `systemctl` on the agent's own machine, whichever host was
changed: `Observes` lets it see anything when `host` is another one.

### Runs and proofs

`host_fix`: two calls, one of a sound file and one of an unsound one, crossing
each other, commands lost and late, and a verification of the first. The unit of
time is thirty seconds, as of the code's pauses: a window of ten, and checks that
take no time.

* `RestoredIfUnhindered`: a call that says it put the previous file back has
  done so, if there was one, none of its commands was lost and no other call
  came between. Without the last two conditions, as `RestoredIsBack`, it does
  not hold: see section 11.
* `DownOnlyIfCrossed`: no command takes a running nginx down but a restart, and
  that only when `nginx -t` has accepted a file for that very call, but not the
  one there by the time, and the call is hindered.
* `VerifiedWasUp`: a verified fix, on the agent's own machine, was down at one
  in ten of the checks at the most; and if nothing crossed the call, nginx has
  loaded the file as it is.

With ten checks no window of the default length survives a failing tenth; other
lengths and slower checks are left to the proofs. Nothing happens for ever here,
so deadlock is not checked and no fairness is assumed.

`HostFixProofs` proves `TypeCorrect`, `Restored`, `Verified` and `NeverDown` for
any number of calls, any set of sound contents, any window, pause and duration
of checks. Behind them: what the file and the backup are at each command of an
unhindered call (`Alone`); that a call at its restart, and a restart that is
late, has had a file accepted, and only sound files are (`Route`, `LateInv`);
and that the checks that failed are at least those made while nginx was down.

## 11 What the checks found

1. **Two hosts and a kill lose an incident** (`queue_two_hosts_loss`,
   `services/incident_queue.py:213`). Recovery of one and a claim of the other
   interleave so that the record of a run in progress is deleted; the module's
   docstring promises that pending incidents survive restarts.
2. **A run acts on another organisation's AUTO_APPLY** (`org_context_gate`,
   `agent/core.py:1024`). The flag is read from the shared environment into one
   attribute of the agent, which no scope restores;
   `SECURITY_GUARANTEES.md:16` says that the host-mutating tools require
   approval when it is false.

Met while modelling, without a run of their own:

* Two hosts run one incident at a time (`ClaimedByOne`, `MCQueueTwoHostsTwice.cfg`): `recover_stale_processing`
  (`services/incident_queue.py:206`) takes every processing record for stale, on
  every poll. The docstring of `claim_next` (line 163) and `ARCHITECTURE.md:30`
  promise the opposite.
* A repeat of an alert may be queued twice when its window ends
  (`QueuedOnceAWindow`, `MCDedupeTwice.cfg`; `services/alert_dedupe.py:94`, an unconditional replacement;
  `docs/API_REFERENCE.md:394-397`), and a retry is turned away for an incident
  that was never queued when the queue's put fails (`api/server.py:557`;
  `docs/GRAFANA_PROMETHEUS.md:197`).
* A fix may stay unverified (`EveryFixIsVerified`, `MCAgentUnverified.cfg`;
  `agent/core.py:1189`): after a kill before the
  checkpoint the resumed run does not know of it; `README.md:351` says that the
  agent verifies every fix. And when it is verified, on another host, the check
  looks at the agent's own (`tools/fix_verifier.py:312-361`).
* A run uses another organisation's keys while the two overlap (`OwnClients`,
  `MCOrgKeys.cfg`; `services/org_context.py:37`). `README.md:343` says that
  stored keys are applied for each request and that one organisation never uses
  another's; the module's docstring (lines 5-6) says that concurrent
  organisations still share the environment.
* A call answers "previous file restored" (`RestoredIsBack`,
  `MCHostRestored.cfg`; `tools/nginx_tools.py:145`) although it is not: the
  results of the copy (`:124`) and of the roll-back (`:138`) are not looked at,
  and a call that came between has used the same copy.
* Monitoring breaks off at the third failure, but the rate may still say stable
  when there were thirty checks (a window longer than the default).
* `SECURITY_GUARANTEES.md:369` says that `resolved` "is computed before
  verification and is not gated by its result"; `agent/core.py:1138-1143` sets it
  to false when the verification did not pass (`verify_fix` in `AgentLoop`).
* `has_tool_evidence` takes an answer with `success` False. `database_health`
  answers without a database, `capacity_check` says that all is well when its
  queries fail (`NothingRead`); a review of a diff that could not be fetched has
  no findings.
* A dry run, a command that only reads, a Lambda restart that is only a message,
  and `assign_incident_commander`, which only reads, count as a fix
  (`NothingDone`); a failing installation of a cron job does as well.
* Cloud, CI, pull-request, status-page and snapshot tools do not look at
  AUTO_APPLY (`NoGate`); `README.md:583` says that it "requires approval for all
  actions".
* An approval of a plain command is not a reference and runs once for each
  click, on the agent's machine; that of `helm_upgrade` names a file that is
  gone by then, and that of an Argo CD roll-back is no command.
* A process that an approval's execution gave up after 60 s goes on; a pull
  request that fails half way leaves its branch; a build that was triggered and
  whose answer was lost is triggered again on a retry.

## 12 What is not modelled

* The text of commands and how it is classified; the middleware's allow list;
  the analysis of a diff; prompts; parsing of webhook payloads; authentication;
  scrubbing; documentation tooling: functions of strings with no state, about
  which TLA+ has little to say.
* What tools and collectors read. `ToolTable` has their calls and what becomes
  of failures; the fields of their answers are left out, and the same call in a
  loop is made once.
* The checks of a fix of other than a server: each asks a collector.
* Retention of audit entries, logs and checkpoints, and of queue records
  without a review identity. The latter expire by age alone, pending ones
  included: the queue model has no clock to say so.
* An answer of the model that was cut off inside a tool call and is saved with
  the conversation: what the provider makes of it is not in the code.
* Reviews with a worker on each of two hosts: section 3 shows what becomes of
  any incident there.
* `safe_executor_enhanced`, `server_enhanced`, `cloud_registry` and
  `documentation_generator` are used by no module.

Out of the prover's reach, and so with TLC: liveness (`ImplementsFairContract`,
`EventuallySettled`, `EveryReviewEnds`). Every invariant, action property and
refinement of the passing runs is proved. The two properties of the violating runs,
`Accounted` and `OwnAutoApply`, do not hold; `AccountedWithoutFailures` is what
is left of the first.

## 13 Plan

Done: the queue and its contract, approvals and their contract, deduplication,
reviews and their contract, the agent's run, the organisation context, the
tools, a change of a host with its verification, each with proofs.

Left, in this order:

1. That `AgentLoop` implements the run step of `IncidentQueue`, and a call of
   `ToolCall` its tool step.
2. A clock for the queue, to show what retention by age does to pending records.
