---------------------------- MODULE ReviewQueue ----------------------------
(***************************************************************************)
(* Code reviews in the incident queue (services/incident_queue.py), as     *)
(* seen by one review identity: organisation, platform, repository, change *)
(* and head commit.  Deliveries of the same head lead to one attempt at a  *)
(* time; a failed attempt may be followed by another, a completed one not. *)
(*                                                                         *)
(* An attempt stands for its slot in review_heads: whoever loses the       *)
(* creation of a slot goes on with the incident id it finds there.  Each   *)
(* attempt has its own records: a pending key, an index (review_dedupe), a *)
(* claim, a failed record, and a terminal record that is written once.     *)
(*                                                                         *)
(* Callers are the API processes that serve deliveries, and that adopt     *)
(* records of an older format when they start; they may stop at any point, *)
(* because they are killed or a call raises.  The worker is the one holder *)
(* of the host's lock (IncidentQueue); its poll, its run of the agent and  *)
(* the retention pass share one thread and take turns at its awaits.  One  *)
(* storage call is one step, at a point of its own.                        *)
(***************************************************************************)
EXTENDS Naturals

CONSTANTS
  Caller,
  LegacyStatus,  \* what the older format's record may say at the start
  MaxAttempts,   \* bound on attempts
  MaxFaults      \* bound on kills of the worker and on its calls that raise

ASSUME LegacyAssumption ==
  LegacyStatus \subseteq {"none", "active", "completed", "failed"}
ASSUME BoundAssumption == MaxAttempts \in Nat \ {0} /\ MaxFaults \in Nat

VARIABLES
  heads,   \* number of slots reserved
  legacy,  \* status in the older format's record; "active" is pending or processing
  rec,     \* the store: the status in an attempt's record of a kind, or "none"
  cpc,     \* what a caller is about to do
  mode,    \* "deliver"; "adopt", within a delivery; "start", when starting up
  att,     \* the attempt a caller is at
  ended,   \* history: attempts that had failed when its delivery came in
  wpc,     \* what the worker is about to do
  wat,     \* the attempt it is at
  keys,    \* listed attempts it has yet to look at
  after,   \* where it goes on when a verdict is recorded
  ret,     \* the retention pass: its attempt, kind of record, and where it broke in
  faults

caller == <<cpc, mode, att, ended>>
worker == <<wpc, wat, keys, after, ret>>
vars   == <<heads, legacy, rec, caller, worker, faults>>

Attempt == 0 .. MaxAttempts - 1
Kind    == {"pending", "index", "claim", "failed", "terminal"}

Has(kind, a) == rec[kind][a] # "none"
Ended(a)     == Has("terminal", a)

Put(kind, a, status)         == rec' = [rec EXCEPT ![kind][a] = status]
PutIfAbsent(kind, a, status) == IF Has(kind, a) THEN UNCHANGED rec ELSE Put(kind, a, status)
Delete(kind, a)              == Put(kind, a, "none")

NoRetention == [attempt |-> 0, kind |-> "none", back |-> "none"]

Init ==
  /\ heads = 0 /\ legacy \in LegacyStatus
  /\ rec = [kind \in Kind |-> [a \in Attempt |-> "none"]]
  /\ cpc = [e \in Caller |-> "idle"] /\ mode = [e \in Caller |-> "deliver"]
  /\ att = [e \in Caller |-> 0] /\ ended = [e \in Caller |-> {}]
  /\ wpc = "down" /\ wat = 0 /\ keys = {} /\ after = "recover"
  /\ ret = NoRetention
  /\ faults = 0

-----------------------------------------------------------------------------
(* Callers.                                                                *)

Goto(e, point) == cpc' = [cpc EXCEPT ![e] = point]

(* A caller reads a record and goes on by what it finds, ...               *)
Test(e, point, found, yes, no) ==
  /\ cpc[e] = point
  /\ Goto(e, IF found THEN yes ELSE no)
  /\ UNCHANGED <<heads, legacy, rec, mode, att, ended>>

(* ... or raises if it does not find it: Stop is all that is left.         *)
Need(e, point, found, yes) ==
  /\ cpc[e] = point
  /\ found
  /\ Test(e, point, TRUE, yes, yes)

Leave(e) ==
  /\ Goto(e, "idle")
  /\ mode' = [mode EXCEPT ![e] = "deliver"]
  /\ att' = [att EXCEPT ![e] = 0]
  /\ ended' = [ended EXCEPT ![e] = {}]

(* The caller is killed, or a call raises.                                 *)
Stop(e) ==
  /\ cpc[e] # "idle"
  /\ Leave(e)
  /\ UNCHANGED <<heads, legacy, rec>>

(* Once every attempt of the bound has failed there is no room for more.   *)
Deliver(e) ==
  /\ cpc[e] = "idle"
  /\ \E a \in Attempt : rec.terminal[a] # "failed"
  /\ Goto(e, "list")
  /\ ended' = [ended EXCEPT ![e] = {a \in Attempt : rec.terminal[a] = "failed"}]
  /\ UNCHANGED <<heads, legacy, rec, mode, att>>

(* The id goes back to the sender.                                         *)
Answer(e) ==
  /\ cpc[e] = "return" /\ mode[e] = "deliver"
  /\ Leave(e)
  /\ UNCHANGED <<heads, legacy, rec>>

(* enqueue: the latest attempt of the lineage, ...                         *)
List(e) ==
  /\ cpc[e] = "list"
  /\ Goto(e, IF heads > 0 THEN "terminal" ELSE "legacy")
  /\ att' = [att EXCEPT ![e] = IF heads > 0 THEN heads - 1 ELSE 0]
  /\ UNCHANGED <<heads, legacy, rec, mode, ended>>

(* ... or the older format's record, whose verdict is final.               *)
GetLegacy(e) ==
  /\ cpc[e] = "legacy"
  /\ IF legacy \in {"completed", "failed"}
     THEN Leave(e)
     ELSE /\ Goto(e, "reserve")
          /\ mode' = IF legacy = "active" THEN [mode EXCEPT ![e] = "adopt"] ELSE mode
          /\ UNCHANGED <<att, ended>>
  /\ UNCHANGED <<heads, legacy, rec>>

(* A new attempt follows a failed one only.                                *)
NextAttempt(e, point) ==
  LET a == att[e] IN
  /\ cpc[e] = point
  /\ IF rec.terminal[a] = "failed"
     THEN Goto(e, "reserve") /\ att' = [att EXCEPT ![e] = a + 1]
     ELSE Goto(e, IF Ended(a) THEN "return" ELSE "failed") /\ UNCHANGED att
  /\ UNCHANGED <<heads, legacy, rec, mode, ended>>

GetFailed(e) == Test(e, "failed", Has("failed", att[e]), "released", "publish")

(* Mutant: the entry being enqueued is recorded, not the failed one.       *)
MutRecordTerminal(e) ==
  /\ cpc[e] = "help"
  /\ PutIfAbsent("terminal", att[e], "pending")
  /\ Goto(e, "helped")
  /\ UNCHANGED <<heads, legacy, mode, att, ended>>

(* A failed attempt whose index is released lacks only its terminal record. *)
RecordTerminal(e) ==
  /\ cpc[e] = "help"
  /\ PutIfAbsent("terminal", att[e], "failed")
  /\ Goto(e, "helped")
  /\ UNCHANGED <<heads, legacy, mode, att, ended>>

LookUp(e) ==
  \/ List(e) \/ GetLegacy(e)
  \/ NextAttempt(e, "terminal")
  \/ GetFailed(e)
  \/ Test(e, "released", Has("index", att[e]), "publish", "help")
  \/ RecordTerminal(e)
  \/ NextAttempt(e, "helped")

(* Mutant: every reservation takes a slot of its own.                      *)
Mut_reserve_review_slot(e) ==
  /\ cpc[e] = "reserve" /\ heads \in Attempt
  /\ heads' = heads + 1
  /\ att' = [att EXCEPT ![e] = heads]
  /\ Goto(e, "publish")
  /\ UNCHANGED <<legacy, rec, mode, ended>>

(* put_json_if_absent of the slot, whose content is then the caller's.  An *)
(* adopted attempt must find its own id there, and does (LegacyIsTaken).   *)
_reserve_review_slot(e) ==
  /\ cpc[e] = "reserve" /\ att[e] \in Attempt
  /\ heads' = IF heads = att[e] THEN heads + 1 ELSE heads
  /\ Goto(e, "publish")
  /\ UNCHANGED <<legacy, rec, mode, att, ended>>

(* Only an index that says pending is queued.                              *)
ReadIndex(e, point, none) ==
  /\ cpc[e] = point
  /\ Goto(e, IF ~Has("index", att[e]) THEN none
             ELSE IF rec.index[att[e]] = "pending" THEN "putPending" ELSE "return")
  /\ UNCHANGED <<heads, legacy, rec, mode, att, ended>>

(* Mutant: an error is swallowed without looking.                          *)
MutPublish(e, point, kind, done, unsure) ==
  /\ cpc[e] = point
  /\ PutIfAbsent(kind, att[e], "pending") \/ UNCHANGED rec
  /\ Goto(e, done)
  /\ UNCHANGED <<heads, legacy, mode, att, ended>>

(* put_json_if_absent may raise, with or without effect; the caller then   *)
(* looks whether it matters.                                               *)
Publish(e, point, kind, done, unsure) ==
  /\ cpc[e] = point
  /\ \/ PutIfAbsent(kind, att[e], "pending") /\ \E next \in {done, unsure} : Goto(e, next)
     \/ UNCHANGED rec /\ Goto(e, unsure)
  /\ UNCHANGED <<heads, legacy, mode, att, ended>>

(* What was queued for an attempt that has ended is taken back.            *)
DeletePending(e) ==
  /\ cpc[e] = "unqueue"
  /\ Delete("pending", att[e])
  /\ Goto(e, "return")
  /\ UNCHANGED <<heads, legacy, mode, att, ended>>

(* At "queued" the code makes four reads, one after another; any that      *)
(* finds its record will do, so the step stands for the first that does.   *)
_publish_review(e) ==
  LET a == att[e] IN
  \/ Test(e, "publish", Ended(a), "return", "publishFailed")
  \/ Test(e, "publishFailed", Has("failed", a), "return", "index")
  \/ ReadIndex(e, "index", "putIndex")
  \/ Publish(e, "putIndex", "index", "indexAgain", "unsure")
  \/ Test(e, "unsure", Ended(a), "return", "unsureFailed")
  \/ Test(e, "unsureFailed", Has("failed", a), "return", "unsureIndex")
  \/ Need(e, "unsureIndex", Has("index", a), "indexAgain")
  \/ ReadIndex(e, "indexAgain", "lost")
  \/ Test(e, "lost", Ended(a), "return", "lostFailed")
  \/ Need(e, "lostFailed", Has("failed", a), "return")
  \/ Publish(e, "putPending", "pending", "fence", "queued")
  \/ Need(e, "queued", \E kind \in Kind \ {"index"} : Has(kind, a), "fence")
  \/ Test(e, "fence", Ended(a), "unqueue", "return")
  \/ DeletePending(e)

(* adopt_legacy_reviews, at the start of a process.                        *)
adopt_legacy_reviews(e) ==
  /\ cpc[e] = "idle" /\ legacy = "active"
  /\ Goto(e, "reserve")
  /\ mode' = [mode EXCEPT ![e] = "start"]
  /\ UNCHANGED <<heads, legacy, rec, att, ended>>

(* The older record goes once the attempt is published, and not before.    *)
DeleteLegacy(e) ==
  /\ cpc[e] = "deleteLegacy"
  /\ legacy' = "none"
  /\ IF mode[e] = "adopt"
     THEN /\ Goto(e, "list")
          /\ mode' = [mode EXCEPT ![e] = "deliver"]
          /\ UNCHANGED <<att, ended>>
     ELSE Leave(e)
  /\ UNCHANGED <<heads, rec>>

(* Mutant: the older record goes before the attempt is published.          *)
Mut_adopt_legacy_review(e) ==
  \/ mode[e] # "deliver" /\ Test(e, "publish", TRUE, "deleteLegacy", "publish")
  \/ DeleteLegacy(e)

_adopt_legacy_review(e) ==
  \/ mode[e] # "deliver"
     /\ Test(e, "return", Has("pending", att[e]), "deleteLegacy", "adopted")
  \/ Need(e, "adopted", Ended(att[e]), "deleteLegacy")
  \/ DeleteLegacy(e)

CallerStep(e) ==
  /\ \/ Deliver(e) \/ Answer(e) \/ Stop(e)
     \/ LookUp(e) \/ _reserve_review_slot(e) \/ _publish_review(e)
     \/ adopt_legacy_reviews(e) \/ _adopt_legacy_review(e)
  /\ UNCHANGED <<worker, faults>>

-----------------------------------------------------------------------------
(* The worker.  Points at which it awaits are those where the retention    *)
(* pass can break in.                                                      *)

AwaitPoint == {"sleep", "run", "escalate", "notify", "notifyError"}
(* Points of mark_completed.                                               *)
CompletePoint == {"complete", "completed", "completeIndex", "completeClaim"}

(* The writes: at each of these points, the kind of record and its status. *)
Writes == [
  recoverDelete  |-> <<"pending", "none">>,
  recoverPut     |-> <<"index", "pending">>,
  recoverUnclaim |-> <<"claim", "none">>,
  claimDelete    |-> <<"pending", "none">>,
  claimPut       |-> <<"claim", "processing">>,
  claimMark      |-> <<"index", "processing">>,
  complete       |-> <<"terminal", "completed">>,
  completeIndex  |-> <<"index", "completed">>,
  completeClaim  |-> <<"claim", "completed">>,
  failPut        |-> <<"failed", "failed">>,
  failMark       |-> <<"index", "failed">>,
  failClaim      |-> <<"claim", "failed">>,
  failRelease    |-> <<"index", "none">>,
  failEnd        |-> <<"terminal", "failed">>,
  finish         |-> <<"pending", "none">>]
(* Those that create a record only if there is none.                       *)
Creates == {"claimPut", "complete", "failEnd"}

Write ==
  LET kind == Writes[wpc][1] status == Writes[wpc][2] IN
  IF wpc \in Creates THEN PutIfAbsent(kind, wat, status) ELSE Put(kind, wat, status)

(* Between two attempts, and when asleep, the worker is at none.           *)
WGoto(point) ==
  /\ wpc' = point
  /\ wat' = IF point \in {"recover", "claim", "sleep", "down"} THEN 0 ELSE wat

WTest(point, found, yes, no) ==
  /\ wpc = point
  /\ WGoto(IF found THEN yes ELSE no)
  /\ UNCHANGED <<rec, keys, after>>

WWrite(point, next) ==
  /\ wpc = point
  /\ Write
  /\ WGoto(next)
  /\ UNCHANGED <<keys, after>>

(* A poll lists the pending records twice, to recover and to claim.        *)
ListPending(from, to) ==
  /\ wpc = from
  /\ keys' = {a \in Attempt : Has("pending", a)}
  /\ WGoto(to)
  /\ UNCHANGED <<rec, after>>

NextKey(point, to, done) ==
  /\ wpc = point
  /\ \/ \E a \in keys :
          /\ keys' = keys \ {a}
          /\ IF Has("pending", a) THEN wpc' = to /\ wat' = a ELSE UNCHANGED <<wpc, wat>>
     \/ keys = {} /\ WGoto(done) /\ UNCHANGED keys
  /\ UNCHANGED <<rec, after>>

(* Mutant: a failure that was cut short is not carried through.            *)
MutRecoverFailed == WTest("recoverFailed", TRUE, "recoverIndex", "recover")

RecoverFailed == WTest("recoverFailed", Has("failed", wat), "fail", "recoverIndex")

(* Reviews in recover_stale_processing: verdicts that were cut short are   *)
(* carried through, and a claim without one is given up.                   *)
recover_stale_processing ==
  \/ NextKey("recover", "recoverTerminal", "claimList")
  \/ WTest("recoverTerminal", rec.terminal[wat] = "completed", "complete",
           IF Ended(wat) THEN "recoverDelete" ELSE "recoverFailed")
  \/ WWrite("recoverDelete", "recover")
  \/ RecoverFailed
  \/ WTest("recoverIndex", Has("index", wat), "recoverClaim", "recover")
  \/ WTest("recoverClaim", rec.claim[wat] = "processing", "recoverFence", "recover")
  \/ WTest("recoverFence", Ended(wat), "recover", "recoverPut")
  \/ WWrite("recoverPut", "recoverUnclaim")
  \/ WWrite("recoverUnclaim", "recover")

(* Mutant: the claim is not written.                                       *)
MutClaimPut == WTest("claimPut", Has("claim", wat), "claim", "claimFence")

ClaimPut == WWrite("claimPut", IF Has("claim", wat) THEN "claim" ELSE "claimFence")

(* Reviews in claim_next.                                                  *)
claim_next ==
  \/ ListPending("claimList", "claim")
  \/ NextKey("claim", "claimTerminal", "sleep")
  \/ WTest("claimTerminal", Ended(wat), "claimDelete", "claimFailed")
  \/ WTest("claimFailed", Has("failed", wat), "claim", "claimIndex")
  \/ WTest("claimIndex", rec.index[wat] = "pending", "claimThere",
           IF Has("index", wat) THEN "claim" ELSE "claimDelete")
  \/ WWrite("claimDelete", "claim")
  \/ WTest("claimThere", Has("pending", wat), "claimPut", "claim")
  \/ ClaimPut
  \/ WTest("claimFence", Ended(wat), "claim", "claimMark")
  \/ WWrite("claimMark", "run")

(* process_incident: the run ends in a result or an exception.             *)
RunEnds ==
  /\ wpc = "run"
  /\ \/ WGoto("complete") /\ after' = "notify"
     \/ WGoto("escalate") /\ after' = "notifyError"
  /\ UNCHANGED <<rec, keys>>

Notified ==
  /\ wpc \in {"notify", "notifyError"}
  /\ WGoto("sleep")
  /\ after' = "recover" /\ keys' = {}
  /\ UNCHANGED rec

(* mark_completed and mark_failed, with _record_terminal, _finish_review.  *)
(* Their entry is read from the failed record or the claim: one of them is *)
(* there (VerdictFindsRecord), and only its existence matters.             *)
mark_completed ==
  \/ WWrite("complete", "completed")
  \/ WTest("completed", rec.terminal[wat] = "completed", "completeIndex", after)
  \/ WWrite("completeIndex", "completeClaim")
  \/ WWrite("completeClaim", "finish")

(* Mutant: the index is released with no failure on record.                *)
MutFailPut == WTest("failPut", TRUE, "failIndex", "failIndex")

FailPut == WWrite("failPut", "failIndex")

mark_failed ==
  \/ WTest("fail", rec.terminal[wat] = "completed", after, "failPut")
  \/ FailPut
  \/ WTest("failIndex", Has("index", wat), "failMark", "failClaim")
  \/ WWrite("failMark", "failClaim")
  \/ WWrite("failClaim", "failOwn")
  \/ WTest("failOwn", Has("index", wat), "failRelease", "failEnd")
  \/ WWrite("failRelease", "failEnd")
  \/ WWrite("failEnd", "finish")

WorkerStep ==
  /\ \/ ListPending("sleep", "recover") \/ recover_stale_processing \/ claim_next
     \/ RunEnds \/ WTest("escalate", TRUE, "fail", "fail") \/ Notified
     \/ mark_completed \/ mark_failed \/ WWrite("finish", after)
  /\ UNCHANGED <<heads, legacy, caller, ret, faults>>

(* A call raises, with or without effect.  In the run's try block the      *)
(* except branch marks the attempt failed; elsewhere the poll ends.  The   *)
(* creation of a terminal record raises only if there is none.             *)
InTry == after = "notify" /\ wpc \in CompletePoint \cup {"finish", "notify"}

Raise ==
  /\ wpc \notin {"down", "sleep", "run"} /\ ret = NoRetention
  /\ faults < MaxFaults /\ faults' = faults + 1
  /\ IF wpc \in {"complete", "failEnd"}
     THEN ~Ended(wat) /\ UNCHANGED rec
     ELSE UNCHANGED rec \/ (wpc \in DOMAIN Writes /\ Write)
  /\ WGoto(IF InTry THEN "escalate" ELSE "sleep")
  /\ after' = IF InTry THEN "notifyError" ELSE "recover"
  /\ keys' = IF InTry THEN keys ELSE {}
  /\ UNCHANGED <<heads, legacy, caller, ret>>

(* The process of the worker is killed or shut down, and started again.    *)
Crash ==
  /\ wpc # "down"
  /\ faults < MaxFaults /\ faults' = faults + 1
  /\ WGoto("down") /\ keys' = {} /\ after' = "recover" /\ ret' = NoRetention
  /\ UNCHANGED <<heads, legacy, rec, caller>>

Start ==
  /\ wpc = "down"
  /\ WGoto("sleep")
  /\ UNCHANGED <<heads, legacy, rec, caller, keys, after, ret, faults>>

-----------------------------------------------------------------------------
(* apply_retention, record by record.  Any attempt that has ended may be   *)
(* old enough, and records may come up in any order: its clock and its     *)
(* listing are abstracted.                                                 *)

Retain(a, kind, point) ==
  /\ wpc \in AwaitPoint
  /\ ret' = [attempt |-> a, kind |-> kind, back |-> wpc]
  /\ wpc' = point
  /\ UNCHANGED <<legacy, rec>>

(* The records of an attempt without a terminal record are kept.  What is  *)
(* left of a claim, or of a completed index, is the verdict.               *)
RetentionPick ==
  \E a \in Attempt :
    LET compact == IF rec.claim[a] = rec.terminal[a] THEN "expirePending" ELSE "expireClaim"
    IN
    /\ Ended(a)
    /\ \/ Has("failed", a) /\ Retain(a, "failed", "expirePending")
       \/ Has("claim", a) /\ Retain(a, "claim", compact)
       \/ /\ Has("index", a)
          /\ Retain(a, "index", IF rec.terminal[a] = "failed" THEN "expirePending"
                                ELSE IF compact = "expireClaim" THEN compact
                                ELSE "expireIndex")

(* A failed record of the older format expires, a completed one does not.  *)
RetentionLegacy ==
  /\ wpc \in AwaitPoint /\ legacy = "failed"
  /\ legacy' = "none"
  /\ UNCHANGED <<rec, wpc, ret>>

RetentionWrite ==
  LET a == ret.attempt
      deletes == ret.kind = "failed" \/ (ret.kind = "index" /\ rec.terminal[a] = "failed")
  IN
  \/ /\ wpc = "expireClaim"
     /\ Put("claim", a, rec.terminal[a])
     /\ wpc' = IF ret.kind = "index" THEN "expireIndex" ELSE "expirePending"
     /\ UNCHANGED ret
  \/ /\ wpc = "expireIndex"
     /\ Put("index", a, "completed")
     /\ wpc' = "expirePending"
     /\ UNCHANGED ret
  \/ /\ wpc = "expirePending"
     /\ Delete("pending", a)
     /\ wpc' = IF deletes THEN "expireRecord" ELSE ret.back
     /\ ret' = IF deletes THEN ret ELSE NoRetention
  \/ /\ wpc = "expireRecord"
     /\ Delete(ret.kind, a)
     /\ wpc' = ret.back /\ ret' = NoRetention

(* A call of the pass raises: the pass ends, the worker goes on.           *)
RetentionRaises ==
  /\ ret # NoRetention
  /\ wpc' = ret.back /\ ret' = NoRetention
  /\ UNCHANGED rec

RetentionBegins ==
  /\ RetentionPick \/ RetentionLegacy
  /\ UNCHANGED <<heads, caller, wat, keys, after, faults>>

RetentionStep ==
  /\ RetentionWrite \/ RetentionRaises
  /\ UNCHANGED <<heads, legacy, caller, wat, keys, after, faults>>

-----------------------------------------------------------------------------
Next ==
  \/ \E e \in Caller : CallerStep(e)
  \/ WorkerStep \/ Raise \/ Crash \/ Start
  \/ RetentionBegins \/ RetentionStep

Spec == Init /\ [][Next]_vars

(* A supervisor starts the process again.  The event loop runs every task  *)
(* that is ready, so the worker comes back from an await however often the *)
(* retention pass takes its turn, and the pass ends; an agent run ends.    *)
(* Nothing is assumed of callers.                                          *)
Fairness ==
  /\ SF_vars(WorkerStep)
  /\ WF_vars(RetentionStep)
  /\ WF_vars(Start)

FairSpec == Spec /\ Fairness
=============================================================================
