-------------------------- MODULE ReviewQueueProofs --------------------------
(***************************************************************************)
(* Proofs of what ReviewQueueProps claims, but for its liveness: for any   *)
(* number of deliveries at a time, of attempts and of faults.              *)
(***************************************************************************)
EXTENDS ReviewQueueProps, TLAPS

(* A record of an attempt, written: nothing else of the store changes.     *)
LEMMA PutEffect ==
  ASSUME TypeOK, NEW k \in Kind, NEW a \in Attempt, NEW s \in Status, Put(k, a, s)
  PROVE  /\ rec' \in [Kind -> [Attempt -> Status]]
         /\ \A j \in Kind, b \in Attempt :
              rec'[j][b] = IF j = k /\ b = a THEN s ELSE rec[j][b]
<1>1. rec \in [Kind -> [Attempt -> Status]]
  BY DEF TypeOK
<1>2. rec' = [rec EXCEPT ![k] = [rec[k] EXCEPT ![a] = s]]
  BY DEF Put
<1>3. [rec[k] EXCEPT ![a] = s] \in [Attempt -> Status]
  BY <1>1
<1> QED
  BY <1>1, <1>2, <1>3

(* The writes that are made, by what is known when they are.               *)
Allowed(k, a, s) ==
  \/ /\ k = "terminal" /\ ~Ended(a) /\ Kept(a)
     /\ \/ s = "failed" /\ Broken(a)
        \/ s = "completed" /\ wpc = "complete" /\ wat = a /\ Has("claim", a)
  \/ k = "pending" /\ s = "pending" /\ a < heads /\ Lodged(a)
  \/ k = "pending" /\ s = "none" /\ Ended(a)
  \/ k = "index" /\ s = "pending"
  \/ k = "index" /\ s \in {"processing", "completed", "failed"} /\ Kept(a)
  \/ k = "index" /\ s = "none" /\ Broken(a)
  \/ k = "claim" /\ s \in {"processing", "completed", "failed"} /\ Kept(a)
  \/ k = "claim" /\ s = "none" /\ wpc = "recoverUnclaim" /\ wat = a
  \/ k = "failed" /\ s = "failed" /\ wpc = "failPut" /\ wat = a /\ Kept(a)
  \/ k = "failed" /\ s = "none" /\ wpc = "expireRecord" /\ Ended(a)

OneWrite ==
  \/ UNCHANGED rec
  \/ \E k \in Kind, a \in Attempt, s \in Status : Put(k, a, s) /\ Allowed(k, a, s)

LEMMA OneWriteIs ==
  ASSUME NEW k \in Kind, NEW a \in Attempt, NEW s \in Status,
         Put(k, a, s), Allowed(k, a, s)
  PROVE  OneWrite
  BY DEF OneWrite

(* The worker's writes, one by one.                                        *)
LEMMA WritesAt ==
  /\ DOMAIN Writes =
       {"recoverDelete", "recoverPut", "recoverUnclaim", "claimDelete", "claimPut",
        "claimMark", "complete", "completeIndex", "completeClaim", "failPut",
        "failMark", "failClaim", "failRelease", "failEnd", "finish"}
  /\ Writes["recoverDelete"]  = <<"pending", "none">>
  /\ Writes["recoverPut"]     = <<"index", "pending">>
  /\ Writes["recoverUnclaim"] = <<"claim", "none">>
  /\ Writes["claimDelete"]    = <<"pending", "none">>
  /\ Writes["claimPut"]       = <<"claim", "processing">>
  /\ Writes["claimMark"]      = <<"index", "processing">>
  /\ Writes["complete"]       = <<"terminal", "completed">>
  /\ Writes["completeIndex"]  = <<"index", "completed">>
  /\ Writes["completeClaim"]  = <<"claim", "completed">>
  /\ Writes["failPut"]        = <<"failed", "failed">>
  /\ Writes["failMark"]       = <<"index", "failed">>
  /\ Writes["failClaim"]      = <<"claim", "failed">>
  /\ Writes["failRelease"]    = <<"index", "none">>
  /\ Writes["failEnd"]        = <<"terminal", "failed">>
  /\ Writes["finish"]         = <<"pending", "none">>
  BY DEF Writes

LEMMA WorkerWrites ==
  ASSUME ReviewInv, wpc \in DOMAIN Writes, Write
  PROVE  OneWrite
<1> DEFINE kind == Writes[wpc][1]
           status == Writes[wpc][2]
<1>1. wat \in Attempt /\ WorkerAt = wpc
  BY WritesAt DEF ReviewInv, TypeOK, WorkerAt, ExpirePoint
<1>2. kind \in Kind /\ status \in Status
  BY WritesAt DEF Kind, Status
<1>3. UNCHANGED rec \/ (Put(kind, wat, status) /\ (wpc \in Creates => ~Has(kind, wat)))
  BY DEF Write, PutIfAbsent
<1>4. wpc \in Creates /\ ~Has(kind, wat) => Allowed(kind, wat, status)
  BY <1>1, WritesAt
     DEF ReviewInv, WorkerInv, VerdictInv, RecordInv, Allowed, Creates, BetweenPoint,
         FailedPoint, CompletePoint, Kept, Broken, Lodged, Ended, Has
<1>5. wpc \notin Creates => Allowed(kind, wat, status)
  BY <1>1, WritesAt
     DEF ReviewInv, WorkerInv, VerdictInv, RecordInv, Allowed, Creates, BetweenPoint,
         FailedPoint, CompletePoint, Kept, Broken, Lodged, Ended, Has
<1> HIDE DEF kind, status
<1> QED
  BY <1>1, <1>2, <1>3, <1>4, <1>5, OneWriteIs DEF OneWrite

(* An attempt a caller is at, once it has been placed.                     *)
LEMMA PlacedAttempt ==
  ASSUME ReviewInv, NEW e \in Caller, cpc[e] \notin UnplacedPoint
  PROVE  att[e] \in Attempt /\ att[e] < heads
  BY BoundAssumption DEF ReviewInv, CallerInv, CallerKnows, TypeOK, Attempt

LEMMA CallerWrites == ASSUME ReviewInv, NEW e \in Caller, CallerStep(e) PROVE OneWrite
<1> USE DEF ReviewInv
<1>1. ASSUME RecordTerminal(e) PROVE OneWrite
  <2>1. cpc[e] = "help" /\ att[e] \in Attempt /\ Broken(att[e])
    BY <1>1, PlacedAttempt DEF RecordTerminal, UnplacedPoint, CallerInv, CallerKnows
  <2>2. UNCHANGED rec \/ (Put("terminal", att[e], "failed") /\ ~Ended(att[e]))
    BY <1>1 DEF RecordTerminal, PutIfAbsent, Ended
  <2>3. Kept(att[e])
    BY <2>1 DEF RecordInv, Broken, Kept
  <2>4. ~Ended(att[e]) => Allowed("terminal", att[e], "failed")
    BY <2>1, <2>3 DEF Allowed
  <2> QED
    BY <2>1, <2>2, <2>4, OneWriteIs DEF OneWrite, Kind, Status
<1>2. ASSUME NEW kind \in {"index", "pending"}, NEW done, NEW unsure,
             Publish(e, IF kind = "index" THEN "putIndex" ELSE "putPending", kind, done, unsure)
      PROVE  OneWrite
  <2>1. att[e] \in Attempt /\ att[e] < heads
    BY <1>2, PlacedAttempt DEF Publish, UnplacedPoint
  <2>2. kind = "pending" => Lodged(att[e])
    BY <1>2 DEF Publish, CallerInv, CallerKnows
  <2>3. Allowed(kind, att[e], "pending")
    BY <2>1, <2>2 DEF Allowed
  <2>4. UNCHANGED rec \/ Put(kind, att[e], "pending")
    BY <1>2 DEF Publish, PutIfAbsent
  <2> QED
    BY <2>1, <2>3, <2>4, OneWriteIs DEF OneWrite, Kind, Status
<1>3. ASSUME DeletePending(e) PROVE OneWrite
  <2>1. att[e] \in Attempt /\ Ended(att[e])
    BY <1>3, PlacedAttempt DEF DeletePending, UnplacedPoint, CallerInv, CallerKnows
  <2>2. Put("pending", att[e], "none") /\ Allowed("pending", att[e], "none")
    BY <1>3, <2>1 DEF DeletePending, Delete, Allowed
  <2> QED
    BY <2>1, <2>2, OneWriteIs DEF Kind, Status
<1>4. CASE LookUp(e)
  BY <1>1, <1>4 DEF LookUp, List, GetLegacy, NextAttempt, GetFailed, Test, OneWrite
<1>5. CASE _publish_review(e)
  <2>1. Publish(e, "putIndex", "index", "indexAgain", "unsure") => OneWrite
    BY <1>2
  <2>2. Publish(e, "putPending", "pending", "fence", "queued") => OneWrite
    BY <1>2
  <2> QED
    BY <1>3, <1>5, <2>1, <2>2 DEF _publish_review, Test, Need, ReadIndex, OneWrite
<1>6. CASE Deliver(e) \/ Answer(e) \/ Stop(e) \/ _reserve_review_slot(e)
            \/ adopt_legacy_reviews(e) \/ _adopt_legacy_review(e)
  BY <1>6 DEF Deliver, Answer, Stop, _reserve_review_slot, adopt_legacy_reviews,
              _adopt_legacy_review, DeleteLegacy, Test, Need, OneWrite
<1> QED
  BY <1>4, <1>5, <1>6 DEF CallerStep

LEMMA WorkerStepWrites == ASSUME ReviewInv, WorkerStep \/ Raise PROVE OneWrite
<1>1. UNCHANGED rec \/ (wpc \in DOMAIN Writes /\ Write)
  <2>1. CASE recover_stale_processing
    BY <2>1, WritesAt DEF recover_stale_processing, NextKey, WTest, WWrite, RecoverFailed
  <2>2. CASE claim_next
    BY <2>2, WritesAt DEF claim_next, ListPending, NextKey, WTest, WWrite, ClaimPut
  <2>3. CASE mark_completed \/ mark_failed
    BY <2>3, WritesAt DEF mark_completed, mark_failed, WTest, WWrite, FailPut
  <2>4. CASE ListPending("sleep", "recover") \/ RunEnds \/ Notified
              \/ WTest("escalate", TRUE, "fail", "fail") \/ WWrite("finish", after)
    BY <2>4, WritesAt DEF ListPending, RunEnds, WTest, Notified, WWrite
  <2>5. CASE Raise
    BY <2>5 DEF Raise
  <2> QED
    BY <2>1, <2>2, <2>3, <2>4, <2>5 DEF WorkerStep
<1> QED
  BY <1>1, WorkerWrites DEF OneWrite

LEMMA RetentionWrites == ASSUME ReviewInv, RetentionWrite PROVE OneWrite
<1> DEFINE a == ret.attempt
<1> USE DEF ReviewInv
<1>1. /\ a \in Attempt /\ Ended(a) /\ Kept(a)
      /\ ret.kind \in {"failed", "claim", "index"}
      /\ wpc = "expireRecord" => ret.kind # "claim"
  BY DEF RetentionWrite, RetentionInv, ExpirePoint, Kept
<1>2. rec.terminal[a] \in {"completed", "failed"}
  BY <1>1 DEF TypeOK, Ended, Has
<1>3. CASE wpc = "expireClaim"
  <2>1. Put("claim", a, rec.terminal[a])
    BY <1>3 DEF RetentionWrite
  <2> QED
    BY <1>1, <1>2, <2>1, OneWriteIs DEF Kind, Status, Allowed
<1>4. CASE wpc = "expireIndex"
  <2>1. Put("index", a, "completed")
    BY <1>4 DEF RetentionWrite
  <2> QED
    BY <1>1, <2>1, OneWriteIs DEF Kind, Status, Allowed
<1>5. CASE wpc = "expirePending"
  <2>1. Put("pending", a, "none")
    BY <1>5 DEF RetentionWrite, Delete
  <2> QED
    BY <1>1, <2>1, OneWriteIs DEF Kind, Status, Allowed
<1>6. CASE wpc = "expireRecord"
  <2>1. Put(ret.kind, a, "none")
    BY <1>6 DEF RetentionWrite, Delete
  <2>2. Allowed(ret.kind, a, "none") /\ ret.kind \in Kind
    BY <1>1, <1>6 DEF Allowed, Broken, Kind
  <2> QED
    BY <1>1, <2>1, <2>2, OneWriteIs DEF Status
<1> QED
  BY <1>3, <1>4, <1>5, <1>6 DEF RetentionWrite

LEMMA StepWrites == ASSUME ReviewInv, [Next]_vars PROVE OneWrite
<1>1. CASE \E e \in Caller : CallerStep(e)
  BY <1>1, CallerWrites
<1>2. CASE WorkerStep \/ Raise
  BY <1>2, WorkerStepWrites
<1>3. CASE RetentionStep
  BY <1>3, RetentionWrites DEF RetentionStep, RetentionRaises, OneWrite
<1>4. CASE Crash \/ Start \/ RetentionBegins \/ UNCHANGED vars
  BY <1>4 DEF Crash, Start, RetentionBegins, RetentionPick, RetentionLegacy, Retain,
              OneWrite, vars
<1> QED
  BY <1>1, <1>2, <1>3, <1>4 DEF Next

(* What one write leaves: verdicts and what is kept, broken or lodged stay *)
(* so, a claim until it is given up; and only the worker breaks an attempt *)
(* that is not broken, or completes one.                                   *)
Lasting(a) ==
  /\ Ended(a) => Ended(a)' /\ rec.terminal'[a] = rec.terminal[a]
  /\ Kept(a) => Kept(a)'
  /\ Broken(a) => Broken(a)'
  /\ Lodged(a) => Lodged(a)'
  /\ Has("claim", a) => Has("claim", a)' \/ (wpc = "recoverUnclaim" /\ wat = a)
  /\ Has("failed", a) => Has("failed", a)' \/ wpc = "expireRecord"
  /\ Has("failed", a)' => Has("failed", a) \/ (wpc = "failPut" /\ wat = a)
  /\ Broken(a)' => Broken(a) \/ (wpc \in {"failPut", "complete"} /\ wat = a)
  /\ rec.terminal'[a] = "completed" =>
       rec.terminal[a] = "completed" \/ (wpc = "complete" /\ wat = a /\ Has("claim", a))

LEMMA WriteLasts ==
  ASSUME ReviewInv, [Next]_vars, NEW a \in Attempt
  PROVE  Lasting(a)
<1> USE DEF Kept, Broken, Lodged, Ended, Has
<1>1. CASE UNCHANGED rec
  BY <1>1 DEF Lasting
<1>2. ASSUME NEW k \in Kind, NEW b \in Attempt, NEW s \in Status,
             Put(k, b, s), Allowed(k, b, s)
      PROVE  Lasting(a)
  <2>1. \A j \in Kind, c \in Attempt :
          rec'[j][c] = IF j = k /\ c = b THEN s ELSE rec[j][c]
    BY <1>2, PutEffect DEF ReviewInv
  <2>2. \A c \in Attempt :
          Has("failed", c) \/ Has("claim", c) => Has("pending", c) \/ Has("terminal", c)
    BY DEF ReviewInv, RecordInv
  <2> QED
    BY <1>2, <2>1, <2>2 DEF Allowed, Lasting, Kind
<1> QED
  BY <1>1, <1>2, StepWrites DEF OneWrite

(* Slots are only added, one at a time, by who is about to.                *)
LEMMA HeadsGrow ==
  ASSUME ReviewInv, [Next]_vars
  PROVE  \/ heads' = heads
         \/ /\ heads' = heads + 1 /\ heads \in Attempt
            /\ \E e \in Caller : cpc[e] = "reserve" /\ att[e] = heads /\ cpc'[e] = "publish"
<1>1. ASSUME NEW e \in Caller, _reserve_review_slot(e)
      PROVE  \/ heads' = heads
             \/ /\ heads' = heads + 1 /\ heads \in Attempt
                /\ cpc[e] = "reserve" /\ att[e] = heads /\ cpc'[e] = "publish"
  BY <1>1 DEF _reserve_review_slot, Goto, ReviewInv, TypeOK
<1>2. ASSUME NEW e \in Caller, CallerStep(e), ~_reserve_review_slot(e)
      PROVE  heads' = heads
  <2>1. CASE LookUp(e)
    BY <2>1 DEF LookUp, List, GetLegacy, NextAttempt, GetFailed, Test, RecordTerminal
  <2>2. CASE _publish_review(e)
    BY <2>2 DEF _publish_review, Test, Need, ReadIndex, Publish, DeletePending
  <2>3. CASE Deliver(e) \/ Answer(e) \/ Stop(e) \/ adopt_legacy_reviews(e)
              \/ _adopt_legacy_review(e)
    BY <2>3 DEF Deliver, Answer, Stop, adopt_legacy_reviews, _adopt_legacy_review,
                DeleteLegacy, Test, Need
  <2> QED
    BY <1>2, <2>1, <2>2, <2>3 DEF CallerStep
<1>3. CASE WorkerStep \/ Raise \/ Crash \/ Start \/ RetentionBegins \/ RetentionStep
            \/ UNCHANGED vars
  BY <1>3 DEF WorkerStep, Raise, Crash, Start, RetentionBegins, RetentionStep, vars
<1> QED
  BY <1>1, <1>2, <1>3 DEF Next

LEMMA StepOneAtATime == ReviewInv /\ [Next]_vars => OneAtATime'
<1> SUFFICES ASSUME ReviewInv, [Next]_vars, NEW a \in Attempt, a + 1 < heads'
             PROVE  rec'.terminal[a] = "failed"
  BY DEF OneAtATime
<1>1. rec.terminal[a] = "failed" => rec'.terminal[a] = "failed"
  BY WriteLasts DEF Lasting, Ended, Has
<1>2. CASE a + 1 < heads
  BY <1>1, <1>2 DEF ReviewInv, OneAtATime
<1>3. CASE ~(a + 1 < heads)
  <2>1. heads \in Nat /\ a \in Nat
    BY BoundAssumption DEF ReviewInv, TypeOK, Attempt
  <2>2. a + 1 = heads
    BY <1>3, <2>1, HeadsGrow
  <2>3. PICK e \in Caller : cpc[e] = "reserve" /\ att[e] = heads
    BY <1>3, <2>1, HeadsGrow
  <2>4. rec.terminal[att[e] - 1] = "failed"
    BY <2>1, <2>2, <2>3 DEF ReviewInv, CallerInv, ReservesNext
  <2> QED
    BY <1>1, <2>1, <2>2, <2>3, <2>4
<1> QED
  BY <1>2, <1>3

(* The records of an attempt go together after a write as before it.       *)
LEMMA StepRecordInv == ReviewInv /\ [Next]_vars => RecordInv'
<1> SUFFICES ASSUME ReviewInv, [Next]_vars PROVE RecordInv'
  OBVIOUS
<1>1. heads \in Nat /\ heads' \in Nat /\ heads <= heads' /\ \A a \in Attempt : a \in Nat
  BY HeadsGrow, BoundAssumption DEF ReviewInv, TypeOK, Attempt
<1>2. CASE UNCHANGED rec
  BY <1>1, <1>2 DEF ReviewInv, RecordInv, Kept, Lodged, Broken, Ended, Has
<1>3. ASSUME NEW k \in Kind, NEW b \in Attempt, NEW s \in Status,
             Put(k, b, s), Allowed(k, b, s)
      PROVE  RecordInv'
  <2> SUFFICES ASSUME NEW a \in Attempt
               PROVE  /\ Kept(a)' => a < heads'
                      /\ Has("pending", a)' => Lodged(a)'
                      /\ (Has("failed", a) \/ Has("claim", a))' => Kept(a)'
                      /\ rec'.index[a] \notin {"none", "pending"} => Kept(a)'
                      /\ rec'.terminal[a] = "completed" => Has("claim", a)'
    BY DEF RecordInv
  <2>1. \A j \in Kind, c \in Attempt :
          rec'[j][c] = IF j = k /\ c = b THEN s ELSE rec[j][c]
    BY <1>3, PutEffect DEF ReviewInv
  <2>2. Lasting(a)
    BY WriteLasts
  <2>3. /\ Kept(a) => a < heads
        /\ Has("pending", a) => Lodged(a)
        /\ Has("failed", a) \/ Has("claim", a) => Kept(a)
        /\ rec.index[a] \notin {"none", "pending"} => Kept(a)
        /\ rec.terminal[a] = "completed" => Has("claim", a)
    BY DEF ReviewInv, RecordInv
  <2>4. wpc = "recoverUnclaim" => rec.terminal[wat] # "completed"
    BY DEF ReviewInv, WorkerInv
  <2>5. Kept(a)' => a < heads'
    BY <1>1, <1>3, <2>1, <2>3 DEF Allowed, Kept, Ended, Has, Kind
  <2>6. Has("pending", a)' => Lodged(a)'
    BY <1>3, <2>1, <2>2, <2>3 DEF Allowed, Lasting, Has, Kind
  <2>7. (Has("failed", a) \/ Has("claim", a))' => Kept(a)'
    BY <1>3, <2>1, <2>2, <2>3 DEF Allowed, Lasting, Has, Kind
  <2>8. rec'.index[a] \notin {"none", "pending"} => Kept(a)'
    BY <1>3, <2>1, <2>2, <2>3 DEF Allowed, Lasting, Has, Kind
  <2>9. rec'.terminal[a] = "completed" => Has("claim", a)'
    BY <1>3, <2>1, <2>2, <2>3, <2>4 DEF Allowed, Lasting, Has, Kind
  <2> QED
    BY <2>5, <2>6, <2>7, <2>8, <2>9
<1> QED
  BY <1>2, <1>3, StepWrites DEF OneWrite

CallerTypes ==
  /\ DOMAIN cpc = Caller
  /\ mode \in [Caller -> {"deliver", "adopt", "start"}]
  /\ att \in [Caller -> 0 .. MaxAttempts]
  /\ ended \in [Caller -> SUBSET Attempt]
  /\ legacy \in {"none", "active", "completed", "failed"}

(* A caller's step is its own, and may end the older record's life.        *)
OwnStep(e) ==
  /\ CallerTypes'
  /\ legacy' \in {legacy, "none"}
  /\ \A d \in Caller \ {e} :
       cpc'[d] = cpc[d] /\ mode'[d] = mode[d] /\ att'[d] = att[d] /\ ended'[d] = ended[d]

LEMMA CallerFrame == ASSUME ReviewInv, NEW e \in Caller, CallerStep(e) PROVE OwnStep(e)
<1>1. CallerTypes /\ 0 \in 0 .. MaxAttempts
  BY BoundAssumption DEF ReviewInv, TypeOK, CallerTypes
<1> USE <1>1 DEF CallerTypes, OwnStep, Goto
<1>2. CASE Deliver(e) \/ Answer(e) \/ Stop(e) \/ adopt_legacy_reviews(e)
            \/ _reserve_review_slot(e)
  BY <1>2 DEF Deliver, Answer, Stop, adopt_legacy_reviews, _reserve_review_slot, Leave
<1>3. ASSUME NEW point, NEW yes, NEW no, NEW found,
             Test(e, point, found, yes, no)
      PROVE  OwnStep(e)
  BY <1>3 DEF Test
<1>4. CASE LookUp(e)
  <2>1. CASE List(e)
    <3>1. heads > 0 => heads - 1 \in 0 .. MaxAttempts
      BY BoundAssumption DEF ReviewInv, TypeOK
    <3> QED
      BY <2>1, <3>1 DEF List
  <2>2. CASE GetLegacy(e)
    BY <2>2 DEF GetLegacy, Leave
  <2>3. ASSUME NEW point \in {"terminal", "helped"}, NextAttempt(e, point) PROVE OwnStep(e)
    <3>1. att[e] + 1 \in 0 .. MaxAttempts
      BY <2>3, PlacedAttempt, BoundAssumption DEF NextAttempt, UnplacedPoint, Attempt
    <3> QED
      BY <2>3, <3>1 DEF NextAttempt
  <2>4. CASE GetFailed(e)
    BY <1>3, <2>4 DEF GetFailed
  <2>5. CASE RecordTerminal(e)
    BY <2>5 DEF RecordTerminal
  <2> QED
    BY <1>3, <1>4, <2>1, <2>2, <2>3, <2>4, <2>5 DEF LookUp
<1>5. CASE _publish_review(e)
  <2>1. ASSUME NEW point \in {"index", "indexAgain"}, NEW none,
               ReadIndex(e, point, none)
        PROVE  OwnStep(e)
    BY <2>1 DEF ReadIndex
  <2>2. ASSUME NEW point, NEW kind, NEW done, NEW unsure,
               Publish(e, point, kind, done, unsure)
        PROVE  OwnStep(e)
    BY <2>2 DEF Publish
  <2>3. CASE DeletePending(e)
    BY <2>3 DEF DeletePending
  <2>4. ASSUME NEW point, NEW yes, NEW found, Need(e, point, found, yes)
        PROVE  OwnStep(e)
    BY <1>3, <2>4 DEF Need
  <2> QED
    BY <1>3, <1>5, <2>1, <2>2, <2>3, <2>4 DEF _publish_review
<1>6. CASE _adopt_legacy_review(e)
  <2>1. CASE DeleteLegacy(e)
    BY <2>1 DEF DeleteLegacy, Leave
  <2> QED
    BY <1>3, <1>6, <2>1 DEF _adopt_legacy_review, Need
<1> QED
  BY <1>2, <1>4, <1>5, <1>6 DEF CallerStep

KnownOf(e) == CallerKnows(e) /\ ReservesNext(e) /\ LeavesBehind(e)

(* What is known of a caller that does not move stays true.                *)
LEMMA CallerStays ==
  ASSUME ReviewInv, [Next]_vars, NEW e \in Caller, legacy' \in {legacy, "none"},
         cpc'[e] = cpc[e], mode'[e] = mode[e], att'[e] = att[e], ended'[e] = ended[e]
  PROVE  KnownOf(e)'
<1>1. /\ att[e] \in 0 .. MaxAttempts /\ att[e] \in Nat /\ MaxAttempts \in Nat
      /\ ended[e] \subseteq Attempt
      /\ KnownOf(e)
  BY BoundAssumption DEF ReviewInv, TypeOK, CallerInv, KnownOf
<1>2. heads \in Nat /\ heads' \in Nat /\ heads <= heads'
  BY HeadsGrow, BoundAssumption DEF ReviewInv, TypeOK
<1>3. CallerKnows(e)'
  <2>1. CASE cpc[e] \in UnplacedPoint
    BY <1>1, <2>1 DEF KnownOf, CallerKnows, UnplacedPoint, LookUpPoint
  <2>2. CASE cpc[e] \notin UnplacedPoint
    <3>1. PICK a \in Attempt : a = att[e] /\ Lasting(a)
      BY <2>2, PlacedAttempt, WriteLasts
    <3>2. att'[e] = att[e] /\ att[e] < heads
      BY <2>2, PlacedAttempt
    <3>3. /\ Kept(att[e]) => Kept(att[e])'
          /\ Broken(att[e]) => Broken(att[e])'
          /\ Lodged(att[e]) => Lodged(att[e])'
          /\ Ended(att[e]) => Ended(att[e])'
      BY <3>1, <3>2 DEF Lasting, Kept, Broken, Lodged, Ended, Has
    <3> QED
      BY <1>1, <1>2, <2>2, <3>2, <3>3
         DEF KnownOf, CallerKnows, UnplacedPoint, LookUpPoint
  <2> QED
    BY <2>1, <2>2
<1>4. \A b \in Attempt : rec.terminal[b] = "failed" => rec'.terminal[b] = "failed"
  BY WriteLasts DEF Lasting, Ended, Has
<1>5. ReservesNext(e)'
  <2>1. att[e] # 0 => att[e] - 1 \in Attempt
    BY <1>1 DEF Attempt
  <2> QED
    BY <1>1, <1>4, <2>1 DEF KnownOf, ReservesNext
<1>6. LeavesBehind(e)'
  BY <1>1, <1>4 DEF KnownOf, LeavesBehind
<1> QED
  BY <1>3, <1>5, <1>6 DEF KnownOf

(* What is known of a caller that is placed and moves on to another point. *)
Needs(e, point) ==
  /\ point \in LookUpPoint => mode[e] = "deliver"
  /\ point \in {"adopted", "deleteLegacy"} => mode[e] # "deliver"
  /\ point \in {"released", "help"} => Broken(att[e])
  /\ point \in {"return", "deleteLegacy", "fence"} => Kept(att[e])
  /\ point = "unqueue" => Ended(att[e])
  /\ point = "putPending" => Lodged(att[e])

Moves(e, point) ==
  /\ cpc[e] \notin UnplacedPoint \cup {"terminal"}
  /\ point \notin UnplacedPoint \cup {"terminal"}
  /\ Goto(e, point)
  /\ UNCHANGED <<heads, legacy, mode, att, ended>>

LEMMA CallerMoves ==
  ASSUME ReviewInv, [Next]_vars, NEW e \in Caller, NEW point,
         Moves(e, point), Needs(e, point) \/ Needs(e, point)'
  PROVE  KnownOf(e)'
<1> DEFINE a == att[e]
<1>1. a \in Attempt /\ a < heads /\ a \in Nat /\ ended[e] \subseteq Attempt /\ KnownOf(e)
  BY PlacedAttempt
     DEF Moves, ReviewInv, TypeOK, CallerInv, KnownOf, UnplacedPoint, Attempt
<1>2. /\ cpc'[e] = point /\ att'[e] = a /\ mode'[e] = mode[e] /\ ended'[e] = ended[e]
      /\ heads' = heads
  BY DEF Moves, Goto, ReviewInv, TypeOK
<1>3. Needs(e, point)'
  <2>1. PICK b \in Attempt : b = a /\ Lasting(b)
    BY <1>1, WriteLasts
  <2>2. /\ Kept(att[e]) => Kept(att[e])'
        /\ Broken(att[e]) => Broken(att[e])'
        /\ Lodged(att[e]) => Lodged(att[e])'
        /\ Ended(att[e]) => Ended(att[e])'
    BY <1>2, <2>1 DEF Lasting, Kept, Broken, Lodged, Ended, Has
  <2> QED
    BY <1>2, <2>2 DEF Needs
<1>4. CallerKnows(e)'
  BY <1>1, <1>2, <1>3 DEF Needs, CallerKnows, KnownOf, Moves, UnplacedPoint
<1>5. ReservesNext(e)'
  BY <1>2 DEF ReservesNext, Moves, UnplacedPoint
<1>6. \A b \in Attempt : rec.terminal[b] = "failed" => rec'.terminal[b] = "failed"
  BY WriteLasts DEF Lasting, Ended, Has
<1>7. LeavesBehind(e)'
  BY <1>1, <1>2, <1>6 DEF LeavesBehind, KnownOf, Moves, UnplacedPoint
<1> QED
  BY <1>4, <1>5, <1>7 DEF KnownOf

(* A caller that leaves knows nothing any more.                            *)
LEMMA CallerLeaves ==
  ASSUME ReviewInv, NEW e \in Caller, Leave(e) PROVE KnownOf(e)'
<1>1. cpc'[e] = "idle" /\ mode'[e] = "deliver" /\ att'[e] = 0 /\ ended'[e] = {}
  BY DEF Leave, Goto, ReviewInv, TypeOK
<1> QED
  BY <1>1 DEF KnownOf, CallerKnows, ReservesNext, LeavesBehind, UnplacedPoint, LookUpPoint

(* Looking up the lineage.                                                 *)
LEMMA LookUpKnows ==
  ASSUME ReviewInv, [Next]_vars, NEW e \in Caller, LookUp(e) PROVE KnownOf(e)'
<1>1. /\ heads \in 0 .. MaxAttempts /\ MaxAttempts \in Nat /\ Attempt = 0 .. MaxAttempts - 1
      /\ mode[e] \in {"deliver", "adopt", "start"} /\ ended[e] \subseteq Attempt
      /\ KnownOf(e)
  BY BoundAssumption DEF ReviewInv, TypeOK, Attempt, CallerInv, KnownOf
<1>2. \A b \in Attempt : rec.terminal[b] = "failed" => b < heads
  BY DEF ReviewInv, RecordInv, Kept, Ended, Has
<1>3. CASE List(e)
  <2>1. /\ UNCHANGED <<heads, legacy, rec>>
        /\ cpc'[e] = IF heads > 0 THEN "terminal" ELSE "legacy"
        /\ att'[e] = IF heads > 0 THEN heads - 1 ELSE 0
        /\ mode'[e] = "deliver" /\ ended'[e] = ended[e]
    BY <1>1, <1>3
       DEF List, Goto, ReviewInv, TypeOK, KnownOf, CallerKnows, LookUpPoint
  <2>2. \A b \in ended[e] : rec.terminal[b] = "failed"
    BY <1>1 DEF KnownOf, LeavesBehind
  <2>3. CallerKnows(e)'
    BY <1>1, <2>1 DEF CallerKnows, UnplacedPoint, LookUpPoint
  <2>4. LeavesBehind(e)'
    BY <1>1, <1>2, <2>1, <2>2 DEF LeavesBehind
  <2> QED
    BY <2>1, <2>3, <2>4 DEF KnownOf, ReservesNext
<1>4. CASE GetLegacy(e)
  <2>1. CASE legacy \in {"completed", "failed"}
    BY <1>4, <2>1, CallerLeaves DEF GetLegacy
  <2>2. CASE legacy \notin {"completed", "failed"}
    <3>1. /\ UNCHANGED <<heads, legacy, rec>>
          /\ cpc[e] = "legacy" /\ cpc'[e] = "reserve"
          /\ att'[e] = 0 /\ att[e] = 0 /\ ended'[e] = ended[e]
          /\ mode'[e] = IF legacy = "active" THEN "adopt" ELSE "deliver"
      BY <1>1, <1>4, <2>2
         DEF GetLegacy, Goto, ReviewInv, TypeOK, KnownOf, CallerKnows, LookUpPoint
    <3>2. CallerKnows(e)'
      BY <3>1 DEF CallerKnows, UnplacedPoint, LookUpPoint
    <3> QED
      BY <1>1, <3>1, <3>2 DEF KnownOf, ReservesNext, LeavesBehind
  <2> QED
    BY <2>1, <2>2
<1>5. ASSUME NEW point \in {"terminal", "helped"}, NextAttempt(e, point) PROVE KnownOf(e)'
  <2> DEFINE a == att[e]
  <2>1. a \in Attempt /\ a < heads /\ mode[e] = "deliver" /\ cpc[e] = point
    BY <1>1, <1>5, PlacedAttempt
       DEF NextAttempt, UnplacedPoint, KnownOf, CallerKnows, LookUpPoint
  <2>2. \A b \in ended[e] : rec.terminal[b] = "failed" /\ b <= a
    BY <1>1, <1>5, <2>1 DEF KnownOf, LeavesBehind
  <2>3. UNCHANGED <<heads, legacy, rec>> /\ mode'[e] = "deliver" /\ ended'[e] = ended[e]
    BY <1>5, <2>1 DEF NextAttempt
  <2>4. CASE rec.terminal[a] = "failed"
    <3>1. cpc'[e] = "reserve" /\ att'[e] = a + 1
      BY <1>5, <2>4 DEF NextAttempt, Goto, ReviewInv, TypeOK
    <3>2. CallerKnows(e)'
      BY <2>3, <3>1 DEF CallerKnows, UnplacedPoint, LookUpPoint
    <3>3. ReservesNext(e)'
      BY <1>1, <2>1, <2>3, <2>4, <3>1 DEF ReservesNext
    <3>4. LeavesBehind(e)'
      BY <1>1, <2>1, <2>2, <2>3, <3>1 DEF LeavesBehind
    <3> QED
      BY <3>2, <3>3, <3>4 DEF KnownOf
  <2>5. CASE rec.terminal[a] # "failed"
    <3>1. cpc'[e] = IF Ended(a) THEN "return" ELSE "failed"
      BY <1>5, <2>5 DEF NextAttempt, Goto, ReviewInv, TypeOK
    <3>2. att'[e] = a
      BY <1>5, <2>5 DEF NextAttempt
    <3>3. Ended(a) => Kept(att[e])'
      BY <2>3, <3>2 DEF Kept, Ended, Has
    <3>4. CallerKnows(e)'
      BY <2>1, <2>3, <3>1, <3>2, <3>3 DEF CallerKnows, UnplacedPoint, LookUpPoint
    <3>5. LeavesBehind(e)'
      BY <1>1, <2>1, <2>2, <2>3, <2>5, <3>1, <3>2 DEF LeavesBehind
    <3> QED
      BY <3>1, <3>4, <3>5 DEF KnownOf, ReservesNext
  <2> QED
    BY <2>4, <2>5
<1>6. CASE GetFailed(e)
  <2>1. PICK point \in {"released", "publish"} :
          Moves(e, point) /\ (point = "released" => Has("failed", att[e]))
    BY <1>6 DEF GetFailed, Test, Moves, UnplacedPoint
  <2>2. Needs(e, point)
    BY <1>1, <1>6, <2>1
       DEF Needs, GetFailed, Test, LookUpPoint, Broken, KnownOf, CallerKnows
  <2> QED
    BY <2>1, <2>2, CallerMoves
<1>7. CASE Test(e, "released", Has("index", att[e]), "publish", "help")
  <2>1. PICK point \in {"publish", "help"} : Moves(e, point)
    BY <1>7 DEF Test, Moves, UnplacedPoint
  <2>2. Needs(e, point)
    BY <1>1, <1>7, <2>1 DEF Needs, Test, LookUpPoint, KnownOf, CallerKnows
  <2> QED
    BY <2>1, <2>2, CallerMoves
<1>8. CASE RecordTerminal(e)
  <2>1. Moves(e, "helped")
    BY <1>8 DEF RecordTerminal, Moves, UnplacedPoint
  <2>2. Needs(e, "helped")
    BY <1>1, <1>8 DEF Needs, RecordTerminal, LookUpPoint, KnownOf, CallerKnows
  <2> QED
    BY <2>1, <2>2, CallerMoves
<1> QED
  BY <1>3, <1>4, <1>5, <1>6, <1>7, <1>8 DEF LookUp

(* Reserving a slot: the attempt is the latest, or an earlier one.         *)
LEMMA ReserveKnows ==
  ASSUME ReviewInv, [Next]_vars, NEW e \in Caller, _reserve_review_slot(e)
  PROVE  KnownOf(e)'
<1>1. /\ heads \in Nat /\ Attempt = 0 .. MaxAttempts - 1 /\ MaxAttempts \in Nat
      /\ KnownOf(e) /\ ended[e] \subseteq Attempt
  BY BoundAssumption DEF ReviewInv, TypeOK, Attempt, CallerInv, KnownOf
<1>2. /\ UNCHANGED <<legacy, rec, mode, att, ended>>
      /\ cpc[e] = "reserve" /\ cpc'[e] = "publish" /\ att[e] \in Attempt
      /\ heads' = IF heads = att[e] THEN heads + 1 ELSE heads
  BY DEF _reserve_review_slot, Goto, ReviewInv, TypeOK
<1>3. att[e] < heads'
  <2>1. CASE att[e] = 0
    BY <1>1, <1>2, <2>1
  <2>2. CASE att[e] # 0
    <3>1. att[e] - 1 \in Attempt /\ rec.terminal[att[e] - 1] = "failed"
      BY <1>1, <1>2, <2>2 DEF KnownOf, ReservesNext
    <3>2. att[e] - 1 < heads
      BY <3>1 DEF ReviewInv, RecordInv, Kept, Ended, Has
    <3> QED
      BY <1>1, <1>2, <2>2, <3>2
  <2> QED
    BY <2>1, <2>2
<1>4. CallerKnows(e)'
  BY <1>1, <1>2, <1>3 DEF KnownOf, CallerKnows, UnplacedPoint, LookUpPoint
<1> QED
  BY <1>1, <1>2, <1>4 DEF KnownOf, ReservesNext, LeavesBehind

(* Publishing: what the caller found, or put there, holds for good.        *)
LEMMA PublishKnows ==
  ASSUME ReviewInv, [Next]_vars, NEW e \in Caller, _publish_review(e)
  PROVE  KnownOf(e)'
<1> DEFINE a == att[e]
<1>1. ASSUME cpc[e] \notin UnplacedPoint
      PROVE  /\ a \in Attempt /\ KnownOf(e)
             /\ \A kind \in Kind \ {"index"} : Has(kind, a) => Kept(a)
             /\ Has("failed", a) \/ Has("claim", a) \/ Has("pending", a) \/ Ended(a) => Kept(a)
             /\ rec.index[a] \notin {"none", "pending"} => Kept(a)
             /\ Has("index", a) => Lodged(a)
  BY <1>1, PlacedAttempt
     DEF ReviewInv, CallerInv, KnownOf, RecordInv, Kept, Lodged, Ended, Has, Kind
<1>2. ASSUME NEW point, NEW found, NEW yes, NEW no, Test(e, point, found, yes, no),
             point \notin UnplacedPoint \cup {"terminal"},
             yes \notin UnplacedPoint \cup {"terminal"},
             no \notin UnplacedPoint \cup {"terminal"},
             found = TRUE => Needs(e, yes), found # TRUE => Needs(e, no)
      PROVE  KnownOf(e)'
  <2>1. CASE found = TRUE
    <3>1. Moves(e, yes)
      BY <1>2, <2>1 DEF Test, Moves
    <3> QED
      BY <1>2, <2>1, <3>1, CallerMoves
  <2>2. CASE found # TRUE
    BY <1>2, <2>2, CallerMoves DEF Test, Moves
  <2> QED
    BY <2>1, <2>2
<1>3. ASSUME NEW point \in {"publish", "unsure", "lost", "publishFailed", "unsureFailed"},
             NEW found, NEW next \in {"publishFailed", "unsureFailed", "lostFailed", "index",
                                      "unsureIndex"},
             found = TRUE => Ended(a) \/ Has("failed", a),
             Test(e, point, found, "return", next)
      PROVE  KnownOf(e)'
  <2>1. {point, next} \cap (UnplacedPoint \cup {"terminal"}) = {}
    BY DEF UnplacedPoint
  <2>2. found = TRUE => Needs(e, "return")
    BY <1>1, <1>3, <2>1 DEF Needs, LookUpPoint, Test
  <2>3. Needs(e, next)
    BY DEF Needs, LookUpPoint
  <2> QED
    BY <1>2, <1>3, <2>1, <2>2, <2>3 DEF UnplacedPoint
<1>4. ASSUME NEW point \in {"index", "indexAgain"}, NEW none \in {"putIndex", "lost"},
             ReadIndex(e, point, none)
      PROVE  KnownOf(e)'
  <2>1. PICK next \in {none, "putPending", "return"} :
          /\ Moves(e, next)
          /\ next = "putPending" => Has("index", a)
          /\ next = "return" => rec.index[a] \notin {"none", "pending"}
    BY <1>4 DEF ReadIndex, Moves, UnplacedPoint, Has
  <2>2. Needs(e, next)
    BY <1>1, <1>4, <2>1 DEF Needs, LookUpPoint, ReadIndex, UnplacedPoint
  <2> QED
    BY <2>1, <2>2, CallerMoves
<1>5. CASE Publish(e, "putIndex", "index", "indexAgain", "unsure")
  <2>1. PICK next \in {"indexAgain", "unsure"} : Moves(e, next)
    BY <1>5 DEF Publish, Moves, UnplacedPoint
  <2>2. Needs(e, next)
    BY DEF Needs, LookUpPoint
  <2> QED
    BY <2>1, <2>2, CallerMoves
<1>6. CASE Publish(e, "putPending", "pending", "fence", "queued")
  <2>1. PICK next \in {"fence", "queued"} :
          Moves(e, next) /\ (next = "fence" => PutIfAbsent("pending", a, "pending"))
    BY <1>6 DEF Publish, Moves, UnplacedPoint
  <2>2. next = "fence" => Kept(a)'
    <3>1. a \in Attempt /\ "pending" \in Kind /\ "pending" \in Status
      BY <1>1, <1>6 DEF Publish, UnplacedPoint, Kind, Status
    <3>2. Put("pending", a, "pending") => rec'["pending"][a] = "pending"
      BY <3>1, PutEffect DEF ReviewInv
    <3>3. att'[e] = a
      BY <2>1 DEF Moves
    <3> QED
      BY <2>1, <3>2, <3>3 DEF PutIfAbsent, Kept, Has
  <2>3. Needs(e, next)'
    BY <2>2 DEF Needs, LookUpPoint
  <2> QED
    BY <2>1, <2>3, CallerMoves
<1>7. CASE DeletePending(e)
  <2>1. Moves(e, "return") /\ Ended(a)
    BY <1>1, <1>7 DEF DeletePending, Moves, UnplacedPoint, KnownOf, CallerKnows
  <2>2. Needs(e, "return")
    BY <1>1, <2>1 DEF Needs, LookUpPoint, Moves
  <2> QED
    BY <2>1, <2>2, CallerMoves
<1>8. CASE Need(e, "unsureIndex", Has("index", a), "indexAgain")
  <2>1. Moves(e, "indexAgain") /\ Needs(e, "indexAgain")
    BY <1>8 DEF Need, Test, Moves, Needs, UnplacedPoint, LookUpPoint
  <2> QED
    BY <2>1, CallerMoves
<1>9. CASE Need(e, "lostFailed", Has("failed", a), "return")
  <2>1. Moves(e, "return") /\ Has("failed", a)
    BY <1>9 DEF Need, Test, Moves, UnplacedPoint
  <2>2. Needs(e, "return")
    BY <1>1, <2>1 DEF Needs, LookUpPoint, Moves
  <2> QED
    BY <2>1, <2>2, CallerMoves
<1>10. CASE Need(e, "queued", \E kind \in Kind \ {"index"} : Has(kind, a), "fence")
  <2>1. Moves(e, "fence") /\ \E kind \in Kind \ {"index"} : Has(kind, a)
    BY <1>10 DEF Need, Test, Moves, UnplacedPoint
  <2>2. Kept(a)
    BY <1>1, <2>1 DEF Moves
  <2>3. Needs(e, "fence")
    BY <2>2 DEF Needs, LookUpPoint
  <2> QED
    BY <2>1, <2>3, CallerMoves
<1>11. CASE Test(e, "fence", Ended(a), "unqueue", "return")
  <2>1. cpc[e] = "fence" /\ Kept(a)
    BY <1>1, <1>11 DEF Test, KnownOf, CallerKnows, UnplacedPoint
  <2>2. Ended(a) => Needs(e, "unqueue")
    BY DEF Needs, LookUpPoint
  <2>3. Needs(e, "return")
    BY <2>1 DEF Needs, LookUpPoint
  <2>4. PICK next \in {"unqueue", "return"} : Moves(e, next) /\ Needs(e, next)
    BY <1>11, <2>2, <2>3 DEF Test, Moves, UnplacedPoint
  <2> QED
    BY <2>4, CallerMoves
<1>12. \/ Test(e, "publish", Ended(a), "return", "publishFailed")
       \/ Test(e, "publishFailed", Has("failed", a), "return", "index")
       \/ Test(e, "unsure", Ended(a), "return", "unsureFailed")
       \/ Test(e, "unsureFailed", Has("failed", a), "return", "unsureIndex")
       \/ Test(e, "lost", Ended(a), "return", "lostFailed")
       => KnownOf(e)'
  BY <1>3
<1> QED
  BY <1>4, <1>5, <1>6, <1>7, <1>8, <1>9, <1>10, <1>11, <1>12 DEF _publish_review

(* Adopting the older format's record, within a delivery or at the start.  *)
LEMMA AdoptKnows ==
  ASSUME ReviewInv, [Next]_vars, NEW e \in Caller,
         adopt_legacy_reviews(e) \/ _adopt_legacy_review(e)
  PROVE  KnownOf(e)'
<1>1. KnownOf(e) /\ mode[e] \in {"deliver", "adopt", "start"} /\ ended[e] \subseteq Attempt
  BY DEF ReviewInv, TypeOK, CallerInv, KnownOf
<1>2. CASE adopt_legacy_reviews(e)
  <2>1. /\ UNCHANGED <<heads, legacy, rec>>
        /\ cpc'[e] = "reserve" /\ mode'[e] = "start" /\ att'[e] = 0 /\ ended'[e] = {}
    <3>1. cpc[e] = "idle" /\ att[e] = 0
      BY <1>1, <1>2 DEF adopt_legacy_reviews, KnownOf, CallerKnows
    <3>2. ended[e] = {}
      BY <1>1, <3>1 DEF KnownOf, LeavesBehind
    <3> QED
      BY <1>2, <3>1, <3>2 DEF adopt_legacy_reviews, Goto, ReviewInv, TypeOK
  <2> QED
    BY <2>1 DEF KnownOf, CallerKnows, ReservesNext, LeavesBehind, UnplacedPoint, LookUpPoint
<1>3. CASE /\ mode[e] # "deliver"
           /\ Test(e, "return", Has("pending", att[e]), "deleteLegacy", "adopted")
  <2>1. PICK next \in {"deleteLegacy", "adopted"} : Moves(e, next)
    BY <1>3 DEF Test, Moves, UnplacedPoint
  <2>2. Needs(e, next)
    BY <1>1, <1>3, <2>1 DEF Needs, Test, LookUpPoint, KnownOf, CallerKnows
  <2> QED
    BY <2>1, <2>2, CallerMoves
<1>4. CASE Need(e, "adopted", Ended(att[e]), "deleteLegacy")
  <2>1. Moves(e, "deleteLegacy") /\ Ended(att[e]) /\ cpc[e] = "adopted"
    BY <1>4 DEF Need, Test, Moves, UnplacedPoint
  <2>2. Needs(e, "deleteLegacy")
    BY <1>1, <2>1 DEF Needs, LookUpPoint, KnownOf, CallerKnows, Kept
  <2> QED
    BY <2>1, <2>2, CallerMoves
<1>5. CASE DeleteLegacy(e)
  <2>1. CASE mode[e] # "adopt"
    BY <1>5, <2>1, CallerLeaves DEF DeleteLegacy
  <2>2. CASE mode[e] = "adopt"
    <3>1. /\ cpc[e] = "deleteLegacy" /\ cpc'[e] = "list" /\ mode'[e] = "deliver"
          /\ att'[e] = att[e] /\ ended'[e] = ended[e] /\ rec' = rec
      BY <1>5, <2>2 DEF DeleteLegacy, Goto, ReviewInv, TypeOK
    <3>2. LeavesBehind(e)'
      BY <1>1, <3>1 DEF KnownOf, LeavesBehind
    <3> QED
      BY <1>1, <3>1, <3>2
         DEF KnownOf, CallerKnows, ReservesNext, UnplacedPoint, LookUpPoint
  <2> QED
    BY <2>1, <2>2
<1> QED
  BY <1>2, <1>3, <1>4, <1>5 DEF _adopt_legacy_review

LEMMA DeliverKnows ==
  ASSUME ReviewInv, NEW e \in Caller, Deliver(e) PROVE KnownOf(e)'
<1>1. /\ mode'[e] = "deliver" /\ att'[e] = 0 /\ cpc'[e] = "list" /\ rec' = rec
      /\ ended'[e] = {a \in Attempt : rec.terminal[a] = "failed"}
  BY DEF Deliver, Goto, ReviewInv, TypeOK, CallerInv, CallerKnows
<1>2. LeavesBehind(e)'
  BY <1>1 DEF LeavesBehind
<1> QED
  BY <1>1, <1>2 DEF KnownOf, CallerKnows, ReservesNext, UnplacedPoint, LookUpPoint

LEMMA StepCallerInv == ReviewInv /\ [Next]_vars => CallerTypes' /\ CallerInv'
<1> SUFFICES ASSUME ReviewInv, [Next]_vars PROVE CallerTypes' /\ CallerInv'
  OBVIOUS
<1>1. CASE \E e \in Caller : CallerStep(e)
  <2>1. PICK e \in Caller : CallerStep(e)
    BY <1>1
  <2>2. OwnStep(e)
    BY <2>1, CallerFrame
  <2>3. KnownOf(e)'
    BY <2>1, LookUpKnows, ReserveKnows, PublishKnows, AdoptKnows, DeliverKnows, CallerLeaves
       DEF CallerStep, Answer, Stop
  <2>4. ASSUME NEW d \in Caller \ {e} PROVE KnownOf(d)'
    BY <2>2, CallerStays DEF OwnStep
  <2>5. \A d \in Caller : KnownOf(d)'
    BY <2>3, <2>4
  <2> QED
    BY <2>2, <2>5 DEF OwnStep, CallerInv, KnownOf
<1>2. CASE ~(\E e \in Caller : CallerStep(e))
  <2>1. UNCHANGED caller /\ legacy' \in {legacy, "none"}
    BY <1>2 DEF Next, WorkerStep, Raise, Crash, Start, RetentionBegins, RetentionPick,
                Retain, RetentionLegacy, RetentionStep, vars
  <2>2. CallerTypes'
    BY <2>1 DEF ReviewInv, TypeOK, CallerTypes, caller
  <2>3. \A e \in Caller : KnownOf(e)'
    BY <2>1, CallerStays DEF caller
  <2> QED
    BY <2>2, <2>3 DEF CallerInv, KnownOf
<1> QED
  BY <1>1, <1>2

(* Types of the store, the slots and the worker's variables.               *)
LEMMA StepTypeOK == ReviewInv /\ [Next]_vars => TypeOK'
<1> SUFFICES ASSUME ReviewInv, [Next]_vars PROVE TypeOK'
  OBVIOUS
<1> DEFINE StoreTypes ==
      /\ rec \in [Kind -> [Attempt -> Status]]
      /\ \A a \in Attempt :
           /\ rec.pending[a] \in {"none", "pending"}
           /\ rec.failed[a] \in {"none", "failed"}
           /\ rec.claim[a] # "pending"
           /\ rec.terminal[a] \in {"none", "completed", "failed"}
<1>1. CallerTypes'
  BY StepCallerInv
<1>2. heads' \in 0 .. MaxAttempts
  BY HeadsGrow, BoundAssumption DEF ReviewInv, TypeOK, Attempt
<1>3. StoreTypes'
  <2>1. CASE UNCHANGED rec
    BY <2>1 DEF ReviewInv, TypeOK
  <2>2. ASSUME NEW k \in Kind, NEW b \in Attempt, NEW s \in Status,
               Put(k, b, s), Allowed(k, b, s)
        PROVE  StoreTypes'
    <3>1. /\ rec' \in [Kind -> [Attempt -> Status]]
          /\ \A j \in Kind, c \in Attempt :
               rec'[j][c] = IF j = k /\ c = b THEN s ELSE rec[j][c]
      BY <2>2, PutEffect DEF ReviewInv
    <3>2. k = "pending" => s \in {"none", "pending"}
      BY <2>2 DEF Allowed
    <3>3. k = "failed" => s \in {"none", "failed"}
      BY <2>2 DEF Allowed
    <3>4. k = "claim" => s # "pending"
      BY <2>2 DEF Allowed
    <3>5. k = "terminal" => s \in {"none", "completed", "failed"}
      BY <2>2 DEF Allowed
    <3> QED
      BY <3>1, <3>2, <3>3, <3>4, <3>5 DEF ReviewInv, TypeOK, Kind
  <2> QED
    BY <2>1, <2>2, StepWrites DEF OneWrite
<1>4. /\ wat' \in Attempt /\ keys' \subseteq Attempt /\ faults' \in Nat
      /\ after' \in {"recover", "notify", "notifyError"}
  <2> USE DEF WGoto
  <2>1. /\ wat \in Attempt /\ keys \subseteq Attempt /\ faults \in Nat /\ 0 \in Attempt
        /\ after \in {"recover", "notify", "notifyError"}
    BY BoundAssumption DEF ReviewInv, TypeOK, Attempt
  <2>2. CASE \/ recover_stale_processing /\ UNCHANGED faults
             \/ claim_next /\ UNCHANGED faults
    BY <2>1, <2>2 DEF recover_stale_processing, claim_next, NextKey, ListPending, WTest,
                      WWrite, RecoverFailed, ClaimPut
  <2>3. CASE \/ mark_completed /\ UNCHANGED faults
             \/ mark_failed /\ UNCHANGED faults
    BY <2>1, <2>3 DEF mark_completed, mark_failed, WTest, WWrite, FailPut
  <2>4. CASE /\ \/ ListPending("sleep", "recover") \/ RunEnds \/ Notified
                \/ WTest("escalate", TRUE, "fail", "fail") \/ WWrite("finish", after)
             /\ UNCHANGED faults
    BY <2>1, <2>4 DEF ListPending, RunEnds, Notified, WTest, WWrite
  <2>5. CASE Raise \/ Crash \/ Start
    BY <2>1, <2>5 DEF Raise, Crash, Start
  <2>6. CASE RetentionBegins \/ RetentionStep \/ UNCHANGED vars
    BY <2>1, <2>6 DEF RetentionBegins, RetentionStep, vars, worker
  <2>7. CASE \E e \in Caller : CallerStep(e)
    BY <2>1, <2>7 DEF CallerStep, worker
  <2> QED
    BY <2>2, <2>3, <2>4, <2>5, <2>6, <2>7 DEF Next, WorkerStep
<1> QED
  BY <1>1, <1>2, <1>3, <1>4 DEF TypeOK, CallerTypes

(* The worker: what it knows of its attempt, where it is and where its     *)
(* retention pass is.                                                      *)
WorkerKnows == WorkerInv /\ VerdictInv /\ RetentionInv

LEMMA WorkerLasts ==
  ASSUME ReviewInv, [Next]_vars
  PROVE  \E a \in Attempt : a = wat /\ Lasting(a)
  BY WriteLasts DEF ReviewInv, TypeOK

LEMMA WorkerStays ==
  ASSUME ReviewInv, [Next]_vars, UNCHANGED worker PROVE WorkerKnows'
<1>1. PICK a \in Attempt : a = wat /\ Lasting(a)
  BY WorkerLasts
<1>2. WorkerKnows /\ UNCHANGED <<wpc, wat, after, ret>>
  BY DEF worker, ReviewInv, WorkerKnows
<1>3. WorkerInv'
  BY <1>1, <1>2
     DEF WorkerKnows, WorkerInv, Lasting, WorkerAt, FailedPoint, BetweenPoint, ExpirePoint,
         RetentionInv, AwaitPoint, Kept, Broken, Ended, Has
<1>4. VerdictInv'
  BY <1>1, <1>2
     DEF WorkerKnows, VerdictInv, Lasting, WorkerAt, FailedPoint, BetweenPoint, CompletePoint,
         RecoverPoint, ClaimPoint, ExpirePoint, RetentionInv, AwaitPoint, Has
<1>5. RetentionInv'
  <2>1. wpc \in ExpirePoint => \E b \in Attempt : b = ret.attempt /\ Lasting(b)
    BY <1>2, WriteLasts DEF WorkerKnows, RetentionInv
  <2> QED
    BY <1>2, <2>1 DEF WorkerKnows, RetentionInv, Lasting, Ended, Has
<1> QED
  BY <1>3, <1>4, <1>5 DEF WorkerKnows

(* The retention pass: the worker's attempt is its own.                    *)
LEMMA RetentionKnows ==
  ASSUME ReviewInv, [Next]_vars, RetentionBegins \/ RetentionStep PROVE WorkerKnows'
<1>1. PICK a \in Attempt : a = wat /\ Lasting(a)
  BY WorkerLasts
<1>2. WorkerKnows /\ UNCHANGED <<wat, after>>
  BY DEF RetentionBegins, RetentionStep, ReviewInv, WorkerKnows
<1>3. CASE RetentionLegacy /\ RetentionBegins
  BY <1>2, <1>3
     DEF RetentionLegacy, RetentionBegins, WorkerKnows, WorkerInv, VerdictInv, RetentionInv,
         WorkerAt, Kept, Broken, Ended, Has
<1>4. CASE RetentionPick
  <2>1. PICK b \in Attempt, k \in {"failed", "claim", "index"},
             p \in {"expireClaim", "expireIndex", "expirePending"} :
          Ended(b) /\ Retain(b, k, p)
    BY <1>4 DEF RetentionPick
  <2>2. /\ wpc \in AwaitPoint /\ wpc' = p /\ UNCHANGED rec
        /\ ret' = [attempt |-> b, kind |-> k, back |-> wpc]
    BY <2>1 DEF Retain
  <2>3. RetentionInv'
    BY <2>1, <2>2 DEF RetentionInv, ExpirePoint, AwaitPoint, Ended, Has
  <2>4. WorkerAt' = WorkerAt /\ WorkerAt = wpc
    BY <2>2 DEF WorkerAt, ExpirePoint, AwaitPoint
  <2>5. WorkerInv' /\ VerdictInv'
    BY <1>2, <2>2, <2>4
       DEF WorkerKnows, WorkerInv, VerdictInv, FailedPoint, Kept, Broken, Ended, Has
  <2> QED
    BY <2>3, <2>5 DEF WorkerKnows
<1>5. CASE RetentionStep
  <2>1. /\ wpc \in ExpirePoint /\ WorkerAt = ret.back /\ ret.back \in AwaitPoint
        /\ \E b \in Attempt : b = ret.attempt /\ Lasting(b) /\ Ended(b)
    <3>1. wpc \in ExpirePoint
      BY <1>2, <1>5
         DEF RetentionStep, RetentionWrite, RetentionRaises, WorkerKnows, RetentionInv,
             ExpirePoint
    <3> QED
      BY <1>2, <3>1, WriteLasts DEF WorkerKnows, RetentionInv, WorkerAt
  <2>2. \/ wpc' = ret.back /\ ret' = NoRetention
        \/ /\ wpc' \in ExpirePoint /\ ret' = ret
           /\ wpc' = "expireRecord" => ret.kind # "claim"
    BY <1>5 DEF RetentionStep, RetentionWrite, RetentionRaises, ExpirePoint
  <2>3. WorkerAt' = WorkerAt
    BY <2>1, <2>2 DEF WorkerAt, ExpirePoint, AwaitPoint
  <2>4. RetentionInv'
    BY <1>2, <2>1, <2>2
       DEF WorkerKnows, RetentionInv, Lasting, ExpirePoint, AwaitPoint, Ended, Has
  <2>5. wpc' \in ExpirePoint \cup AwaitPoint
    BY <2>1, <2>2
  <2>6. WorkerInv'
    BY <1>1, <1>2, <2>1, <2>3, <2>5
       DEF WorkerKnows, WorkerInv, FailedPoint, BetweenPoint, Lasting, Kept, Broken, Ended,
           Has, ExpirePoint, AwaitPoint
  <2>7. VerdictInv'
    BY <1>1, <1>2, <2>1, <2>3, <2>5
       DEF WorkerKnows, VerdictInv, FailedPoint, BetweenPoint, RecoverPoint, ClaimPoint,
           CompletePoint, Lasting, Has, ExpirePoint, AwaitPoint
  <2> QED
    BY <2>4, <2>6, <2>7 DEF WorkerKnows
<1> QED
  BY <1>3, <1>4, <1>5 DEF RetentionBegins

(* What a write of the worker leaves in its attempt's records.             *)
LEMMA WriteEffect ==
  ASSUME ReviewInv, wpc \in DOMAIN Writes, Write
  PROVE  \A j \in Kind :
           rec'[j][wat] = IF j = Writes[wpc][1] /\ (wpc \in Creates => ~Has(j, wat))
                          THEN Writes[wpc][2] ELSE rec[j][wat]
<1> DEFINE kind == Writes[wpc][1]
           status == Writes[wpc][2]
<1>1. kind \in Kind /\ status \in Status /\ wat \in Attempt
  BY WritesAt DEF Kind, Status, ReviewInv, TypeOK
<1>2. \/ UNCHANGED rec /\ wpc \in Creates /\ Has(kind, wat)
      \/ Put(kind, wat, status) /\ (wpc \in Creates => ~Has(kind, wat))
  BY DEF Write, PutIfAbsent
<1> HIDE DEF kind, status
<1>3. \A j \in Kind :
        rec'[j][wat] = IF j = kind /\ (wpc \in Creates => ~Has(j, wat))
                       THEN status ELSE rec[j][wat]
  <2>1. CASE Put(kind, wat, status) /\ (wpc \in Creates => ~Has(kind, wat))
    <3>1. \A j \in Kind : rec'[j][wat] = IF j = kind THEN status ELSE rec[j][wat]
      BY <1>1, <2>1, PutEffect DEF ReviewInv
    <3> QED
      BY <2>1, <3>1
  <2> QED
    BY <1>2, <2>1
<1> QED
  BY <1>3 DEF kind, status

(* What is known at the start of a step of the worker's own.               *)
LEMMA WorkerStarts ==
  ASSUME ReviewInv
  PROVE  /\ wat \in Attempt /\ keys \subseteq Attempt
         /\ rec.terminal[wat] \in {"none", "completed", "failed"}
         /\ after \in {"recover", "notify", "notifyError"}
         /\ WorkerInv /\ VerdictInv /\ RetentionInv
         /\ Has("claim", wat) \/ Has("failed", wat) => Kept(wat)
         /\ Has("pending", wat) => Has("index", wat) \/ Broken(wat)
         /\ rec.terminal[wat] = "completed" => Has("claim", wat)
  BY DEF ReviewInv, TypeOK, RecordInv, Lodged

LEMMA RecoverKnows ==
  ASSUME ReviewInv, [Next]_vars, ret' = ret, recover_stale_processing
  PROVE  WorkerKnows'
<1> USE WorkerStarts
    DEF WorkerKnows, WorkerInv, VerdictInv, RetentionInv, WorkerAt, FailedPoint, BetweenPoint,
        RecoverPoint, ClaimPoint, CompletePoint, ExpirePoint, AwaitPoint, Kept, Broken, Ended,
        Has, WGoto
<1>1. CASE NextKey("recover", "recoverTerminal", "claimList")
  BY <1>1 DEF NextKey
<1>2. CASE WTest("recoverTerminal", rec.terminal[wat] = "completed", "complete",
           IF Ended(wat) THEN "recoverDelete" ELSE "recoverFailed")
  BY <1>2 DEF WTest
<1>3. CASE WWrite("recoverDelete", "recover")
  BY <1>3 DEF WWrite
<1>4. CASE RecoverFailed
  BY <1>4 DEF WTest, RecoverFailed
<1>5. CASE WTest("recoverIndex", Has("index", wat), "recoverClaim", "recover")
  BY <1>5 DEF WTest
<1>6. CASE WTest("recoverClaim", rec.claim[wat] = "processing", "recoverFence", "recover")
  BY <1>6 DEF WTest
<1>7. CASE WTest("recoverFence", Ended(wat), "recover", "recoverPut")
  BY <1>7 DEF WTest
<1>8. CASE WWrite("recoverPut", "recoverUnclaim")
  BY <1>8, WriteEffect, WritesAt DEF WWrite, Kind, Creates
<1>9. CASE WWrite("recoverUnclaim", "recover")
  BY <1>9 DEF WWrite
<1> QED
  BY <1>1, <1>2, <1>3, <1>4, <1>5, <1>6, <1>7, <1>8, <1>9 DEF recover_stale_processing

LEMMA ClaimKnows ==
  ASSUME ReviewInv, [Next]_vars, ret' = ret, claim_next PROVE WorkerKnows'
<1> USE WorkerStarts
    DEF WorkerKnows, WorkerInv, VerdictInv, RetentionInv, WorkerAt, FailedPoint, BetweenPoint,
        RecoverPoint, ClaimPoint, CompletePoint, ExpirePoint, AwaitPoint, Kept, Broken, Ended,
        Has, WGoto
<1>1. CASE ListPending("claimList", "claim")
  BY <1>1 DEF ListPending
<1>2. CASE NextKey("claim", "claimTerminal", "sleep")
  BY <1>2 DEF NextKey
<1>3. CASE WTest("claimTerminal", Ended(wat), "claimDelete", "claimFailed")
  BY <1>3 DEF WTest
<1>4. CASE WTest("claimFailed", Has("failed", wat), "claim", "claimIndex")
  BY <1>4 DEF WTest
<1>5. CASE WTest("claimIndex", rec.index[wat] = "pending", "claimThere",
                 IF Has("index", wat) THEN "claim" ELSE "claimDelete")
  BY <1>5 DEF WTest
<1>6. CASE WWrite("claimDelete", "claim")
  BY <1>6 DEF WWrite
<1>7. CASE WTest("claimThere", Has("pending", wat), "claimPut", "claim")
  BY <1>7 DEF WTest
<1>8. CASE ClaimPut
  BY <1>8, WriteEffect, WritesAt DEF WWrite, ClaimPut, Kind, Creates
<1>9. CASE WTest("claimFence", Ended(wat), "claim", "claimMark")
  BY <1>9 DEF WTest
<1>10. CASE WWrite("claimMark", "run")
  BY <1>10, WriteEffect, WritesAt DEF WWrite, Kind, Creates
<1> QED
  BY <1>1, <1>2, <1>3, <1>4, <1>5, <1>6, <1>7, <1>8, <1>9, <1>10 DEF claim_next

LEMMA CompleteKnows ==
  ASSUME ReviewInv, [Next]_vars, ret' = ret, mark_completed \/ WWrite("finish", after)
  PROVE  WorkerKnows'
<1> USE WorkerStarts
    DEF WorkerKnows, WorkerInv, VerdictInv, RetentionInv, WorkerAt, FailedPoint, BetweenPoint,
        RecoverPoint, ClaimPoint, CompletePoint, ExpirePoint, AwaitPoint, Kept, Broken, Ended,
        Has, WGoto
<1>1. CASE WWrite("complete", "completed")
  BY <1>1, WriteEffect, WritesAt DEF WWrite, Kind, Creates
<1>2. CASE WTest("completed", rec.terminal[wat] = "completed", "completeIndex", after)
  BY <1>2 DEF WTest
<1>3. CASE WWrite("completeIndex", "completeClaim")
  BY <1>3, WriteEffect, WritesAt DEF WWrite, Kind, Creates
<1>4. CASE WWrite("completeClaim", "finish")
  BY <1>4, WriteEffect, WritesAt DEF WWrite, Kind, Creates
<1>5. CASE WWrite("finish", after)
  BY <1>5, WriteEffect, WritesAt DEF WWrite, Kind, Creates
<1> QED
  BY <1>1, <1>2, <1>3, <1>4, <1>5 DEF mark_completed

LEMMA FailKnows ==
  ASSUME ReviewInv, [Next]_vars, ret' = ret, mark_failed PROVE WorkerKnows'
<1> USE WorkerStarts
    DEF WorkerKnows, WorkerInv, VerdictInv, RetentionInv, WorkerAt, FailedPoint, BetweenPoint,
        RecoverPoint, ClaimPoint, CompletePoint, ExpirePoint, AwaitPoint, Kept, Broken, Ended,
        Has, WGoto
<1>1. CASE WTest("fail", rec.terminal[wat] = "completed", after, "failPut")
  BY <1>1 DEF WTest
<1>2. CASE FailPut
  BY <1>2, WriteEffect, WritesAt DEF WWrite, FailPut, Kind, Creates
<1>3. CASE WTest("failIndex", Has("index", wat), "failMark", "failClaim")
  BY <1>3 DEF WTest
<1>4. CASE WWrite("failMark", "failClaim")
  BY <1>4, WriteEffect, WritesAt DEF WWrite, Kind, Creates
<1>5. CASE WWrite("failClaim", "failOwn")
  BY <1>5, WriteEffect, WritesAt DEF WWrite, Kind, Creates
<1>6. CASE WTest("failOwn", Has("index", wat), "failRelease", "failEnd")
  BY <1>6 DEF WTest
<1>7. CASE WWrite("failRelease", "failEnd")
  BY <1>7, WriteEffect, WritesAt DEF WWrite, Kind, Creates
<1>8. CASE WWrite("failEnd", "finish")
  BY <1>8, WriteEffect, WritesAt DEF WWrite, Kind, Creates
<1> QED
  BY <1>1, <1>2, <1>3, <1>4, <1>5, <1>6, <1>7, <1>8 DEF mark_failed

LEMMA RunKnows ==
  ASSUME ReviewInv, [Next]_vars, ret' = ret,
         \/ ListPending("sleep", "recover") \/ RunEnds \/ Notified
         \/ WTest("escalate", TRUE, "fail", "fail")
  PROVE  WorkerKnows'
<1> USE WorkerStarts
    DEF WorkerKnows, WorkerInv, VerdictInv, RetentionInv, WorkerAt, FailedPoint, BetweenPoint,
        RecoverPoint, ClaimPoint, CompletePoint, ExpirePoint, AwaitPoint, Kept, Broken, Ended,
        Has, WGoto
<1>1. CASE ListPending("sleep", "recover")
  BY <1>1 DEF ListPending
<1>2. CASE RunEnds
  BY <1>2 DEF RunEnds
<1>3. CASE Notified
  BY <1>3 DEF Notified
<1>4. CASE WTest("escalate", TRUE, "fail", "fail")
  BY <1>4 DEF WTest
<1> QED
  BY <1>1, <1>2, <1>3, <1>4

LEMMA FaultKnows ==
  ASSUME ReviewInv, [Next]_vars, Raise \/ Crash \/ Start PROVE WorkerKnows'
<1>1. PICK a \in Attempt : a = wat /\ Lasting(a)
  BY WorkerLasts
<1> USE WorkerStarts
    DEF WorkerKnows, WorkerInv, VerdictInv, RetentionInv, WorkerAt, FailedPoint, BetweenPoint,
        RecoverPoint, ClaimPoint, CompletePoint, ExpirePoint, AwaitPoint, WGoto
<1>2. CASE Raise /\ InTry
  BY <1>1, <1>2 DEF Raise, InTry, Lasting, Kept, Broken, Ended, Has, NoRetention
<1>3. CASE Raise /\ ~InTry
  BY <1>3 DEF Raise, NoRetention
<1>4. CASE Crash \/ Start
  BY <1>4 DEF Crash, Start
<1> QED
  BY <1>2, <1>3, <1>4

LEMMA StepWorkerKnows == ReviewInv /\ [Next]_vars => WorkerKnows'
<1> SUFFICES ASSUME ReviewInv, [Next]_vars PROVE WorkerKnows'
  OBVIOUS
<1>1. CASE WorkerStep
  BY <1>1, RecoverKnows, ClaimKnows, CompleteKnows, FailKnows, RunKnows DEF WorkerStep
<1>2. CASE (\E e \in Caller : CallerStep(e)) \/ UNCHANGED vars
  BY <1>2, WorkerStays DEF CallerStep, vars
<1> QED
  BY <1>1, <1>2, RetentionKnows, FaultKnows DEF Next

LEMMA InitReviewInv == Init => ReviewInv
<1> SUFFICES ASSUME Init PROVE ReviewInv
  OBVIOUS
<1>1. TypeOK
  BY BoundAssumption, LegacyAssumption DEF Init, TypeOK, Attempt, Kind, Status
<1>2. OneAtATime /\ RecordInv
  BY DEF Init, OneAtATime, RecordInv, Kept, Broken, Lodged, Ended, Has, Kind, Attempt
<1>3. CallerInv
  BY DEF Init, CallerInv, CallerKnows, ReservesNext, LeavesBehind, UnplacedPoint, LookUpPoint
<1>4. RetentionInv /\ WorkerInv /\ VerdictInv
  BY DEF Init, RetentionInv, WorkerInv, VerdictInv, WorkerAt, BetweenPoint, ExpirePoint,
         FailedPoint, CompletePoint, NoRetention
<1> QED
  BY <1>1, <1>2, <1>3, <1>4 DEF ReviewInv

LEMMA StepReviewInv == ReviewInv /\ [Next]_vars => ReviewInv'
  BY StepTypeOK, StepOneAtATime, StepRecordInv, StepCallerInv, StepWorkerKnows
     DEF ReviewInv, WorkerKnows

LEMMA Invariant == Spec => []ReviewInv
  BY InitReviewInv, StepReviewInv, PTL DEF Spec

(* Every variable keeps its type.                                          *)
THEOREM TypeCorrect == Spec => []TypeOK
  BY Invariant, PTL DEF ReviewInv

(* An attempt that is kept has what the worker needs to end it.            *)
LEMMA KeptIsSafe == ASSUME ReviewInv, NEW a \in Attempt PROVE Safe(a) <=> Kept(a)
  BY DEF ReviewInv, RecordInv, Safe, Kept, Lodged, Broken

(* The attempts of a head take turns, and no attempt is run that has ended *)
(* or whose failure is on record.                                          *)
THEOREM AttemptsInTurnAlways == Spec => []AttemptsInTurn
<1>1. ReviewInv => AttemptsInTurn
  <2>1. ReviewInv => EndedIsFinal
    BY DEF ReviewInv, WorkerInv, WorkerAt, ExpirePoint, EndedIsFinal, Broken
  <2> QED
    BY <2>1 DEF ReviewInv, AttemptsInTurn
<1> QED
  BY <1>1, Invariant, PTL

(* The attempt in hand at the verdict has a record to make an entry of.    *)
THEOREM VerdictFindsRecordAlways == Spec => []VerdictFindsRecord
<1>1. ReviewInv => VerdictFindsRecord
  BY DEF ReviewInv, VerdictInv, WorkerAt, ExpirePoint, VerdictPoint, CompletePoint,
         VerdictFindsRecord
<1> QED
  BY <1>1, Invariant, PTL

(* A sender is answered with a safe attempt, and never with one that had   *)
(* failed before its delivery came in.                                     *)
THEOREM AnswerIsGoodAlways == Spec => []AnswerIsGood
<1>1. ASSUME ReviewInv, NEW e \in Caller, cpc[e] = "return"
      PROVE  Safe(att[e]) /\ att[e] \notin ended[e]
  <2>1. att[e] \in Attempt /\ Kept(att[e])
    BY <1>1, PlacedAttempt DEF UnplacedPoint, ReviewInv, CallerInv, CallerKnows
  <2>2. \A b \in ended[e] : b < att[e]
    BY <1>1 DEF ReviewInv, CallerInv, LeavesBehind
  <2>3. att[e] \in Nat
    BY <2>1, BoundAssumption DEF Attempt
  <2> QED
    BY <1>1, <2>1, <2>2, <2>3, KeptIsSafe
<1>2. ReviewInv => AnswerIsGood
  BY <1>1 DEF AnswerIsGood, AnswerIsSafe, FailedIsRetried
<1> QED
  BY <1>2, Invariant, PTL

(* What is safe stays so: no kill, failed call, stale delete or retention  *)
(* undoes it.                                                              *)
THEOREM SafeForGoodAlways == Spec => SafeForGood
<1>1. ASSUME ReviewInv, ReviewInv', [Next]_vars, NEW a \in Attempt, Safe(a) PROVE Safe(a)'
  <2>1. Kept(a)'
    BY <1>1, KeptIsSafe, WriteLasts DEF Lasting
  <2>2. RecordInv'
    BY <1>1 DEF ReviewInv
  <2> QED
    BY <2>1, <2>2 DEF RecordInv, Safe, Kept, Lodged, Broken
<1>2. ReviewInv /\ ReviewInv' /\ [Next]_vars => [\A a \in Attempt : Safe(a) => Safe(a)']_vars
  BY <1>1
<1> QED
  BY <1>2, Invariant, PTL DEF Spec, SafeForGood

(* Active work of the older format is taken over by who adopts it, and its *)
(* record goes only when the attempt that takes over is safe.              *)
THEOREM LegacyIsTakenAlways == Spec => LegacyIsTaken
<1> DEFINE Taken ==
      legacy = "active" =>
        /\ heads = 0 /\ heads' > 0 =>
             \E e \in Caller : cpc[e] = "reserve" /\ cpc'[e] = "publish" /\ mode[e] # "deliver"
        /\ legacy' = "none" => heads > 0 /\ Safe(0)
<1>1. ASSUME ReviewInv, [Next]_vars, legacy = "active", heads = 0, heads' > 0
      PROVE  \E e \in Caller :
               cpc[e] = "reserve" /\ cpc'[e] = "publish" /\ mode[e] # "deliver"
  <2>1. PICK e \in Caller : cpc[e] = "reserve" /\ att[e] = 0 /\ cpc'[e] = "publish"
    BY <1>1, HeadsGrow
  <2>2. mode[e] # "deliver"
    BY <1>1, <2>1 DEF ReviewInv, CallerInv, ReservesNext
  <2> QED
    BY <2>1, <2>2
<1>2. ASSUME ReviewInv, [Next]_vars, legacy = "active", legacy' = "none"
      PROVE  heads > 0 /\ Safe(0)
  <2>1. PICK e \in Caller : DeleteLegacy(e)
    <3>1. \E e \in Caller : CallerStep(e)
      BY <1>2 DEF Next, WorkerStep, Raise, Crash, Start, RetentionBegins, RetentionPick,
                  Retain, RetentionLegacy, RetentionStep, vars
    <3>2. ASSUME NEW e \in Caller, CallerStep(e) PROVE DeleteLegacy(e)
      BY <1>2, <3>2
         DEF CallerStep, Deliver, Answer, Stop, LookUp, List, GetLegacy, NextAttempt,
             GetFailed, Test, RecordTerminal, _reserve_review_slot, _publish_review, Need,
             ReadIndex, Publish, DeletePending, adopt_legacy_reviews, _adopt_legacy_review
    <3> QED
      BY <3>1, <3>2
  <2>2. cpc[e] = "deleteLegacy"
    BY <2>1 DEF DeleteLegacy
  <2>3. att[e] = 0 /\ att[e] < heads /\ Kept(att[e])
    BY <1>2, <2>2 DEF ReviewInv, CallerInv, CallerKnows, UnplacedPoint
  <2>4. 0 \in Attempt /\ heads \in Nat
    BY <1>2, BoundAssumption DEF ReviewInv, TypeOK, Attempt
  <2> QED
    BY <1>2, <2>3, <2>4, KeptIsSafe
<1>3. ReviewInv /\ [Next]_vars => [Taken]_vars
  BY <1>1, <1>2
<1> QED
  BY <1>3, Invariant, PTL DEF Spec, LegacyIsTaken

(***************************************************************************)
(* The queue implements the contract of the reviews of one head.           *)
(***************************************************************************)

(* The retention pass leaves the worker where it was.                      *)
LEMMA RetentionMoves ==
  ASSUME ReviewInv, RetentionBegins \/ RetentionStep
  PROVE  /\ wat' = wat /\ WorkerAt' = WorkerAt
         /\ wpc' \in ExpirePoint \cup AwaitPoint
<1>1. CASE RetentionBegins
  BY <1>1 DEF RetentionBegins, RetentionPick, RetentionLegacy, Retain, WorkerAt, ExpirePoint,
              AwaitPoint
<1>2. CASE RetentionStep
  <2>1. wpc \in ExpirePoint /\ ret.back \in AwaitPoint
    BY <1>2 DEF RetentionStep, RetentionWrite, RetentionRaises, ReviewInv, RetentionInv,
                ExpirePoint
  <2>2. \/ wpc' = ret.back /\ ret' = NoRetention
        \/ wpc' \in ExpirePoint /\ ret' = ret
    BY <1>2 DEF RetentionStep, RetentionWrite, RetentionRaises, ExpirePoint
  <2> QED
    BY <1>2, <2>1, <2>2 DEF RetentionStep, WorkerAt, ExpirePoint, AwaitPoint
<1> QED
  BY <1>1, <1>2

LEMMA StepUnfailed == ReviewInv /\ CompletesUnfailed /\ [Next]_vars => CompletesUnfailed'
<1> SUFFICES ASSUME ReviewInv, CompletesUnfailed, [Next]_vars, wpc' = "complete"
             PROVE  Has("failed", wat)' => Ended(wat)'
  BY DEF CompletesUnfailed
<1>1. PICK a \in Attempt : a = wat /\ Lasting(a)
  BY WorkerLasts
<1>2. CASE wpc = "complete" /\ wat' = wat
  BY <1>1, <1>2 DEF CompletesUnfailed, Lasting
<1>3. CASE WTest("recoverTerminal", rec.terminal[wat] = "completed", "complete",
                 IF Ended(wat) THEN "recoverDelete" ELSE "recoverFailed")
  BY <1>1, <1>3 DEF WTest, WGoto, Lasting, Ended, Has
<1>4. CASE RunEnds
  BY <1>1, <1>4
     DEF RunEnds, WGoto, Lasting, ReviewInv, WorkerInv, WorkerAt, ExpirePoint, Broken
<1> QED
  <2>1. CASE recover_stale_processing
    BY <1>3, <2>1 DEF recover_stale_processing, NextKey, WTest, WWrite, RecoverFailed, WGoto
  <2>2. CASE claim_next
    BY <2>2 DEF claim_next, ListPending, NextKey, WTest, WWrite, ClaimPut, WGoto
  <2>3. CASE mark_completed \/ mark_failed \/ WWrite("finish", after)
    BY <2>3, WorkerStarts
       DEF mark_completed, mark_failed, WTest, WWrite, FailPut, WGoto
  <2>4. CASE ListPending("sleep", "recover") \/ Notified \/ WTest("escalate", TRUE, "fail", "fail")
    BY <2>4 DEF ListPending, Notified, WTest, WGoto
  <2>5. CASE Raise \/ Crash \/ Start
    BY <2>5 DEF Raise, Crash, Start, WGoto
  <2>6. CASE RetentionBegins \/ RetentionStep
    BY <2>6, RetentionMoves DEF ExpirePoint, AwaitPoint
  <2>7. CASE (\E e \in Caller : CallerStep(e)) \/ UNCHANGED vars
    BY <1>2, <2>7 DEF CallerStep, worker, vars
  <2> QED
    BY <1>4, <2>1, <2>2, <2>3, <2>4, <2>5, <2>6, <2>7 DEF Next, WorkerStep

(* What is written where: an attempt ends as failed when its failure is on *)
(* record, and as completed by the worker at it; and it is queued only     *)
(* once it has a slot.                                                     *)
LEMMA WriteMarks ==
  ASSUME ReviewInv, [Next]_vars, NEW a \in Attempt
  PROVE  /\ Ended(a)' => \/ Ended(a)
                         \/ rec'.terminal[a] = "failed" /\ Has("failed", a)
                         \/ rec'.terminal[a] = "completed" /\ wpc = "complete" /\ wat = a
         /\ Kept(a)' => Kept(a) \/ a < heads
<1> USE DEF Kept, Broken, Ended, Has
<1>1. CASE UNCHANGED rec
  BY <1>1
<1>2. ASSUME NEW k \in Kind, NEW b \in Attempt, NEW s \in Status,
             Put(k, b, s), Allowed(k, b, s)
      PROVE  /\ Ended(a)' => \/ Ended(a)
                             \/ rec'.terminal[a] = "failed" /\ Has("failed", a)
                             \/ rec'.terminal[a] = "completed" /\ wpc = "complete" /\ wat = a
             /\ Kept(a)' => Kept(a) \/ a < heads
  <2>1. \A j \in Kind, c \in Attempt :
          rec'[j][c] = IF j = k /\ c = b THEN s ELSE rec[j][c]
    BY <1>2, PutEffect DEF ReviewInv
  <2>2. \A c \in Attempt : Kept(c) => c < heads
    BY DEF ReviewInv, RecordInv
  <2> QED
    BY <1>2, <2>1, <2>2 DEF Allowed, Kind
<1> QED
  BY <1>1, <1>2, StepWrites DEF OneWrite

(* Who is run is queued, and undecided.                                    *)
LEMMA RunningIs == ASSUME ReviewInv, NEW a, Running(a) PROVE Kept(a) /\ ~Broken(a)
  BY DEF ReviewInv, WorkerInv, Running, UndecidedPoint, BetweenPoint

(* The worker has an attempt in hand before it runs it.                    *)
LEMMA InHand ==
  ASSUME ReviewInv, [Next]_vars, WorkerAt' = "run" \/ WorkerAt' \in UndecidedPoint
  PROVE  wat' = wat /\ WorkerAt \notin BetweenPoint
<1> USE WorkerStarts
    DEF WorkerAt, BetweenPoint, ExpirePoint, AwaitPoint, UndecidedPoint, RetentionInv, WGoto
<1>1. CASE recover_stale_processing /\ ret' = ret
  BY <1>1 DEF recover_stale_processing, NextKey, WTest, WWrite, RecoverFailed
<1>2. CASE claim_next /\ ret' = ret
  BY <1>2 DEF claim_next, ListPending, NextKey, WTest, WWrite, ClaimPut
<1>3. CASE (mark_completed \/ mark_failed \/ WWrite("finish", after)) /\ ret' = ret
  BY <1>3 DEF mark_completed, mark_failed, WTest, WWrite, FailPut
<1>4. CASE (\/ ListPending("sleep", "recover") \/ RunEnds \/ Notified
            \/ WTest("escalate", TRUE, "fail", "fail")) /\ ret' = ret
  BY <1>4 DEF ListPending, RunEnds, Notified, WTest
<1>5. CASE Raise \/ Crash \/ Start
  BY <1>5 DEF Raise, Crash, Start, InTry, NoRetention, CompletePoint
<1>6. CASE RetentionBegins \/ RetentionStep
  BY <1>6, RetentionMoves
<1>7. CASE (\E e \in Caller : CallerStep(e)) \/ UNCHANGED vars
  BY <1>7 DEF CallerStep, worker, vars
<1> QED
  BY <1>1, <1>2, <1>3, <1>4, <1>5, <1>6, <1>7 DEF Next, WorkerStep

(* What one attempt's phase may do in a step.                              *)
Advances(a) ==
  \/ phase'[a] = phase[a]
  \/ phase[a] = "absent" /\ phase'[a] = "open" /\ (a = 0 \/ phase[a - 1] = "failed")
  \/ <<phase[a], phase'[a]>> \in
       {<<"open", "due">>, <<"due", "running">>, <<"running", "due">>,
        <<"running", "completed">>, <<"running", "failing">>, <<"failing", "failed">>}

(* The phase of an attempt, by what the proofs know of it.                 *)
PhaseIs(a) ==
  IF Running(a) THEN "running"
  ELSE IF Ended(a) THEN rec.terminal[a]
  ELSE IF Kept(a) THEN IF Has("failed", a) THEN "failing" ELSE "due"
  ELSE IF a < heads THEN "open" ELSE "absent"

LEMMA PhaseOf == ASSUME ReviewInv, NEW a \in Attempt PROVE phase[a] = PhaseIs(a)
  BY KeptIsSafe DEF phase, PhaseIs

LEMMA PhaseOfNext ==
  ASSUME ReviewInv', NEW a \in Attempt PROVE phase'[a] = PhaseIs(a)'
<1>1. Safe(a)' <=> Kept(a)'
  BY DEF ReviewInv, RecordInv, Safe, Kept, Lodged, Broken
<1> QED
  BY <1>1 DEF phase, PhaseIs

(* A slot is opened behind a failed attempt only.                          *)
LEMMA OpensBehind ==
  ASSUME ReviewInv, [Next]_vars, NEW a \in Attempt, ~(a < heads), a < heads'
  PROVE  a = heads /\ (a = 0 \/ (a - 1 \in Attempt /\ phase[a - 1] = "failed"))
<1>1. heads \in Nat /\ a \in Nat
  BY BoundAssumption DEF ReviewInv, TypeOK, Attempt
<1>2. a = heads
  BY <1>1, HeadsGrow
<1>3. PICK e \in Caller : cpc[e] = "reserve" /\ att[e] = heads
  BY <1>1, <1>2, HeadsGrow
<1>4. CASE a # 0
  <2>1. a - 1 \in Attempt /\ rec.terminal[a - 1] = "failed"
    BY <1>1, <1>2, <1>3, <1>4, BoundAssumption
       DEF ReviewInv, CallerInv, ReservesNext, Attempt
  <2>2. Ended(a - 1) /\ ~Running(a - 1)
    BY <2>1, RunningIs DEF Broken, Ended, Has
  <2> QED
    BY <1>2, <2>1, <2>2, PhaseOf DEF PhaseIs
<1> QED
  BY <1>2, <1>4

LEMMA PhaseAdvances ==
  ASSUME ReviewInv, ReviewInv', CompletesUnfailed, [Next]_vars, NEW a \in Attempt
  PROVE  Advances(a)
<1>1. phase[a] = PhaseIs(a) /\ phase'[a] = PhaseIs(a)'
  BY PhaseOf, PhaseOfNext
<1>2. Lasting(a)
  BY WriteLasts
<1>3. /\ Ended(a)' => \/ Ended(a)
                      \/ rec'.terminal[a] = "failed" /\ Has("failed", a)
                      \/ rec'.terminal[a] = "completed" /\ wpc = "complete" /\ wat = a
      /\ Kept(a)' => Kept(a) \/ a < heads
  BY WriteMarks
<1>4. Running(a) => Kept(a) /\ ~Ended(a) /\ ~Has("failed", a)
  BY RunningIs DEF Broken
<1>5. Running(a)' => Kept(a)' /\ ~Ended(a)' /\ ~Has("failed", a)'
  BY DEF ReviewInv, WorkerInv, Running, UndecidedPoint, BetweenPoint, Broken
<1>6. Running(a)' => Kept(a) /\ ~Ended(a) /\ ~Has("failed", a)
  <2>1. Running(a)' => wat = a /\ WorkerAt \notin BetweenPoint
    BY InHand DEF Running
  <2>2. Running(a)' => Kept(a)
    BY <2>1 DEF ReviewInv, WorkerInv
  <2> QED
    BY <1>2, <1>5, <2>2 DEF Lasting, Broken
<1>7. /\ wat = a /\ wpc = "complete" /\ ~Ended(a) => ~Has("failed", a)
      /\ wat = a /\ wpc \in {"complete", "failPut"} /\ ~Broken(a) => Running(a)
      /\ wat = a /\ wpc \in {"complete", "failPut"} => Kept(a)
  BY DEF CompletesUnfailed, Running, WorkerAt, UndecidedPoint, ExpirePoint, ReviewInv,
         WorkerInv, BetweenPoint
<1>8. Kept(a) => a < heads
  BY DEF ReviewInv, RecordInv
<1>9. heads \in Nat /\ a \in Nat /\ (a < heads => a < heads')
  BY HeadsGrow, BoundAssumption DEF ReviewInv, TypeOK, Attempt
<1>10. wpc = "expireRecord" /\ Has("failed", a) /\ ~Has("failed", a)' => Ended(a)'
  BY <1>2 DEF Lasting, Broken
<1>11. CASE Running(a)
  BY <1>1, <1>2, <1>3, <1>4, <1>5, <1>11 DEF Advances, PhaseIs, Lasting
<1>12. CASE ~Running(a) /\ Ended(a)
  BY <1>1, <1>2, <1>6, <1>12 DEF Advances, PhaseIs, Lasting
<1>13. CASE ~Running(a) /\ ~Ended(a) /\ Kept(a) /\ Has("failed", a)
  BY <1>1, <1>2, <1>3, <1>6, <1>7, <1>10, <1>13 DEF Advances, PhaseIs, Lasting
<1>14. CASE ~Running(a) /\ ~Ended(a) /\ Kept(a) /\ ~Has("failed", a)
  BY <1>1, <1>2, <1>3, <1>6, <1>7, <1>14 DEF Advances, PhaseIs, Lasting, Broken
<1>15. CASE ~Running(a) /\ ~Ended(a) /\ ~Kept(a) /\ a < heads
  <2>1. ~Has("failed", a)
    BY <1>15 DEF ReviewInv, RecordInv
  <2>2. ~Ended(a)' /\ ~Has("failed", a)' /\ ~Running(a)'
    BY <1>2, <1>3, <1>6, <1>7, <1>15, <2>1 DEF Lasting
  <2> QED
    BY <1>1, <1>9, <1>15, <2>2 DEF Advances, PhaseIs
<1>16. CASE ~Running(a) /\ ~Ended(a) /\ ~Kept(a) /\ ~(a < heads)
  <2>1. ~Running(a)' /\ ~Kept(a)' /\ ~Ended(a)'
    BY <1>3, <1>6, <1>16 DEF Kept
  <2>2. a < heads' => a = 0 \/ phase[a - 1] = "failed"
    BY <1>16, OpensBehind
  <2> QED
    BY <1>1, <1>16, <2>1, <2>2 DEF Advances, PhaseIs
<1> QED
  BY <1>8, <1>11, <1>12, <1>13, <1>14, <1>15, <1>16

(* All a step can change is one attempt.                                   *)
Spared(a) ==
  /\ \A k \in Kind : rec'[k][a] = rec[k][a]
  /\ a < heads' <=> a < heads
  /\ Running(a)' <=> Running(a)

LEMMA SparedStays ==
  ASSUME ReviewInv, ReviewInv', NEW a \in Attempt, Spared(a)
  PROVE  phase'[a] = phase[a]
<1>1. PhaseIs(a)' = PhaseIs(a)
  BY DEF Spared, PhaseIs, Kept, Ended, Has, Kind
<1> QED
  BY <1>1, PhaseOf, PhaseOfNext

LEMMA PutSpares ==
  ASSUME TypeOK, NEW k \in Kind, NEW a \in Attempt, NEW s \in Status, Put(k, a, s)
  PROVE  \A j \in Kind, b \in Attempt \ {a} : rec'[j][b] = rec[j][b]
  BY PutEffect

(* A caller opens a slot, or writes a record of one attempt.               *)
LEMMA CallerTouchesOne ==
  ASSUME ReviewInv, NEW e \in Caller, CallerStep(e)
  PROVE  \E b \in Attempt : \A a \in Attempt \ {b} : Spared(a)
<1>1. \A a \in Attempt : (Broken(a)' = Broken(a)) => (Running(a)' <=> Running(a))
  BY DEF CallerStep, worker, Running, WorkerAt
<1>2. PICK b \in Attempt :
        \A a \in Attempt \ {b} :
          (\A k \in Kind : rec'[k][a] = rec[k][a]) /\ (a < heads' <=> a < heads)
  <2>1. [Next]_vars
    BY DEF Next
  <2>2. CASE heads' = heads
    <3>1. CASE UNCHANGED rec
      BY <2>2, <3>1, WorkerStarts
    <3>2. CASE \E k \in Kind, b \in Attempt, s \in Status : Put(k, b, s) /\ Allowed(k, b, s)
      BY <2>2, <3>2, PutSpares DEF ReviewInv
    <3> QED
      BY <3>1, <3>2, CallerWrites DEF OneWrite
  <2>3. CASE heads' # heads
    <3>1. heads' = heads + 1 /\ heads \in Attempt
      BY <2>1, <2>3, HeadsGrow
    <3>2. UNCHANGED rec
      BY <2>3
         DEF CallerStep, Deliver, Answer, Stop, LookUp, List, GetLegacy, NextAttempt,
             GetFailed, Test, RecordTerminal, _reserve_review_slot, _publish_review, Need,
             ReadIndex, Publish, DeletePending, adopt_legacy_reviews, _adopt_legacy_review,
             DeleteLegacy
    <3>3. \A a \in Attempt : a \in Nat
      BY DEF Attempt
    <3> QED
      BY <3>1, <3>2, <3>3
  <2> QED
    BY <2>2, <2>3
<1> QED
  BY <1>1, <1>2 DEF Spared, Broken, Ended, Has, Kind

(* The worker writes records of the attempt in hand only.                  *)
LEMMA WorkerTouchesOne ==
  ASSUME ReviewInv, [Next]_vars, WorkerStep \/ Raise
  PROVE  \A a \in Attempt \ {wat} : Spared(a)
<1>1. UNCHANGED rec \/ (wpc \in DOMAIN Writes /\ Write)
  <2>1. CASE recover_stale_processing
    BY <2>1, WritesAt DEF recover_stale_processing, NextKey, WTest, WWrite, RecoverFailed
  <2>2. CASE claim_next
    BY <2>2, WritesAt DEF claim_next, ListPending, NextKey, WTest, WWrite, ClaimPut
  <2>3. CASE mark_completed \/ mark_failed
    BY <2>3, WritesAt DEF mark_completed, mark_failed, WTest, WWrite, FailPut
  <2>4. CASE ListPending("sleep", "recover") \/ RunEnds \/ Notified
              \/ WTest("escalate", TRUE, "fail", "fail") \/ WWrite("finish", after)
    BY <2>4, WritesAt DEF ListPending, RunEnds, WTest, Notified, WWrite
  <2>5. CASE Raise
    BY <2>5 DEF Raise
  <2> QED
    BY <2>1, <2>2, <2>3, <2>4, <2>5 DEF WorkerStep
<1>2. \A k \in Kind, a \in Attempt \ {wat} : rec'[k][a] = rec[k][a]
  <2>1. CASE wpc \in DOMAIN Writes /\ Write
    <3> DEFINE kind == Writes[wpc][1]
               status == Writes[wpc][2]
    <3>1. kind \in Kind /\ status \in Status /\ wat \in Attempt
      BY <2>1, WritesAt DEF Kind, Status, ReviewInv, TypeOK
    <3>2. UNCHANGED rec \/ Put(kind, wat, status)
      BY <2>1 DEF Write, PutIfAbsent
    <3> HIDE DEF kind, status
    <3> QED
      BY <3>1, <3>2, PutSpares DEF ReviewInv
  <2> QED
    BY <1>1, <2>1
<1>3. \A a \in Attempt \ {wat} : ~Running(a) /\ ~Running(a)'
  BY InHand DEF Running
<1>4. heads' = heads
  BY DEF WorkerStep, Raise
<1> QED
  BY <1>2, <1>3, <1>4 DEF Spared

(* The retention pass writes records of the attempt it took up.            *)
LEMMA RetentionTouchesOne ==
  ASSUME ReviewInv, RetentionBegins \/ RetentionStep
  PROVE  \E b \in Attempt : \A a \in Attempt \ {b} : Spared(a)
<1>1. heads' = heads
  BY DEF RetentionBegins, RetentionStep
<1>2. PICK b \in Attempt : \A k \in Kind, a \in Attempt \ {b} : rec'[k][a] = rec[k][a]
  <2>1. CASE UNCHANGED rec
    BY <2>1, WorkerStarts
  <2>2. CASE RetentionWrite
    BY <2>2, RetentionWrites, PutSpares, WorkerStarts DEF OneWrite, ReviewInv
  <2> QED
    BY <2>1, <2>2
       DEF RetentionBegins, RetentionPick, RetentionLegacy, Retain, RetentionStep,
           RetentionRaises
<1>3. \A a \in Attempt \ {b} : Running(a)' <=> Running(a)
  BY <1>2, RetentionMoves DEF Running, Broken, Ended, Has, Kind
<1> QED
  BY <1>1, <1>2, <1>3 DEF Spared

LEMMA TouchesOne ==
  ASSUME ReviewInv, [Next]_vars
  PROVE  \E b \in Attempt : \A a \in Attempt \ {b} : Spared(a)
<1>1. CASE WorkerStep \/ Raise
  BY <1>1, WorkerTouchesOne, WorkerStarts
<1>2. CASE Crash \/ Start
  <2>1. \A a \in Attempt \ {wat} : ~Running(a) /\ ~Running(a)'
    BY InHand DEF Running
  <2> QED
    BY <1>2, <2>1, WorkerStarts DEF Crash, Start, Spared
<1>3. CASE UNCHANGED vars
  BY <1>3, WorkerStarts
     DEF vars, worker, Spared, Running, WorkerAt, Broken, Ended, Has
<1> QED
  BY <1>1, <1>2, <1>3, CallerTouchesOne, RetentionTouchesOne DEF Next

(* Each step is one of the contract's, of the one attempt that it touches, *)
(* or a stutter.                                                           *)
LEMMA InitMaps == Init => Contract!Init
<1> SUFFICES ASSUME Init PROVE phase = [a \in Attempt |-> "absent"]
  BY DEF Contract!Init
<1>1. \A a \in Attempt : ~Running(a) /\ ~Ended(a) /\ ~Safe(a) /\ ~(a < heads)
  BY BoundAssumption
     DEF Init, Running, WorkerAt, ExpirePoint, UndecidedPoint, Ended, Safe, Has, Kind, Attempt
<1> QED
  BY <1>1 DEF phase

LEMMA StepMaps ==
  ReviewInv /\ ReviewInv' /\ CompletesUnfailed /\ [Next]_vars => [Contract!Next]_phase
<1> SUFFICES ASSUME ReviewInv, ReviewInv', CompletesUnfailed, [Next]_vars
             PROVE  [Contract!Next]_phase
  OBVIOUS
<1>1. PICK b \in Attempt : \A a \in Attempt \ {b} : Spared(a)
  BY TouchesOne
<1>2. \A a \in Attempt \ {b} : phase'[a] = phase[a]
  BY <1>1, SparedStays
<1>3. /\ phase = [a \in Attempt |-> phase[a]]
      /\ phase' = [a \in Attempt |-> phase'[a]]
  BY DEF phase
<1>4. phase' = [phase EXCEPT ![b] = phase'[b]]
  BY <1>2, <1>3
<1>5. CASE phase'[b] = phase[b]
  BY <1>3, <1>4, <1>5
<1>6. CASE phase'[b] # phase[b]
  BY <1>4, <1>6, PhaseAdvances
     DEF Advances, Contract!Next, Contract!Move, Contract!Open, Contract!Accept, Contract!Begin,
         Contract!CutShort, Contract!Complete, Contract!Fail, Contract!CarryThrough
<1> QED
  BY <1>5, <1>6

(* The queue implements the contract of the reviews of one head, whatever  *)
(* deliveries, worker, faults and retention do: attempts follow one        *)
(* another, each behind a failed one; an accepted attempt is not lost, and *)
(* what it ended in is final.                                              *)
THEOREM ContractImplemented == Spec => ImplementsContract
<1>1. Spec => []CompletesUnfailed
  <2>1. Init => CompletesUnfailed
    BY DEF Init, CompletesUnfailed
  <2> QED
    BY <2>1, StepUnfailed, Invariant, PTL DEF Spec
<1> QED
  BY <1>1, InitMaps, StepMaps, Invariant, PTL DEF Spec, ImplementsContract, Contract!Spec
=============================================================================
