------------------------- MODULE ReviewQueueProps --------------------------
(***************************************************************************)
(* What is claimed of ReviewQueue.                                         *)
(***************************************************************************)
EXTENDS ReviewQueue

Status == {"none", "pending", "processing", "completed", "failed"}

(* Every variable keeps its type: an index may have any status, a claim is *)
(* never pending, and an attempt ends completed or failed.                 *)
TypeOK ==
  /\ heads \in 0 .. MaxAttempts
  /\ legacy \in {"none", "active", "completed", "failed"}
  /\ rec \in [Kind -> [Attempt -> Status]]
  /\ \A a \in Attempt :
       /\ rec.pending[a] \in {"none", "pending"}
       /\ rec.failed[a] \in {"none", "failed"}
       /\ rec.claim[a] # "pending"
       /\ rec.terminal[a] \in {"none", "completed", "failed"}
  /\ DOMAIN cpc = Caller
  /\ mode \in [Caller -> {"deliver", "adopt", "start"}]
  /\ att \in [Caller -> 0 .. MaxAttempts]
  /\ ended \in [Caller -> SUBSET Attempt]
  /\ wat \in Attempt /\ keys \subseteq Attempt
  /\ after \in {"recover", "notify", "notifyError"}
  /\ faults \in Nat

(* The attempt in hand at the verdict has a record to make an entry of.    *)
VerdictPoint == CompletePoint \cup {"run", "escalate", "fail"}
VerdictFindsRecord ==
  wpc \in VerdictPoint => Has("failed", wat) \/ Has("claim", wat)

(* No attempt is run that has ended, or whose failure is on record: a      *)
(* delayed publisher, a stale listing or a recovery never revives one.     *)
EndedIsFinal == wpc = "run" => ~Ended(wat) /\ ~Has("failed", wat)

(* One attempt at a time, and none after a completed one: whatever came    *)
(* before the latest attempt has failed.                                   *)
OneAtATime == \A a \in Attempt : a + 1 < heads => rec.terminal[a] = "failed"

(* The attempts of a head take turns, and an ended one is not run again.   *)
AttemptsInTurn == OneAtATime /\ EndedIsFinal

(* An attempt is safe when it has ended, or is queued with what the worker *)
(* needs to run it or to carry its failure through.                        *)
Safe(a) == Ended(a) \/ (Has("pending", a) /\ (Has("index", a) \/ Has("failed", a)))

(* A sender is given the id of a safe attempt only, ...                    *)
AnswerIsSafe ==
  \A e \in Caller : cpc[e] = "return" /\ mode[e] = "deliver" => Safe(att[e])
(* ... and no kill, failed call, stale delete or retention undoes it.      *)
SafeForGood == [][\A a \in Attempt : Safe(a) => Safe(a)']_vars

(* A delivery is never answered with an attempt that had failed before it  *)
(* came in: it gets an attempt of its own, or joins a later one.           *)
FailedIsRetried ==
  \A e \in Caller :
    cpc[e] = "return" /\ mode[e] = "deliver" => att[e] \notin ended[e]

(* So a sender can rely on the id it is answered with.                     *)
AnswerIsGood == AnswerIsSafe /\ FailedIsRetried

(* While the older format's record says that work is active, the first     *)
(* slot is reserved only by who adopts it, with its id; and the record     *)
(* goes only when the attempt that takes over is safe.                     *)
LegacyIsTaken ==
  [][legacy = "active" =>
       /\ heads = 0 /\ heads' > 0 =>
            \E e \in Caller : cpc[e] = "reserve" /\ cpc'[e] = "publish" /\ mode[e] # "deliver"
       /\ legacy' = "none" => heads > 0 /\ Safe(0)]_vars

(* Every safe attempt ends.                                                *)
EveryReviewEnds == \A a \in Attempt : Safe(a) ~> Ended(a)

(***************************************************************************)
(* The inductive invariant behind these, conjunct by conjunct.             *)
(***************************************************************************)

(* What is kept stays queued until it has ended; what is lodged has an     *)
(* index until it fails; and who is broken will never be run again.        *)
Kept(a)   == Has("pending", a) \/ Ended(a)
Broken(a) == Has("failed", a) \/ Ended(a)
Lodged(a) == Has("index", a) \/ Broken(a)

(* How the records of an attempt go together.                              *)
RecordInv ==
  \A a \in Attempt :
    /\ Kept(a) => a < heads
    /\ Has("pending", a) => Lodged(a)
    /\ Has("failed", a) \/ Has("claim", a) => Kept(a)
    /\ rec.index[a] \notin {"none", "pending"} => Kept(a)
    /\ rec.terminal[a] = "completed" => Has("claim", a)

(* What a caller knows of its attempt, point by point; who adopts the      *)
(* older record is at the first attempt.                                   *)
UnplacedPoint == {"idle", "list", "legacy", "reserve"}
LookUpPoint   == {"list", "legacy", "terminal", "failed", "released", "help", "helped"}
CallerKnows(e) ==
  /\ cpc[e] = "idle" => mode[e] = "deliver" /\ att[e] = 0
  /\ cpc[e] = "legacy" => att[e] = 0
  /\ cpc[e] \in LookUpPoint => mode[e] = "deliver"
  /\ mode[e] # "deliver" => att[e] = 0
  /\ cpc[e] \in {"adopted", "deleteLegacy"} => mode[e] # "deliver"
  /\ cpc[e] \notin UnplacedPoint => att[e] < heads
  /\ cpc[e] \in {"released", "help"} => Broken(att[e])
  /\ cpc[e] \in {"return", "deleteLegacy", "fence"} => Kept(att[e])
  /\ cpc[e] = "unqueue" => Ended(att[e])
  /\ cpc[e] = "putPending" => Lodged(att[e])

(* A slot is reserved after a failed attempt, or for the first one: then   *)
(* no active record is left aside.                                         *)
ReservesNext(e) ==
  cpc[e] = "reserve" =>
    IF att[e] = 0 THEN mode[e] = "deliver" => legacy # "active"
                  ELSE rec.terminal[att[e] - 1] = "failed"

(* The attempts that had failed when a delivery came in are behind it.     *)
LeavesBehind(e) ==
  \A b \in ended[e] :
    /\ cpc[e] # "idle" /\ rec.terminal[b] = "failed"
    /\ cpc[e] = "terminal" => b <= att[e]
    /\ cpc[e] \notin {"list", "terminal"} => b < att[e]

CallerInv == \A e \in Caller : CallerKnows(e) /\ ReservesNext(e) /\ LeavesBehind(e)

(* Retention works on what has ended, while the worker awaits.             *)
ExpirePoint == {"expireClaim", "expireIndex", "expirePending", "expireRecord"}
RetentionInv ==
  IF wpc \in ExpirePoint
  THEN /\ ret \in [attempt : Attempt, kind : {"failed", "claim", "index"}, back : AwaitPoint]
       /\ Ended(ret.attempt)
       /\ wpc = "expireRecord" => ret.kind # "claim"
  ELSE ret = NoRetention

(* Where the worker is, or comes back to.                                  *)
WorkerAt     == IF wpc \in ExpirePoint THEN ret.back ELSE wpc
BetweenPoint == {"down", "sleep", "recover", "claimList", "claim"}
RecoverPoint == {"recoverTerminal", "recoverDelete", "recoverFailed", "recoverIndex",
                 "recoverClaim", "recoverFence", "recoverPut", "recoverUnclaim"}
ClaimPoint   == {"claimTerminal", "claimFailed", "claimIndex", "claimDelete",
                 "claimThere", "claimPut", "claimFence", "claimMark"}
FailedPoint  == {"failIndex", "failMark", "failClaim", "failOwn", "failRelease", "failEnd"}

(* What it knows of its attempt, point by point.                           *)
WorkerInv ==
  /\ WorkerAt \notin BetweenPoint => Kept(wat)
  /\ wpc \in {"recoverDelete", "claimDelete", "completeIndex", "completeClaim", "finish"}
       => Ended(wat)
  /\ wpc \in FailedPoint => Broken(wat)
  /\ wpc \in {"claimIndex", "claimThere", "claimPut", "claimFence"} => ~Has("failed", wat)
  /\ WorkerAt \in {"claimMark", "run"} => ~Broken(wat)
  /\ wpc \in {"recoverPut", "recoverUnclaim"} => rec.terminal[wat] # "completed"

(* There is a claim to make a completed entry of, and what follows a       *)
(* verdict is what the run ended in.                                       *)
VerdictInv ==
  /\ WorkerAt \in CompletePoint \cup {"claimFence", "claimMark", "run", "escalate", "notify"}
       => Has("claim", wat)
  /\ wpc = "finish" /\ after = "notify" => Has("claim", wat)
  /\ wpc = "fail" => Has("failed", wat) \/ Has("claim", wat)
  /\ WorkerAt \in BetweenPoint \cup RecoverPoint \cup ClaimPoint \cup {"run"}
       => after = "recover"
  /\ WorkerAt \in FailedPoint \cup {"escalate", "fail", "failPut"} => after # "notify"

ReviewInv ==
  /\ TypeOK /\ OneAtATime
  /\ RecordInv /\ CallerInv
  /\ RetentionInv /\ WorkerInv /\ VerdictInv

(***************************************************************************)
(* The contract of the reviews of one head, and how attempts stand to it.  *)
(***************************************************************************)

(* The worker runs an attempt from the start of its run until it records a *)
(* verdict, or until it is stopped short of one.                           *)
UndecidedPoint == {"complete", "escalate", "fail", "failPut"}
Running(a) ==
  wat = a /\ (WorkerAt = "run" \/ (WorkerAt \in UndecidedPoint /\ ~Broken(a)))

(* What the records, and the worker's point, say of each attempt.          *)
phase ==
  [a \in Attempt |->
     IF Running(a) THEN "running"
     ELSE IF Ended(a) THEN rec.terminal[a]
     ELSE IF Safe(a) THEN IF Has("failed", a) THEN "failing" ELSE "due"
     ELSE IF a < heads THEN "open" ELSE "absent"]

Contract == INSTANCE ReviewContract

(* The queue keeps to the contract: deliveries open an attempt behind a    *)
(* failed one only; what a publisher has queued is run, perhaps again and  *)
(* again, until mark_completed or mark_failed decides it, for good; and a  *)
(* failure is on record before it is carried through.                      *)
ImplementsContract == Contract!Spec

(* An attempt about to be recorded as completed has not failed.            *)
CompletesUnfailed == wpc = "complete" /\ Has("failed", wat) => Ended(wat)
=============================================================================
