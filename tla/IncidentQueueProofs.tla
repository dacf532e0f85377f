------------------------ MODULE IncidentQueueProofs ------------------------
(***************************************************************************)
(* Proofs about IncidentQueue, for every number of incidents, processes,   *)
(* organisations, kills, faults and resubmissions.                         *)
(***************************************************************************)
EXTENDS IncidentQueueProps, FiniteSetTheorems, TLAPS

-----------------------------------------------------------------------------
(* Every variable keeps its type, on any number of hosts.                  *)

(* Initially every variable has its type.                                  *)
LEMMA InitTypeOK == Init => TypeOK
  BY NullAssumption DEF Init, TypeOK, Point, WorkerPoint, CurPoint, RunPoint, AwaitPoint

(* No step changes the type of a variable.                                 *)
LEMMA StepTypeOK == TypeOK /\ [Next]_vars => TypeOK'
<1> SUFFICES ASSUME TypeOK, [Next]_vars PROVE TypeOK'
  OBVIOUS
<1> USE OrgAssumption, HostAssumption, NullAssumption, BoundAssumption
      DEF TypeOK, Point, WorkerPoint, CurPoint, RunPoint, AwaitPoint,
          store, local, history, budget, Goto, Quiet
<1>1. ASSUME NEW i \in Incident, enqueue(i) PROVE TypeOK'
  BY <1>1 DEF enqueue
<1>2. ASSUME NEW p \in Process, Start(p) PROVE TypeOK'
  BY <1>2 DEF Start
<1>3. ASSUME NEW p \in Process, Crash(p) PROVE TypeOK'
  BY <1>3 DEF Crash, Forget, Interrupt
<1>4. ASSUME NEW p \in Process, Cancel(p) PROVE TypeOK'
  BY <1>4 DEF Cancel, Forget, Interrupt
<1>5. ASSUME NEW p \in Process, release_background_worker_lock(p) PROVE TypeOK'
  BY <1>5 DEF release_background_worker_lock
<1>6. ASSUME NEW p \in Process, Poll(p) PROVE TypeOK'
  BY <1>6 DEF Poll, list_pending_org_ids
<1>7. ASSUME NEW p \in Process, NextOrg(p) PROVE TypeOK'
  BY <1>7 DEF NextOrg, Forget
<1>8. ASSUME NEW p \in Process, RecoverGet(p) PROVE TypeOK'
  BY <1>8 DEF RecoverGet
<1>9. ASSUME NEW p \in Process, RecoverPut(p) PROVE TypeOK'
  BY <1>9 DEF RecoverPut, Write
<1>10. ASSUME NEW p \in Process, RecoverDelete(p) PROVE TypeOK'
  BY <1>10 DEF RecoverDelete, Write
<1>11. ASSUME NEW p \in Process, ClaimList(p) PROVE TypeOK'
  BY <1>11 DEF ClaimList
<1>12. ASSUME NEW p \in Process, ClaimGet(p) PROVE TypeOK'
  BY <1>12 DEF ClaimGet
<1>13. ASSUME NEW p \in Process, ClaimCreate(p) PROVE TypeOK'
  BY <1>13 DEF ClaimCreate, Write
<1>14. ASSUME NEW p \in Process, ClaimDelete(p) PROVE TypeOK'
  BY <1>14 DEF ClaimDelete, Write
<1>15. ASSUME NEW p \in Process, ClaimUndo(p) PROVE TypeOK'
  BY <1>15 DEF ClaimUndo, Write
<1>16. ASSUME NEW p \in Process, ClaimNone(p) PROVE TypeOK'
  BY <1>16 DEF ClaimNone
<1>17. ASSUME NEW p \in Process, RunEnds(p) PROVE TypeOK'
  BY <1>17 DEF RunEnds
<1>18. ASSUME NEW p \in Process, Verdict(p) PROVE TypeOK'
  BY <1>18 DEF Verdict, Write
<1>19. ASSUME NEW p \in Process, DeleteProcessing(p) PROVE TypeOK'
  BY <1>19 DEF DeleteProcessing, Write
<1>20. ASSUME NEW p \in Process, Notified(p) PROVE TypeOK'
  BY <1>20 DEF Notified
<1>21. ASSUME NEW p \in Process, Raise(p) PROVE TypeOK'
  BY <1>21 DEF Raise, Write, Handler, Forget
<1>22. CASE UNCHANGED vars
  BY <1>22 DEF vars
<1> QED
  BY <1>1, <1>2, <1>3, <1>4, <1>5, <1>6, <1>7, <1>8, <1>9, <1>10, <1>11,
     <1>12, <1>13, <1>14, <1>15, <1>16, <1>17, <1>18, <1>19, <1>20, <1>21,
     <1>22 DEF Next, WorkerStep, Lifecycle

(* Every variable keeps its type, on any number of hosts.                  *)
THEOREM TypeCorrect == Spec => []TypeOK
  BY InitTypeOK, StepTypeOK, PTL DEF Spec

-----------------------------------------------------------------------------
(* The background lock: a worker holds it, and a host has one holder.      *)

(* Initially no process works.                                             *)
LEMMA InitLockInv == Init => LockInv
  BY DEF Init, LockInv, WorkerPoint, CurPoint, RunPoint, AwaitPoint

(* Only the holder of its host's lock works, and it is the only holder.    *)
LEMMA StepLockInv == TypeOK /\ LockInv /\ [Next]_vars => LockInv'
<1> SUFFICES ASSUME TypeOK, LockInv, [Next]_vars PROVE LockInv'
  OBVIOUS
<1> USE DEF TypeOK, LockInv, WorkerPoint, CurPoint, RunPoint, AwaitPoint,
            local, history, Goto, Quiet
<1>1. ASSUME NEW i \in Incident, enqueue(i) PROVE LockInv'
  BY <1>1 DEF enqueue
<1>2. ASSUME NEW p \in Process, Start(p) PROVE LockInv'
  BY <1>2 DEF Start, LockFree
<1>3. ASSUME NEW p \in Process, Crash(p) PROVE LockInv'
  BY <1>3 DEF Crash
<1>4. ASSUME NEW p \in Process, Cancel(p) PROVE LockInv'
  BY <1>4 DEF Cancel
<1>5. ASSUME NEW p \in Process, release_background_worker_lock(p) PROVE LockInv'
  BY <1>5 DEF release_background_worker_lock
<1>6. ASSUME NEW p \in Process, WorkerStep(p) PROVE LockInv'
  BY <1>6 DEF WorkerStep, Poll, NextOrg, RecoverGet, RecoverPut, RecoverDelete,
     ClaimList, ClaimGet, ClaimCreate, ClaimDelete, ClaimUndo, ClaimNone,
     RunEnds, Verdict, DeleteProcessing, Notified
<1>7. ASSUME NEW p \in Process, Raise(p) PROVE LockInv'
  BY <1>7 DEF Raise, Handler
<1>8. CASE UNCHANGED vars
  BY <1>8 DEF vars
<1> QED
  BY <1>1, <1>2, <1>3, <1>4, <1>5, <1>6, <1>7, <1>8 DEF Next, Lifecycle

(* On a single host every process but one is idle.                         *)
LEMMA OneWorker ==
  ASSUME SingleHost, LockInv,
         NEW p \in Process, pc[p] \in WorkerPoint,
         NEW q \in Process, pc[q] \in WorkerPoint
  PROVE  p = q
  BY DEF SingleHost, LockInv

-----------------------------------------------------------------------------
(* The queue's inductive invariant, on a single host.                      *)

(* A step of the only worker p: the others stay idle, so that what StepInv *)
(* and Running say is about p alone, before and after.                     *)
LEMMA OthersIdle ==
  ASSUME SingleHost, LockInv,
         NEW p \in Process, pc[p] \in WorkerPoint,
         \A q \in Process \ {p} : pc'[q] = pc[q]
  PROVE  /\ \A q \in Process \ {p} : pc[q] \notin WorkerPoint /\ pc'[q] \notin WorkerPoint
         /\ \A i : Running(i) <=> i \in processing /\ Runs(p, i)
         /\ \A i : Running(i)' <=> i \in processing' /\ Runs(p, i)'
<1>1. \A q \in Process \ {p} : pc[q] \notin WorkerPoint /\ pc'[q] \notin WorkerPoint
  BY OneWorker
<1>2. RunPoint \subseteq WorkerPoint
  BY DEF WorkerPoint, CurPoint
<1> QED
  BY <1>1, <1>2 DEF Running, Runs

(* A step of the worker preserves the invariant.                           *)
LEMMA WorkerPreserves ==
  ASSUME SingleHost, QueueInv, NEW p \in Process, WorkerStep(p)
  PROVE  StepInv' /\ Durable' /\ LicenceInv'
<1> USE DEF QueueInv
<1>1. /\ pc[p] \in WorkerPoint
      /\ \A q \in Process \ {p} : pc'[q] = pc[q]
  BY DEF WorkerStep, Poll, NextOrg, RecoverGet, RecoverPut, RecoverDelete,
     ClaimList, ClaimGet, ClaimCreate, ClaimDelete, ClaimUndo, ClaimNone,
     RunEnds, Verdict, DeleteProcessing, Notified, Goto, local, TypeOK,
     WorkerPoint, CurPoint, RunPoint, AwaitPoint
<1>2. /\ \A q \in Process \ {p} : pc[q] \notin WorkerPoint /\ pc'[q] \notin WorkerPoint
      /\ \A i : Running(i) <=> i \in processing /\ Runs(p, i)
      /\ \A i : Running(i)' <=> i \in processing' /\ Runs(p, i)'
  BY <1>1, OthersIdle
<1>3. StepInv' <=>
        /\ pc'[p] # "claimUndo"
        /\ pc'[p] \in {"claimCreate", "claimDelete", "recoverDelete"} => cur'[p] \in pending'
        /\ pc'[p] \in {"recoverPut", "recoverDelete", "claimDelete", "run", "completePut"}
             => cur'[p] \in processing'
        /\ pc'[p] \in {"completeDelete", "notify"} => cur'[p] \in completed'
        /\ pc'[p] \in {"failDelete", "notifyError"} => cur'[p] \in failed'
        /\ pc'[p] = "notify" => cur'[p] \notin processing'
        /\ pc'[p] = "failPut" => cur'[p] \in processing' \cup completed'
  BY <1>1, <1>2 DEF StepInv, WorkerPoint, CurPoint, RunPoint, AwaitPoint
<1> USE DEF TypeOK, StepInv, Durable, Stored, LicenceInv, Owed, Runs, RunPoint,
            CurPoint, Goto, Quiet, store, local
<1>4. CASE Poll(p)
  BY <1>2, <1>3, <1>4 DEF Poll
<1>5. CASE NextOrg(p)
  BY <1>2, <1>3, <1>5 DEF NextOrg, Forget
<1>6. CASE RecoverGet(p)
  BY <1>2, <1>3, <1>6 DEF RecoverGet
<1>7. CASE RecoverPut(p)
  BY <1>2, <1>3, <1>7 DEF RecoverPut, Write
<1>8. CASE RecoverDelete(p)
  BY <1>2, <1>3, <1>8 DEF RecoverDelete, Write
<1>9. CASE ClaimList(p)
  BY <1>2, <1>3, <1>9 DEF ClaimList
<1>10. CASE ClaimGet(p)
  BY <1>2, <1>3, <1>10 DEF ClaimGet
<1>11. CASE ClaimCreate(p)
  BY <1>2, <1>3, <1>11 DEF ClaimCreate, Write
<1>12. CASE ClaimDelete(p)
  BY <1>2, <1>3, <1>12 DEF ClaimDelete, Write
<1>13. CASE ClaimUndo(p)
  BY <1>13 DEF ClaimUndo
<1>14. CASE ClaimNone(p)
  BY <1>2, <1>3, <1>14 DEF ClaimNone
<1>15. CASE RunEnds(p)
  BY <1>2, <1>3, <1>15 DEF RunEnds
<1>16. CASE Verdict(p)
  BY <1>2, <1>3, <1>16 DEF Verdict, Write
<1>17. CASE DeleteProcessing(p)
  BY <1>2, <1>3, <1>17 DEF DeleteProcessing, Write
<1>18. CASE Notified(p)
  BY <1>2, <1>3, <1>18 DEF Notified
<1> QED
  BY <1>4, <1>5, <1>6, <1>7, <1>8, <1>9, <1>10, <1>11, <1>12, <1>13, <1>14,
     <1>15, <1>16, <1>17, <1>18 DEF WorkerStep

(* So does a call that raises.                                             *)
LEMMA RaisePreserves ==
  ASSUME SingleHost, QueueInv, NEW p \in Process, Raise(p)
  PROVE  StepInv' /\ Durable' /\ LicenceInv'
<1> USE DEF QueueInv
<1>1. /\ pc[p] \in WorkerPoint
      /\ \A q \in Process \ {p} : pc'[q] = pc[q]
      /\ pc' = [pc EXCEPT ![p] = Handler(pc[p])]
  BY DEF Raise, Goto, TypeOK
<1>2. /\ \A q \in Process \ {p} : pc[q] \notin WorkerPoint /\ pc'[q] \notin WorkerPoint
      /\ \A i : Running(i) <=> i \in processing /\ Runs(p, i)
      /\ \A i : Running(i)' <=> i \in processing' /\ Runs(p, i)'
  BY <1>1, OthersIdle
<1>3. pc'[p] \in {"failPut", "sleep"}
  BY <1>1 DEF Handler, TypeOK
<1>4. StepInv'
  <2>1. pc'[p] = "failPut" => cur'[p] \in processing' \cup completed'
    BY <1>1 DEF Raise, Handler, Write, StepInv, store, local, TypeOK
  <2> QED
    BY <2>1, <1>1, <1>2, <1>3 DEF StepInv, WorkerPoint, CurPoint, RunPoint, AwaitPoint
<1>5. Durable'
  BY DEF Raise, Write, Durable, Stored, StepInv, store
<1>6. LicenceInv'
  <2> USE DEF TypeOK, LicenceInv, Owed, Runs, RunPoint, CurPoint, store, local
  <2>1. CASE Handler(pc[p]) = "sleep" /\ UNCHANGED store
    BY <1>1, <1>2, <2>1 DEF Raise, Handler
  <2>2. CASE Handler(pc[p]) = "sleep" /\ Write(p)
    BY <1>1, <1>2, <2>2 DEF Raise, Handler, Write, StepInv
  <2>3. CASE Handler(pc[p]) = "failPut"
    BY <1>1, <1>2, <2>3 DEF Raise, Handler, Write, StepInv
  <2> QED
    BY <2>1, <2>2, <2>3 DEF Raise, Handler
<1> QED
  BY <1>4, <1>5, <1>6

(* Kills, shutdowns and restarts touch no record; what an interrupted run  *)
(* leaves behind is owed a run from then on.                               *)
LEMMA LifecyclePreserves ==
  ASSUME SingleHost, QueueInv, NEW p \in Process, Lifecycle(p)
  PROVE  StepInv' /\ Durable' /\ LicenceInv'
<1> USE DEF QueueInv
<1>1. /\ UNCHANGED <<store, accepted>>
      /\ \A q \in Process \ {p} : pc'[q] = pc[q] /\ cur'[q] = cur[q]
      /\ pc'[p] \in {"down", "serving", "sleep", "cancelled"}
  BY DEF Lifecycle, Start, Crash, Cancel, release_background_worker_lock,
     Goto, TypeOK, Forget, local, history
<1>2. StepInv'
  BY <1>1 DEF StepInv, store
<1>3. Durable'
  BY <1>1 DEF Durable, Stored, store
<1>4. LicenceInv'
  <2>1. ~ \E i : Runs(p, i)'
    BY <1>1 DEF Runs, RunPoint
  <2>2. \A i : Running(i)' <=> \E q \in Process \ {p} : i \in processing /\ Runs(q, i)
    BY <1>1, <2>1 DEF Running, Runs, store
  <2>3. CASE Start(p) \/ release_background_worker_lock(p)
    <3>1. ~ \E i : Runs(p, i)
      BY <2>3 DEF Start, release_background_worker_lock, Runs, RunPoint
    <3>2. \A i : Running(i)' <=> Running(i)
      BY <2>2, <3>1 DEF Running
    <3> QED
      BY <2>3, <3>2, <1>1 DEF Start, release_background_worker_lock, history,
         LicenceInv, Owed, store
  <2>4. CASE Crash(p) \/ Cancel(p)
    <3>1. licensed' = licensed \cup {i \in processing : Runs(p, i)}
      BY <2>4 DEF Crash, Cancel, Interrupt, Runs
    <3>2. \A i : Running(i) <=> Running(i)' \/ (i \in processing /\ Runs(p, i))
      BY <2>2 DEF Running
    <3>3. \A i, q : Runs(p, i) /\ q \in Process \ {p} => ~ Runs(q, i)
      BY OneWorker DEF Runs, WorkerPoint, CurPoint
    <3> QED
      BY <2>2, <3>1, <3>2, <3>3, <1>1 DEF LicenceInv, Owed, store
  <2> QED
    BY <2>3, <2>4 DEF Lifecycle
<1> QED
  BY <1>2, <1>3, <1>4

(* And so does a submission.                                               *)
LEMMA EnqueuePreserves ==
  ASSUME QueueInv, NEW i \in Incident, enqueue(i)
  PROVE  StepInv' /\ Durable' /\ LicenceInv'
<1> USE DEF QueueInv, enqueue, local
<1>1. StepInv'
  BY DEF StepInv
<1>2. Durable'
  BY DEF Durable, Stored
<1>3. LicenceInv'
  <2>1. \A j : Running(j)' <=> Running(j)
    BY DEF Running, Runs
  <2> QED
    BY <2>1 DEF LicenceInv, Owed
<1> QED
  BY <1>1, <1>2, <1>3

(* The invariant holds initially.                                          *)
LEMMA InitQueueInv == Init => QueueInv
<1>1. Init => StepInv
  BY DEF Init, StepInv
<1>2. Init => Durable /\ LicenceInv
  BY DEF Init, Durable, Stored, LicenceInv, Owed
<1> QED
  BY <1>1, <1>2, InitTypeOK, InitLockInv DEF QueueInv

(* No step of a single host's processes breaks the invariant.              *)
LEMMA StepQueueInv == SingleHost /\ QueueInv /\ [Next]_vars => QueueInv'
<1> SUFFICES ASSUME SingleHost, QueueInv, [Next]_vars PROVE QueueInv'
  OBVIOUS
<1>1. TypeOK' /\ LockInv'
  BY StepTypeOK, StepLockInv DEF QueueInv
<1>2. StepInv' /\ Durable' /\ LicenceInv'
  <2>1. CASE \E i \in Incident : enqueue(i)
    BY <2>1, EnqueuePreserves
  <2>2. CASE \E p \in Process : Lifecycle(p)
    BY <2>2, LifecyclePreserves
  <2>3. CASE \E p \in Process : WorkerStep(p)
    BY <2>3, WorkerPreserves
  <2>4. CASE \E p \in Process : Raise(p)
    BY <2>4, RaisePreserves
  <2>5. CASE UNCHANGED vars
    BY <2>5 DEF vars, store, local, history, QueueInv, StepInv, Durable, Stored,
       LicenceInv, Owed, Running, Runs
  <2> QED
    BY <2>1, <2>2, <2>3, <2>4, <2>5 DEF Next
<1> QED
  BY <1>1, <1>2 DEF QueueInv

(* Hence it holds always.                                                  *)
LEMMA QueueInvariant == ASSUME SingleHost PROVE Spec => []QueueInv
  BY InitQueueInv, StepQueueInv, PTL DEF Spec

(* On a single host an accepted incident always has a record.              *)
THEOREM DurableAlways == ASSUME SingleHost PROVE Spec => []Durable
  BY QueueInvariant, PTL DEF QueueInv

(* On a single host no incident is run by two workers at a time.           *)
THEOREM ClaimedByOneAlways == ASSUME SingleHost PROVE Spec => []ClaimedByOne
<1>1. QueueInv => ClaimedByOne
  BY OneWorker DEF QueueInv, ClaimedByOne, Runs, WorkerPoint, CurPoint
<1> QED
  BY <1>1, QueueInvariant, PTL

(* On a single host a run in progress can be recovered from its record.    *)
THEOREM RunIsRecoverableAlways == ASSUME SingleHost PROVE Spec => []RunIsRecoverable
<1>1. QueueInv => RunIsRecoverable
  BY DEF QueueInv, StepInv, RunIsRecoverable
<1> QED
  BY <1>1, QueueInvariant, PTL

-----------------------------------------------------------------------------
(* What failures can cost, on any number of hosts.                         *)

(* A worker about to delete the processing record has written its verdict. *)
VerdictInv ==
  \A p \in Process :
    /\ pc[p] = "completeDelete" => cur[p] \in completed
    /\ pc[p] = "failDelete" => cur[p] \in failed

(* No step takes a verdict back, and a worker writes it before it deletes. *)
LEMMA StepVerdictInv == TypeOK /\ VerdictInv /\ [Next]_vars => VerdictInv'
<1> SUFFICES ASSUME TypeOK, VerdictInv, [Next]_vars PROVE VerdictInv'
  OBVIOUS
<1> USE DEF TypeOK, VerdictInv, Goto, store, local, history
<1>1. ASSUME NEW i \in Incident, enqueue(i) PROVE VerdictInv'
  BY <1>1 DEF enqueue
<1>2. ASSUME NEW p \in Process, Lifecycle(p) PROVE VerdictInv'
  BY <1>2 DEF Lifecycle, Start, Crash, Cancel, release_background_worker_lock, Forget
<1>3. ASSUME NEW p \in Process, Poll(p) \/ NextOrg(p) PROVE VerdictInv'
  BY <1>3 DEF Poll, NextOrg, Forget
<1>4. ASSUME NEW p \in Process,
             RecoverGet(p) \/ RecoverPut(p) \/ RecoverDelete(p)
      PROVE VerdictInv'
  BY <1>4 DEF RecoverGet, RecoverPut, RecoverDelete, Write
<1>5. ASSUME NEW p \in Process,
             \/ ClaimList(p) \/ ClaimGet(p) \/ ClaimCreate(p) \/ ClaimDelete(p)
             \/ ClaimUndo(p) \/ ClaimNone(p)
      PROVE VerdictInv'
  BY <1>5 DEF ClaimList, ClaimGet, ClaimCreate, ClaimDelete, ClaimUndo, ClaimNone, Write
<1>6. ASSUME NEW p \in Process,
             RunEnds(p) \/ Verdict(p) \/ DeleteProcessing(p) \/ Notified(p)
      PROVE VerdictInv'
  BY <1>6 DEF RunEnds, Verdict, DeleteProcessing, Notified, Write
<1>7. ASSUME NEW p \in Process, Raise(p) PROVE VerdictInv'
  BY <1>7 DEF Raise, Handler, Write, Forget
<1>8. CASE UNCHANGED vars
  BY <1>8 DEF vars
<1> QED
  BY <1>1, <1>2, <1>3, <1>4, <1>5, <1>6, <1>7, <1>8 DEF Next, WorkerStep

(* Accepted, and neither waiting nor decided.                              *)
Undecided == accepted \ (pending \cup completed \cup failed)

(* An incident is stranded when it is undecided and no worker runs it.     *)
LEMMA StrandedIs ==
  ASSUME TypeOK
  PROVE  \A i : i \in Stranded <=> i \in Undecided /\ ~ \E p \in Process : Runs(p, i)
  BY DEF TypeOK, Stranded, Undecided

(* A submission strands nothing.                                           *)
LEMMA EnqueueStrands ==
  ASSUME TypeOK, TypeOK', NEW i \in Incident, enqueue(i)
  PROVE  Stranded' \subseteq Stranded
<1>1. Undecided' \subseteq Undecided
  BY DEF enqueue, Undecided
<1>2. \A q, j : Runs(q, j)' <=> Runs(q, j)
  BY DEF enqueue, Runs, local
<1>3. \A j : j \in Stranded' <=> j \in Undecided' /\ ~ \E p \in Process : Runs(p, j)'
  BY StrandedIs DEF TypeOK, Stranded, Undecided
<1> QED
  BY <1>1, <1>2, <1>3, StrandedIs

(* Nor does the worker: an entry leaves the pending prefix for a run, and  *)
(* a run ends with a verdict, whatever another host did meanwhile.         *)
LEMMA WorkerStrands ==
  ASSUME TypeOK, TypeOK', VerdictInv, NEW p \in Process, WorkerStep(p)
  PROVE  Stranded' \subseteq Stranded
<1>1. \A q \in Process \ {p} : pc'[q] = pc[q] /\ cur'[q] = cur[q]
  BY DEF WorkerStep, Poll, NextOrg, RecoverGet, RecoverPut, RecoverDelete,
     ClaimList, ClaimGet, ClaimCreate, ClaimDelete, ClaimUndo, ClaimNone,
     RunEnds, Verdict, DeleteProcessing, Notified, Goto, local, Forget, TypeOK
<1>2. \A q \in Process \ {p} : \A i : Runs(q, i)' <=> Runs(q, i)
  BY <1>1 DEF Runs
<1>3. \A i : i \in Stranded' <=> i \in Undecided' /\ ~ \E q \in Process : Runs(q, i)'
  BY DEF TypeOK, Stranded, Undecided
<1>8. ASSUME Undecided' \subseteq Undecided, \A i : Runs(p, i)' <=> Runs(p, i)
      PROVE  Stranded' \subseteq Stranded
  BY <1>2, <1>3, <1>8, StrandedIs
<1> USE DEF TypeOK, Undecided, Runs, RunPoint, Goto, Quiet, store, local
<1>4. CASE Poll(p) \/ NextOrg(p) \/ RecoverGet(p) \/ ClaimList(p)
           \/ ClaimGet(p) \/ ClaimNone(p) \/ RunEnds(p) \/ Notified(p)
  <2>1. Undecided' = Undecided
    BY <1>4 DEF Poll, NextOrg, RecoverGet, ClaimList, ClaimGet, ClaimNone,
       RunEnds, Notified
  <2>2. \A i : Runs(p, i)' <=> Runs(p, i)
    BY <1>4 DEF Poll, NextOrg, RecoverGet, ClaimList, ClaimGet, ClaimNone,
       RunEnds, Notified, Forget
  <2> QED
    BY <1>8, <2>1, <2>2
<1>5. CASE RecoverPut(p) \/ RecoverDelete(p) \/ ClaimCreate(p) \/ ClaimUndo(p)
           \/ Verdict(p)
  <2>1. Undecided' \subseteq Undecided
    BY <1>5 DEF RecoverPut, RecoverDelete, ClaimCreate, ClaimUndo, Verdict, Write
  <2>2. \A i : Runs(p, i)' <=> Runs(p, i)
    BY <1>5 DEF RecoverPut, RecoverDelete, ClaimCreate, ClaimUndo, Verdict
  <2> QED
    BY <1>8, <2>1, <2>2
<1>6. CASE ClaimDelete(p)
  <2>1. \A i \in Undecided' : i \in Undecided \/ Runs(p, i)'
    BY <1>6 DEF ClaimDelete, Write
  <2>2. \A i : ~ Runs(p, i)
    BY <1>6 DEF ClaimDelete
  <2> SUFFICES ASSUME NEW i, i \in Stranded' PROVE i \in Stranded
    OBVIOUS
  <2>3. i \in Undecided' /\ \A q \in Process : ~ Runs(q, i)'
    BY <1>3
  <2>4. i \in Undecided
    BY <2>1, <2>3
  <2>5. \A q \in Process : ~ Runs(q, i)
    BY <1>2, <2>2, <2>3
  <2> QED
    BY <2>4, <2>5, StrandedIs
<1>7. CASE DeleteProcessing(p)
  <2>1. Undecided' = Undecided
    BY <1>7 DEF DeleteProcessing, Write
  <2>2. \A i : Runs(p, i) => i \notin Undecided
    BY <1>7 DEF DeleteProcessing, VerdictInv
  <2> QED
    BY <1>2, <1>3, <2>1, <2>2, StrandedIs
<1> QED
  BY <1>4, <1>5, <1>6, <1>7 DEF WorkerStep

(* A kill, a shutdown and a call that raises strand at most the incident   *)
(* that the process was at.                                                *)
LEMMA FailureStrands ==
  ASSUME TypeOK, TypeOK', NEW p \in Process, Lifecycle(p) \/ Raise(p)
  PROVE  Stranded' \subseteq Stranded \cup {cur[p]}
<1>1. \A q \in Process \ {p} : pc'[q] = pc[q] /\ cur'[q] = cur[q]
  BY DEF Lifecycle, Start, Crash, Cancel, release_background_worker_lock, Raise,
     Goto, local, Forget, TypeOK
<1>2. \A q \in Process \ {p} : \A i : Runs(q, i)' <=> Runs(q, i)
  BY <1>1 DEF Runs
<1>3. \A i : i \in Stranded' <=> i \in Undecided' /\ ~ \E q \in Process : Runs(q, i)'
  BY DEF TypeOK, Stranded, Undecided
<1>4. Undecided' \subseteq Undecided \cup {cur[p]}
  BY DEF Lifecycle, Start, Crash, Cancel, release_background_worker_lock, Raise,
     Write, Undecided, store, history
<1>5. \A i : Runs(p, i) => i = cur[p]
  BY DEF Runs
<1> QED
  BY <1>2, <1>3, <1>4, <1>5, StrandedIs

(* A start and a release of the lock strand nothing.                       *)
LEMMA StartStrands ==
  ASSUME TypeOK, TypeOK', NEW p \in Process,
         Start(p) \/ release_background_worker_lock(p)
  PROVE  Stranded' \subseteq Stranded
<1>1. \A q \in Process : \A i : Runs(q, i)' <=> Runs(q, i)
  BY DEF Start, release_background_worker_lock, Goto, local, Runs, RunPoint, TypeOK
<1>2. \A i : i \in Stranded' <=> i \in Undecided' /\ ~ \E q \in Process : Runs(q, i)'
  BY DEF TypeOK, Stranded, Undecided
<1>3. Undecided' = Undecided
  BY DEF Start, release_background_worker_lock, Undecided, store, history
<1> QED
  BY <1>1, <1>2, <1>3, StrandedIs

(* Counting, stated for numbers so that it need not be found again among   *)
(* the variables: less than a bound that grows is less than the bound.     *)
LEMMA Within ==
  ASSUME NEW a \in Nat, NEW b \in Nat, NEW m \in Nat, NEW n \in Nat,
         \/ b <= a /\ m <= n
         \/ b <= a + 1 /\ n = m + 1,
         a <= m
  PROVE  b <= n
  OBVIOUS

(* A sum of naturals is one.                                               *)
LEMMA SumInNat == \A a, b \in Nat : a + b \in Nat
  OBVIOUS

(* The bound is kept by a step that strands nothing, ...                   *)
LEMMA NothingStranded ==
  ASSUME TypeOK, TypeOK', StrandedOnlyByFailures, Stranded' \subseteq Stranded,
         restarts + faults <= restarts' + faults'
  PROVE  StrandedOnlyByFailures'
<1>1. IsFiniteSet(Stranded') /\ Cardinality(Stranded') <= Cardinality(Stranded)
  BY FS_Subset DEF StrandedOnlyByFailures
<1>2. Cardinality(Stranded') \in Nat /\ Cardinality(Stranded) \in Nat
  BY <1>1, FS_CardinalityType DEF StrandedOnlyByFailures
<1>3. restarts + faults \in Nat
  BY DEF TypeOK
<1>4. restarts' + faults' \in Nat
  <2>1. restarts' \in Nat /\ faults' \in Nat
    BY DEF TypeOK
  <2> QED
    BY <2>1, SumInNat, Zenon
<1>5. Cardinality(Stranded') <= restarts' + faults'
  BY <1>1, <1>2, <1>3, <1>4, Within DEF StrandedOnlyByFailures
<1> QED
  BY <1>1, <1>5 DEF StrandedOnlyByFailures

(* ... and by one that strands one incident and is counted.                *)
LEMMA OneStranded ==
  ASSUME TypeOK, TypeOK', StrandedOnlyByFailures, NEW i,
         Stranded' \subseteq Stranded \cup {i},
         restarts' + faults' = restarts + faults + 1
  PROVE  StrandedOnlyByFailures'
<1> DEFINE S == Stranded \cup {i}
<1>0. IsFiniteSet(Stranded)
  BY DEF StrandedOnlyByFailures
<1>1. IsFiniteSet(S) /\ Cardinality(S) <= Cardinality(Stranded) + 1
  <2>1. Cardinality(Stranded) \in Nat
    BY <1>0, FS_CardinalityType
  <2>2. /\ IsFiniteSet(S)
        /\ Cardinality(S) = IF i \in Stranded THEN Cardinality(Stranded)
                            ELSE Cardinality(Stranded) + 1
    BY <1>0, FS_AddElement
  <2> QED
    BY <2>1, <2>2
<1>2. IsFiniteSet(Stranded') /\ Cardinality(Stranded') <= Cardinality(S)
  BY <1>1, FS_Subset
<1>3. Cardinality(Stranded') \in Nat /\ Cardinality(Stranded) \in Nat /\ Cardinality(S) \in Nat
  BY <1>0, <1>1, <1>2, FS_CardinalityType
<1>4. restarts + faults \in Nat
  BY DEF TypeOK
<1>5. restarts' + faults' \in Nat
  <2>1. restarts' \in Nat /\ faults' \in Nat
    BY DEF TypeOK
  <2> QED
    BY <2>1, SumInNat, Zenon
<1>6. Cardinality(Stranded') <= Cardinality(Stranded) + 1
  BY <1>1, <1>2, <1>3
<1>7. Cardinality(Stranded') <= restarts' + faults'
  BY <1>3, <1>4, <1>5, <1>6, Within DEF StrandedOnlyByFailures
<1> QED
  BY <1>2, <1>7 DEF StrandedOnlyByFailures

(* Initially nothing is accepted.                                          *)
LEMMA InitStranded == Init => VerdictInv /\ StrandedOnlyByFailures
<1> SUFFICES ASSUME Init PROVE VerdictInv /\ StrandedOnlyByFailures
  OBVIOUS
<1>1. Stranded = {}
  BY DEF Init, Stranded
<1> QED
  BY <1>1, FS_EmptySet DEF Init, VerdictInv, StrandedOnlyByFailures

(* No step strands more than it counts.                                    *)
LEMMA StepStranded ==
  TypeOK /\ VerdictInv /\ StrandedOnlyByFailures /\ [Next]_vars
    => StrandedOnlyByFailures'
<1> SUFFICES ASSUME TypeOK, VerdictInv, StrandedOnlyByFailures, [Next]_vars
             PROVE  StrandedOnlyByFailures'
  OBVIOUS
<1>1. TypeOK'
  BY StepTypeOK
<1>2. CASE \E i \in Incident : enqueue(i)
  <2>1. Stranded' \subseteq Stranded
    BY <1>1, <1>2, EnqueueStrands
  <2>2. restarts' = restarts /\ faults' \in {faults, faults + 1}
    BY <1>2 DEF enqueue
  <2>3. restarts \in Nat /\ faults \in Nat
    BY DEF TypeOK
  <2>4. restarts + faults <= restarts' + faults'
    <3>1. faults' = faults \/ faults' = faults + 1
      BY <2>2
    <3>2. restarts' + faults' = restarts + faults'
      BY <2>2
    <3>3. restarts + faults <= restarts + faults'
      BY <2>3, <3>1
    <3> QED
      BY <3>2, <3>3
  <2> QED
    BY <1>1, <2>1, <2>4, NothingStranded
<1>3. CASE \E p \in Process : WorkerStep(p)
  <2>1. Stranded' \subseteq Stranded
    BY <1>1, <1>3, WorkerStrands
  <2>2. UNCHANGED budget
    BY <1>3 DEF WorkerStep, Poll, NextOrg, RecoverGet, RecoverPut, RecoverDelete,
       ClaimList, ClaimGet, ClaimCreate, ClaimDelete, ClaimUndo, ClaimNone,
       RunEnds, Verdict, DeleteProcessing, Notified, Quiet
  <2> QED
    BY <1>1, <2>1, <2>2, NothingStranded DEF budget, TypeOK
<1>4. CASE \E p \in Process : Start(p) \/ release_background_worker_lock(p)
  <2>1. Stranded' \subseteq Stranded
    BY <1>1, <1>4, StartStrands
  <2>2. UNCHANGED budget
    BY <1>4 DEF Start, release_background_worker_lock
  <2> QED
    BY <1>1, <2>1, <2>2, NothingStranded DEF budget, TypeOK
<1>5. CASE \E p \in Process : Crash(p) \/ Cancel(p) \/ Raise(p)
  <2>1. PICK p \in Process : Crash(p) \/ Cancel(p) \/ Raise(p)
    BY <1>5
  <2>2. Stranded' \subseteq Stranded \cup {cur[p]}
    BY <1>1, <2>1, FailureStrands DEF Lifecycle
  <2>3. restarts' + faults' = restarts + faults + 1
    BY <2>1 DEF Crash, Cancel, Raise, TypeOK
  <2> QED
    BY <1>1, <2>2, <2>3, OneStranded
<1>6. CASE UNCHANGED vars
  <2>1. Stranded' \subseteq Stranded /\ restarts + faults <= restarts' + faults'
    BY <1>6 DEF vars, store, local, history, budget, Stranded, Runs, TypeOK
  <2> QED
    BY <1>1, <2>1, NothingStranded
<1> QED
  BY <1>2, <1>3, <1>4, <1>5, <1>6 DEF Next, Lifecycle

(* On any number of hosts, a kill, a shutdown or a failed call strands at  *)
(* most one accepted incident, and nothing else strands any.               *)
THEOREM StrandedOnlyByFailuresAlways == Spec => []StrandedOnlyByFailures
  BY InitTypeOK, StepTypeOK, InitStranded, StepVerdictInv, StepStranded, PTL DEF Spec

(* So while nothing is killed and no call fails, every accepted incident   *)
(* has a record or a worker, on any number of hosts.                       *)
THEOREM AccountedWithoutFailures ==
  Spec => [](restarts = 0 /\ faults = 0 => Accounted)
<1>1. StrandedOnlyByFailures /\ restarts = 0 /\ faults = 0 => Accounted
  <2> SUFFICES ASSUME StrandedOnlyByFailures, restarts = 0, faults = 0 PROVE Accounted
    OBVIOUS
  <2>1. Cardinality(Stranded) = 0
    BY FS_CardinalityType DEF StrandedOnlyByFailures
  <2>2. Stranded = {}
    BY <2>1, FS_EmptySet DEF StrandedOnlyByFailures
  <2> QED
    BY <2>2 DEF Stranded, Accounted, Stored
<1> QED
  BY <1>1, StrandedOnlyByFailuresAlways, PTL

-----------------------------------------------------------------------------
(* The queue implements its contract.                                      *)

(* Initially the contract's state is initial.                              *)
LEMMA InitContract == Init => Contract!Init
  BY DEF Init, Contract!Init, phase, Running

(* The phase of an incident, before and after a step.                      *)
LEMMA PhaseIs ==
  ASSUME NEW i \in Incident
  PROVE  phase[i] = IF Running(i) THEN "running"
           ELSE IF i \in pending \cup processing THEN "queued"
           ELSE IF i \in completed \cup failed THEN "done" ELSE "absent"
  BY DEF phase, Running

(* The phase after a step.                                                 *)
LEMMA PhaseIsNext ==
  ASSUME NEW i \in Incident
  PROVE  phase'[i] = IF Running(i)' THEN "running"
           ELSE IF i \in (pending \cup processing)' THEN "queued"
           ELSE IF i \in (completed \cup failed)' THEN "done" ELSE "absent"
  BY DEF phase, Running

(* Phases are of incidents.                                                *)
LEMMA PhaseDom == phase = [j \in Incident |-> phase[j]] /\ phase' = [j \in Incident |-> phase'[j]]
  BY DEF phase, Running
(* Nothing about the records or the run of an incident changes its phase,  *)
(* unless it says so.                                                      *)
Same(i) ==
  /\ Running(i)' <=> Running(i)
  /\ i \in (pending \cup processing)' <=> i \in pending \cup processing
  /\ Running(i) \/ i \in pending \cup processing
     \/ (i \in (completed \cup failed)' <=> i \in completed \cup failed)

(* A step that changes nothing of any incident is a stutter.               *)
LEMMA SamePhase ==
  ASSUME \A i \in Incident : Same(i), UNCHANGED licensed
  PROVE  UNCHANGED Contract!vars
<1>1. \A i \in Incident : phase'[i] = phase[i]
  BY PhaseIs, PhaseIsNext DEF Same
<1> QED
  BY <1>1, PhaseDom DEF Contract!vars

(* A step that changes one incident changes one phase.                     *)
LEMMA OnePhase ==
  ASSUME NEW i \in Incident, \A j \in Incident \ {i} : Same(j)
  PROVE  Contract!Become(i, phase'[i])
<1>1. \A j \in Incident \ {i} : phase'[j] = phase[j]
  BY PhaseIs, PhaseIsNext DEF Same
<1> QED
  BY <1>1, PhaseDom DEF Contract!Become

(* A submission is one of the contract, or a stutter.                      *)
LEMMA SubmitMaps ==
  ASSUME QueueInv, NEW i \in Incident, enqueue(i)
  PROVE  Contract!Submit(i)
<1>1. \A j \in Incident : Running(j)' <=> Running(j)
  BY DEF enqueue, local, Running, Runs
<1>2. Contract!Become(i, phase'[i])
  BY <1>1, OnePhase DEF enqueue, Same
<1>3. CASE Running(i)
  <2>1. phase[i] = "running" /\ phase'[i] = "running"
    BY <1>1, <1>3, PhaseIs, PhaseIsNext
  <2>2. UNCHANGED phase
    BY <1>2, <2>1, PhaseDom DEF Contract!Become
  <2> QED
    BY <2>1, <2>2 DEF enqueue, Contract!Submit
<1>4. CASE ~ Running(i)
  <2>1. phase[i] # "running" /\ phase'[i] = "queued"
    BY <1>1, <1>4, PhaseIs, PhaseIsNext DEF enqueue
  <2> QED
    BY <2>1, <1>2 DEF enqueue, Contract!Submit, Contract!Become
<1> QED
  BY <1>3, <1>4

(* A run that ends with a verdict and without its record.                  *)
LEMMA FinishMaps ==
  ASSUME QueueInv, NEW i \in Incident, Running(i), ~ Running(i)',
         \A j \in Incident \ {i} : Running(j)' <=> Running(j),
         UNCHANGED <<pending, completed, failed, licensed>>,
         processing' = processing \ {i},
         i \in completed \cup failed
  PROVE  Contract!Finish(i)
<1>1. Contract!Become(i, phase'[i])
  BY OnePhase DEF Same
<1>2. phase'[i] = IF i \in licensed THEN "queued" ELSE "done"
  BY PhaseIsNext DEF QueueInv, LicenceInv, Owed
<1>3. phase[i] = "running"
  BY PhaseIs
<1> QED
  BY <1>1, <1>2, <1>3 DEF Contract!Finish, Contract!Become

(* A run that is cut short and leaves its record.                          *)
LEMMA CutShortMaps ==
  ASSUME NEW i \in Incident, Running(i), ~ Running(i)',
         \A j \in Incident \ {i} : Same(j),
         i \in processing', licensed' = licensed \cup {i}
  PROVE  Contract!CutShort(i)
<1>1. Contract!Become(i, phase'[i])
  BY OnePhase
<1>2. phase'[i] = "queued" /\ phase[i] = "running"
  BY PhaseIs, PhaseIsNext
<1> QED
  BY <1>1, <1>2 DEF Contract!CutShort, Contract!Become

(* The steps of the worker: a claim that goes through begins a run, the    *)
(* deletion of a record still there finishes it, all others stutter.       *)
LEMMA WorkerMaps ==
  ASSUME SingleHost, QueueInv, NEW p \in Process, WorkerStep(p)
  PROVE  [Contract!Next]_(Contract!vars)
<1> USE DEF QueueInv
<1>1. /\ pc[p] \in WorkerPoint
      /\ \A q \in Process \ {p} : pc'[q] = pc[q]
  BY DEF WorkerStep, Poll, NextOrg, RecoverGet, RecoverPut, RecoverDelete,
     ClaimList, ClaimGet, ClaimCreate, ClaimDelete, ClaimUndo, ClaimNone,
     RunEnds, Verdict, DeleteProcessing, Notified, Goto, local, TypeOK,
     WorkerPoint, CurPoint, RunPoint, AwaitPoint
<1>2. /\ \A i : Running(i) <=> i \in processing /\ Runs(p, i)
      /\ \A i : Running(i)' <=> i \in processing' /\ Runs(p, i)'
  BY <1>1, OthersIdle
<1> USE DEF TypeOK, StepInv, Runs, RunPoint, CurPoint, Goto, store, local
<1>3. CASE Poll(p) \/ NextOrg(p) \/ RecoverGet(p) \/ ClaimList(p)
           \/ ClaimGet(p) \/ ClaimNone(p) \/ RunEnds(p) \/ Notified(p)
  <2>1. \A i \in Incident : Same(i)
    BY <1>2, <1>3 DEF Poll, NextOrg, RecoverGet, ClaimList, ClaimGet, ClaimNone,
       RunEnds, Notified, Forget, Same
  <2>2. UNCHANGED licensed
    BY <1>3 DEF Poll, NextOrg, RecoverGet, ClaimList, ClaimGet, ClaimNone,
       RunEnds, Notified
  <2> QED
    BY <2>1, <2>2, SamePhase
<1>4. CASE RecoverPut(p) \/ RecoverDelete(p) \/ ClaimCreate(p) \/ Verdict(p)
  <2>1. \A i \in Incident : Same(i)
    BY <1>2, <1>4 DEF RecoverPut, RecoverDelete, ClaimCreate, Verdict, Write, Same
  <2>2. UNCHANGED licensed
    BY <1>4 DEF RecoverPut, RecoverDelete, ClaimCreate, Verdict
  <2> QED
    BY <2>1, <2>2, SamePhase
<1>5. CASE ClaimDelete(p)
  <2>0. PICK i \in Incident : i = cur[p]
    BY <1>5 DEF ClaimDelete
  <2>1. /\ i \in pending /\ i \in licensed /\ ~ Running(i)
        /\ Running(i)'
    BY <1>2, <1>5, <2>0 DEF ClaimDelete, Write, LicenceInv, Owed
  <2>2. \A j \in Incident \ {i} : Same(j)
    BY <1>2, <1>5, <2>0 DEF ClaimDelete, Write, Same
  <2>3. Contract!Become(i, phase'[i])
    BY <2>2, OnePhase
  <2>4. phase[i] = "queued" /\ phase'[i] = "running"
    BY <2>1, PhaseIs, PhaseIsNext
  <2>5. Contract!Begin(i)
    BY <1>5, <2>0, <2>1, <2>3, <2>4 DEF ClaimDelete, Contract!Begin, Contract!Become
  <2> QED
    BY <2>5 DEF Contract!Next
<1>6. CASE DeleteProcessing(p)
  <2>1. CASE cur[p] \in processing
    <3>0. PICK i \in Incident : i = cur[p]
      BY <1>6 DEF DeleteProcessing
    <3>1. /\ Running(i) /\ ~ Running(i)'
          /\ \A j \in Incident \ {i} : Running(j)' <=> Running(j)
          /\ UNCHANGED <<pending, completed, failed, licensed>>
          /\ processing' = processing \ {i}
          /\ i \in completed \cup failed
      BY <1>2, <1>6, <2>1, <3>0 DEF DeleteProcessing, Write
    <3>2. Contract!Finish(i)
      BY <3>1, FinishMaps
    <3> QED
      BY <3>2 DEF Contract!Next
  <2>2. CASE cur[p] \notin processing
    <3>1. (\A i \in Incident : Same(i)) /\ UNCHANGED licensed
      BY <1>2, <1>6, <2>2 DEF DeleteProcessing, Write, Same
    <3> QED
      BY <3>1, SamePhase
  <2> QED
    BY <2>1, <2>2
<1> QED
  BY <1>3, <1>4, <1>5, <1>6 DEF WorkerStep, ClaimUndo

(* A call that raises cuts the run short if its record is still there,     *)
(* finishes it if the call took effect and deleted the record.             *)
LEMMA RaiseMaps ==
  ASSUME SingleHost, QueueInv, NEW p \in Process, Raise(p)
  PROVE  [Contract!Next]_(Contract!vars)
<1> USE DEF QueueInv
<1>1. /\ pc[p] \in WorkerPoint
      /\ \A q \in Process \ {p} : pc'[q] = pc[q]
      /\ pc'[p] = Handler(pc[p])
  BY DEF Raise, Goto, TypeOK
<1>2. /\ \A i : Running(i) <=> i \in processing /\ Runs(p, i)
      /\ \A i : Running(i)' <=> i \in processing' /\ Runs(p, i)'
  BY <1>1, OthersIdle
<1> USE DEF TypeOK, StepInv, Runs, RunPoint, CurPoint, store, local
<1>3. CASE pc[p] \notin RunPoint
  <2>1. \A i \in Incident : Same(i)
    BY <1>1, <1>2, <1>3 DEF Raise, Handler, Write, Same
  <2>2. UNCHANGED licensed
    BY <1>3 DEF Raise
  <2> QED
    BY <2>1, <2>2, SamePhase
<1>4. CASE pc[p] = "completePut" \/ (pc[p] = "completeDelete" /\ UNCHANGED store)
  <2>1. \A i \in Incident : Same(i)
    BY <1>1, <1>2, <1>4 DEF Raise, Handler, Write, Same
  <2>2. UNCHANGED licensed
    BY <1>4 DEF Raise, Handler
  <2> QED
    BY <2>1, <2>2, SamePhase
<1>5. CASE pc[p] \in {"completeDelete", "failDelete"} /\ Write(p)
  <2>0. PICK i \in Incident : i = cur[p]
    BY <1>5
  <2>1. /\ \A j \in Incident \ {i} : Running(j)' <=> Running(j)
        /\ UNCHANGED <<pending, completed, failed, licensed>>
        /\ processing' = processing \ {i}
        /\ i \in completed \cup failed
    BY <1>1, <1>2, <1>5, <2>0 DEF Raise, Handler, Write
  <2>2. CASE i \in processing
    <3>1. Running(i) /\ ~ Running(i)'
      BY <1>2, <1>5, <2>0, <2>1, <2>2
    <3>2. Contract!Finish(i)
      BY <2>1, <3>1, FinishMaps
    <3> QED
      BY <3>2 DEF Contract!Next
  <2>3. CASE i \notin processing
    <3>1. (\A j \in Incident : Same(j)) /\ UNCHANGED licensed
      BY <1>2, <2>0, <2>1, <2>3 DEF Same
    <3> QED
      BY <3>1, SamePhase
  <2> QED
    BY <2>2, <2>3
<1>6. CASE \/ pc[p] \in {"run", "failPut"}
           \/ pc[p] = "failDelete" /\ UNCHANGED store
  <2>0. PICK i \in Incident : i = cur[p]
    BY <1>6
  <2>1. /\ pc'[p] = "sleep"
        /\ UNCHANGED <<pending, processing, completed>>
        /\ licensed' = IF i \in processing THEN licensed \cup {i} ELSE licensed
    BY <1>1, <1>6, <2>0 DEF Raise, Handler, Write
  <2>2. \A j \in Incident \ {i} : Same(j)
    BY <1>1, <1>2, <1>6, <2>0, <2>1 DEF Raise, Write, Same
  <2>3. CASE i \in processing
    <3>1. Running(i) /\ ~ Running(i)' /\ i \in processing'
      BY <1>2, <1>6, <2>0, <2>1, <2>3
    <3>2. Contract!CutShort(i)
      BY <2>1, <2>2, <2>3, <3>1, CutShortMaps
    <3> QED
      BY <3>2 DEF Contract!Next
  <2>4. CASE i \notin processing
    <3>1. Same(i)
      BY <1>1, <1>2, <1>6, <2>0, <2>1, <2>4 DEF Raise, Write, Same
    <3> QED
      BY <2>1, <2>2, <2>4, <3>1, SamePhase
  <2> QED
    BY <2>3, <2>4
<1>7. UNCHANGED store \/ Write(p)
  BY DEF Raise
<1> QED
  BY <1>3, <1>4, <1>5, <1>6, <1>7

(* A kill or a shutdown cuts the run short that it hits.                   *)
LEMMA LifecycleMaps ==
  ASSUME SingleHost, QueueInv, NEW p \in Process, Lifecycle(p)
  PROVE  [Contract!Next]_(Contract!vars)
<1> USE DEF QueueInv
<1>1. /\ UNCHANGED store
      /\ \A q \in Process \ {p} : pc'[q] = pc[q] /\ cur'[q] = cur[q]
      /\ pc'[p] \in {"down", "serving", "sleep", "cancelled"}
  BY DEF Lifecycle, Start, Crash, Cancel, release_background_worker_lock,
     Goto, TypeOK, Forget, local
<1>2. \A i : Running(i)' <=> \E q \in Process \ {p} : i \in processing /\ Runs(q, i)
  BY <1>1 DEF Running, Runs, RunPoint, store
<1>3. CASE pc[p] \in RunPoint /\ cur[p] \in processing
  <2>0. PICK i \in Incident : i = cur[p]
    BY <1>3 DEF TypeOK, CurPoint
  <2>1. licensed' = licensed \cup {i}
    BY <1>3, <2>0 DEF Lifecycle, Start, Crash, Cancel, Interrupt,
       release_background_worker_lock, RunPoint
  <2>2. \A q \in Process \ {p} : \A j : ~ Runs(q, j)
    BY <1>3, OneWorker DEF Runs, WorkerPoint, CurPoint
  <2>3. \A j : Running(j) <=> j \in processing /\ Runs(p, j)
    BY <2>2 DEF Running
  <2>4. Running(i) /\ ~ Running(i)' /\ i \in processing'
    BY <1>1, <1>2, <1>3, <2>0, <2>2, <2>3 DEF Runs, store
  <2>5. \A j \in Incident \ {i} : Same(j)
    BY <1>1, <1>2, <2>0, <2>2, <2>3 DEF Same, Runs, store
  <2>6. Contract!CutShort(i)
    BY <2>1, <2>4, <2>5, CutShortMaps
  <2> QED
    BY <2>6 DEF Contract!Next
<1>4. CASE ~ (pc[p] \in RunPoint /\ cur[p] \in processing)
  <2>1. UNCHANGED licensed
    BY <1>4 DEF Lifecycle, Start, Crash, Cancel, Interrupt,
       release_background_worker_lock, history
  <2>2. \A i \in Incident : Same(i)
    BY <1>1, <1>2, <1>4 DEF Same, Running, Runs, store
  <2> QED
    BY <2>1, <2>2, SamePhase
<1> QED
  BY <1>3, <1>4

(* Every step is one of the contract, or a stutter.                        *)
LEMMA StepContract ==
  SingleHost /\ QueueInv /\ [Next]_vars => [Contract!Next]_(Contract!vars)
<1> SUFFICES ASSUME SingleHost, QueueInv, [Next]_vars
             PROVE  [Contract!Next]_(Contract!vars)
  OBVIOUS
<1>1. CASE \E i \in Incident : enqueue(i)
  BY <1>1, SubmitMaps DEF Contract!Next
<1>2. CASE \E p \in Process : Lifecycle(p)
  BY <1>2, LifecycleMaps
<1>3. CASE \E p \in Process : WorkerStep(p)
  BY <1>3, WorkerMaps
<1>4. CASE \E p \in Process : Raise(p)
  BY <1>4, RaiseMaps
<1>5. CASE UNCHANGED vars
  <2>1. (\A i \in Incident : Same(i)) /\ UNCHANGED licensed
    BY <1>5 DEF vars, store, local, history, Same, Running, Runs
  <2> QED
    BY <2>1, SamePhase
<1> QED
  BY <1>1, <1>2, <1>3, <1>4, <1>5 DEF Next

(* On a single host the queue, with its worker processes, kills, shutdowns *)
(* and failed calls, implements its contract.                              *)
THEOREM ContractImplemented == ASSUME SingleHost PROVE Spec => ImplementsContract
<1>1. Init /\ [][Next]_vars => Contract!Init /\ [][Contract!Next]_(Contract!vars)
  BY InitContract, StepContract, QueueInvariant, PTL DEF Spec
<1> QED
  BY <1>1 DEF Spec, ImplementsContract, Contract!Spec
=============================================================================
