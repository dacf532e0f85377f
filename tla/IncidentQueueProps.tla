------------------------ MODULE IncidentQueueProps -------------------------
(***************************************************************************)
(* What is claimed of IncidentQueue.                                       *)
(***************************************************************************)
EXTENDS IncidentQueue

SingleHost == \A p, q \in Process : HostOf[p] = HostOf[q]

(* Every variable keeps its type: a worker's snapshots, and the current    *)
(* incident of every program point that touches the store, are incidents.  *)
TypeOK ==
  /\ pending \subseteq Incident /\ processing \subseteq Incident
  /\ completed \subseteq Incident /\ failed \subseteq Incident
  /\ holder \subseteq Process
  /\ pc \in [Process -> Point]
  /\ org \in [Process -> Org \cup {NoOrg}]
  /\ todo \in [Process -> SUBSET Org]
  /\ keys \in [Process -> SUBSET Incident]
  /\ cur \in [Process -> Incident \cup {NoIncident}]
  /\ accepted \subseteq Incident /\ licensed \subseteq Incident
  /\ \A p \in Process : pc[p] \in CurPoint => cur[p] \in Incident
  /\ restarts \in Nat /\ faults \in Nat /\ resubmits \in Nat

(* An id handed back to a submitter has a record in the queue from then    *)
(* on, through every claim, recovery, verdict, kill and failed call.       *)
Durable == accepted \subseteq Stored

(* An accepted id has a record or a worker running it, on any number of    *)
(* hosts.  Two hosts break it as soon as a process is killed: one may have *)
(* recovered, and then deleted, the record the other's run rests on.       *)
Accounted ==
  accepted \subseteq
    Stored \cup {i \in Incident : \E p \in Process : Runs(p, i)}

(* Accepted, and neither waiting, decided nor being run: what is left to a *)
(* recovery, if a processing record still names it, and lost otherwise.    *)
Stranded ==
  accepted \ (pending \cup completed \cup failed
               \cup {i \in Incident : \E p \in Process : Runs(p, i)})

(* What holds instead, on any number of hosts: a kill, a shutdown or a     *)
(* call that raises strands one incident at most, and nothing else does,   *)
(* however the claims and recoveries of two hosts interleave.              *)
StrandedOnlyByFailures ==
  IsFiniteSet(Stranded) /\ Cardinality(Stranded) <= restarts + faults

(* No incident is run by two workers at a time.                            *)
ClaimedByOne ==
  \A p, q \in Process : \A i \in Incident : Runs(p, i) /\ Runs(q, i) => p = q

(* While an agent runs for an incident its processing record stays in the  *)
(* store: what a restart would recover it from.                            *)
RunIsRecoverable ==
  \A p \in Process : pc[p] = "run" => cur[p] \in processing

(***************************************************************************)
(* The inductive invariant behind these, conjunct by conjunct.             *)
(***************************************************************************)

(* The lock: a worker holds it, and no two processes of a host do.         *)
LockInv ==
  /\ \A p \in Process : pc[p] \in WorkerPoint => p \in holder
  /\ \A p, q \in holder : HostOf[p] = HostOf[q] => p = q

(* What the store holds at each program point of the only worker.          *)
StepInv ==
  \A p \in Process :
    /\ pc[p] # "claimUndo"
    /\ pc[p] \in {"claimCreate", "claimDelete", "recoverDelete"} => cur[p] \in pending
    /\ pc[p] \in {"recoverPut", "recoverDelete", "claimDelete", "run", "completePut"}
         => cur[p] \in processing
    /\ pc[p] \in {"completeDelete", "notify"} => cur[p] \in completed
    /\ pc[p] \in {"failDelete", "notifyError"} => cur[p] \in failed
    /\ pc[p] = "notify" => cur[p] \notin processing
    /\ pc[p] = "failPut" => cur[p] \in processing \cup completed

(* The incidents with a run coming: those in pending, and those whose      *)
(* processing record no worker is handling.                                *)
Owed == pending \cup {i \in processing : ~Running(i)}
LicenceInv == licensed = Owed

QueueInv == TypeOK /\ LockInv /\ StepInv /\ Durable /\ LicenceInv

(* The queue implements its contract: phases are read off the records and  *)
(* the workers' program points.                                            *)
phase ==
  [i \in Incident |->
     IF Running(i) THEN "running"
     ELSE IF i \in pending \cup processing THEN "queued"
     ELSE IF i \in completed \cup failed THEN "done" ELSE "absent"]

Contract == INSTANCE QueueContract
              WITH Incident <- Incident, phase <- phase, licensed <- licensed

ImplementsContract == Contract!Spec

(* With fair workers and finitely many kills and failures, so does the     *)
(* contract's fairness: no queued incident waits for ever.                 *)
ImplementsFairContract == Contract!FairSpec
=============================================================================
