--------------------------- MODULE QueueContract ---------------------------
(***************************************************************************)
(* What the incident queue promises about one incident, whatever happens   *)
(* to the processes: it is queued when submitted, it runs only because it  *)
(* is queued, a run ends with a verdict or puts it back, and nothing makes *)
(* it disappear.  A submission, and a run cut short, license exactly one   *)
(* further run; a run uses its licence up.                                 *)
(***************************************************************************)
CONSTANT Incident

VARIABLES phase, licensed

vars == <<phase, licensed>>

Phase == {"absent", "queued", "running", "done"}

Init ==
  /\ phase = [i \in Incident |-> "absent"]
  /\ licensed = {}

Become(i, ph) == phase' = [phase EXCEPT ![i] = ph]

Submit(i) ==
  /\ licensed' = licensed \cup {i}
  /\ IF phase[i] = "running" THEN UNCHANGED phase ELSE Become(i, "queued")

Begin(i) ==
  /\ phase[i] = "queued" /\ i \in licensed
  /\ licensed' = licensed \ {i}
  /\ Become(i, "running")

(* The run reached a verdict; a submission made meanwhile is still owed.   *)
Finish(i) ==
  /\ phase[i] = "running"
  /\ Become(i, IF i \in licensed THEN "queued" ELSE "done")
  /\ UNCHANGED licensed

CutShort(i) ==
  /\ phase[i] = "running"
  /\ licensed' = licensed \cup {i}
  /\ Become(i, "queued")

Next ==
  \E i \in Incident : Submit(i) \/ Begin(i) \/ Finish(i) \/ CutShort(i)

Spec == Init /\ [][Next]_vars

(* Runs are begun, and an incident that is begun again and again is        *)
(* eventually carried to a verdict.                                        *)
FairSpec ==
  /\ Spec
  /\ \A i \in Incident : WF_vars(Begin(i)) /\ SF_vars(Finish(i))
=============================================================================
