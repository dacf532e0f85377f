--------------------------- MODULE AgentLoopProps ---------------------------
(***************************************************************************)
(* What is claimed of AgentLoop.                                           *)
(***************************************************************************)
EXTENDS AgentLoop

RunPoint == {"load", "collect", "call", "validate", "tool", "log", "save", "verify",
             "conclude", "delete", "giveUp", "giveUpSave"}
Point    == RunPoint \cup ErrorPoint \cup
            {"idle", "escalate", "audit", "mark", "settle", "notify", "end"}
Ending   == {"none", "user", "text", "calls", "cut"}
Progress == [steps : 0 .. MaxSteps, actions : SUBSET Call, last : Ending]

(* Every variable keeps its type; no run has more steps or reminders than  *)
(* its bounds.                                                             *)
TypeOK ==
  /\ owed \in BOOLEAN /\ checkpoint \in Progress
  /\ audit \in Judgement /\ verdict \in Judgement
  /\ needs \in BOOLEAN /\ pc \in Point
  /\ steps \in 0 .. MaxSteps /\ actions \in SUBSET Call
  /\ reminders \in 0 .. MaxReminders
  /\ last \in Ending /\ left \in 0 .. MaxBatch
  /\ result \in [resolved : BOOLEAN, grounded : BOOLEAN, gaveUp : BOOLEAN]
  /\ told \in BOOLEAN
  /\ done \in SUBSET Call /\ unproved \in BOOLEAN /\ calls \in Nat
  /\ faults \in 0 .. MaxFaults /\ resubmits \in 0 .. MaxResubmits

(* An incident is called resolved only on calls that were really made, in  *)
(* this run or before the kills and errors it resumed from: evidence that  *)
(* came back if its type requires it, and a fix or suggestions.            *)
ResolvedIsSupported ==
  result.resolved =>
    /\ needs => \E c \in done : c.tool \in EVIDENCE_TOOLS /\ c.outcome \notin {"error", "blocked"}
    /\ \E c \in done : c.tool \in REMEDIATION_TOOLS \cup SUGGESTION_TOOLS /\ c.outcome = "ok"

(* A run that says resolved, and remembers every fix that was made, leaves *)
(* none that is not verified.                                              *)
FixIsVerified ==
  /\ result.resolved /\ pc # "verify"
  /\ \A c \in done : has_successful_remediation({c}) => c \in actions
  => ~unproved

(* What the documents say: every fix is verified.  A run that is resumed   *)
(* after a kill may not know of one.                                       *)
EveryFixIsVerified == result.resolved /\ pc # "verify" => ~unproved

(* A kill or an error costs one step at the most: however often a run is   *)
(* resumed, the model is called no oftener than that.                      *)
StepBudget == calls <= MaxSteps + faults

(* The model is never called with a conversation that leaves the tool      *)
(* calls of a complete answer without results, whatever the checkpoint it  *)
(* is resumed from.                                                        *)
CallsAreAnswered == pc = "call" => last # "calls"

(* What is stored of a run never goes back: a resumed run keeps the steps  *)
(* and the calls before it.                                                *)
ProgressKept ==
  [][checkpoint # NoCheckpoint /\ checkpoint' # NoCheckpoint =>
       /\ checkpoint.steps <= checkpoint'.steps
       /\ checkpoint.actions \subseteq checkpoint'.actions]_vars

(* A verdict is stored after people were told, unless it is that the       *)
(* incident is resolved; and after the audit entry, unless it failed.      *)
SettledIsTold ==
  [][verdict' # verdict =>
       /\ verdict' # "resolved" => told
       /\ verdict' # "failed" => audit = verdict']_vars

(* An incident that is owed a verdict gets it.                             *)
EventuallySettled == owed ~> ~owed

-----------------------------------------------------------------------------
(* The inductive invariant.                                                *)

(* The agent's memory holds a conversation.                                *)
Looping   == RunPoint \ {"load", "collect"}
Concluded == {"verify", "conclude", "delete"} \cup (Point \ (RunPoint \cup {"idle"}))

(* What memory holds at which point.                                       *)
MemoryInv ==
  /\ pc \in {"idle", "load", "collect"} => actions = {} /\ steps = 0
  /\ pc = "collect" => checkpoint = NoCheckpoint
  /\ pc = "call" => steps < MaxSteps
  /\ pc = "tool" => left > 0
  /\ result.resolved => pc \in Concluded

(* What the agent remembers was done, and what is unproved is a fix.       *)
DoneInv ==
  /\ actions \subseteq done /\ checkpoint.actions \subseteq done
  /\ unproved => \E c \in done : has_successful_remediation({c})

(* The checkpoint is a step behind at the most, and not when the model is  *)
(* about to be called.                                                     *)
CheckpointInv ==
  pc \in Looping /\ checkpoint # NoCheckpoint =>
    /\ checkpoint.steps <= steps /\ steps <= checkpoint.steps + 1
    /\ pc = "call" => steps = checkpoint.steps
    /\ checkpoint.actions \subseteq actions

(* Each call of the model is a step that is counted in memory, or in the   *)
(* checkpoint, or is lost to a kill or an error.                           *)
BudgetInv ==
  /\ StepBudget
  /\ pc \in Looping => calls <= steps + faults
  /\ pc \notin Looping /\ checkpoint # NoCheckpoint => calls <= checkpoint.steps + faults

(* No checkpoint has calls without results, nor has what is sent or saved. *)
AnswerInv ==
  /\ checkpoint.last # "calls"
  /\ pc \in {"call", "save", "giveUp", "giveUpSave"} => last # "calls"

(* On the way to a verdict, people have been told, or need not be.         *)
ToldInv ==
  /\ pc \in {"audit", "mark"} => told \/ result.resolved
  /\ pc = "mark" => audit = Outcome_of_result
  /\ pc = "fail" => told

AgentInv ==
  /\ TypeOK /\ MemoryInv
  /\ DoneInv /\ ResolvedIsSupported /\ FixIsVerified
  /\ CheckpointInv /\ BudgetInv /\ AnswerInv /\ ToldInv
=============================================================================
