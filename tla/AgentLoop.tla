----------------------------- MODULE AgentLoop -----------------------------
(***************************************************************************)
(* The run of one incident: the agent's loop (agent/core.py) with its      *)
(* checkpoints, the grounding of conclusions (agent/grounding.py), and     *)
(* what the worker does with the result (api/server.py).                   *)
(*                                                                         *)
(* IncidentQueue shows that a host runs an incident in one place at a      *)
(* time, and again after a run that was cut short; here, owed says that    *)
(* its queue record is there.  The language model and the tools may answer *)
(* anything.  A tool call is what was called and how it ended; a list of   *)
(* calls counts as the set of them, which is all that grounding looks at.  *)
(* The context, the texts and the logs are left out.                       *)
(***************************************************************************)
EXTENDS Naturals

CONSTANTS
  EVIDENCE_TOOLS, REMEDIATION_TOOLS, SUGGESTION_TOOLS,
  Call,          \* calls that may happen: of a tool, with an outcome
  Evidence,      \* whether the issue's type requires evidence: some of BOOLEAN
  MaxSteps,      \* max_steps
  MaxReminders,  \* evidence reminders in one run
  MaxBatch,      \* bound on the tool calls in one answer
  MaxFaults,     \* bound on kills and on calls that raise
  MaxResubmits   \* bound on submissions of the same id

(* "ok" is neither blocked nor an error; "unsuccessful" is without error,  *)
(* but says success: false.                                                *)
Outcome == {"ok", "unsuccessful", "error", "blocked"}
Tool    == EVIDENCE_TOOLS \cup REMEDIATION_TOOLS \cup SUGGESTION_TOOLS

ASSUME CallAssumption == Call \subseteq [tool : Tool, outcome : Outcome]
ASSUME BoundAssumption ==
  /\ Evidence \subseteq BOOLEAN
  /\ MaxSteps \in Nat /\ MaxReminders \in Nat /\ MaxBatch \in Nat
  /\ MaxFaults \in Nat /\ MaxResubmits \in Nat

VARIABLES
  owed,        \* the incident is pending or processing in the queue
  checkpoint,  \* what is stored of a run
  audit,       \* what the audit entry says
  verdict,     \* what the queue says
  needs,       \* the issue's type requires evidence
  pc,          \* what the worker is about to do
  steps, actions, reminders,
  last,        \* what the conversation ends with
  left,        \* tool calls of the last answer yet to be made
  result,
  told,        \* the run has escalated
  \* history, since the last run that found no checkpoint began:
  done,        \* calls of tools, those a kill made the agent forget included
  unproved,    \* a remediation that succeeded was not verified since
  calls,       \* calls of the model
  faults, resubmits

store   == <<owed, checkpoint, audit, verdict>>
memory  == <<steps, actions, reminders, last, left>>
history == <<done, unproved, calls>>
bounds  == <<faults, resubmits>>
vars    == <<store, needs, pc, memory, result, told, history, bounds>>

Judgement    == {"none", "resolved", "unresolved", "failed"}
NoCheckpoint == [steps |-> 0, actions |-> {}, last |-> "none"]
NoResult     == [resolved |-> FALSE, grounded |-> TRUE, gaveUp |-> FALSE]
GaveUp       == [NoResult EXCEPT !.gaveUp = TRUE]

(* What is in memory while no run is on.                                   *)
Forget ==
  /\ steps' = 0 /\ actions' = {} /\ reminders' = 0 /\ last' = "none" /\ left' = 0
  /\ result' = NoResult /\ told' = FALSE

Init ==
  /\ owed = TRUE /\ checkpoint = NoCheckpoint /\ audit = "none" /\ verdict = "none"
  /\ needs \in Evidence
  /\ pc = "idle"
  /\ steps = 0 /\ actions = {} /\ reminders = 0 /\ last = "none" /\ left = 0
  /\ result = NoResult /\ told = FALSE
  /\ done = {} /\ unproved = FALSE /\ calls = 0
  /\ faults = 0 /\ resubmits = 0

At(point, next) == pc = point /\ pc' = next

-----------------------------------------------------------------------------
(* Grounding.                                                              *)

(* Mutant: a call that failed, or was blocked, counts.                     *)
Mut_has_tool_evidence(calls_made) ==
  \E c \in calls_made : c.tool \in EVIDENCE_TOOLS

has_tool_evidence(calls_made) ==
  \E c \in calls_made :
    c.tool \in EVIDENCE_TOOLS /\ c.outcome \in {"ok", "unsuccessful"}

has_successful_remediation(calls_made) ==
  \E c \in calls_made : c.tool \in REMEDIATION_TOOLS /\ c.outcome = "ok"

has_suggestions(calls_made) ==
  \E c \in calls_made : c.tool \in SUGGESTION_TOOLS /\ c.outcome = "ok"

(* text: the final answer has an evidence section, claims a fix.           *)
validate_resolution(calls_made, text) ==
  LET evidence == has_tool_evidence(calls_made)
      fixed    == has_successful_remediation(calls_made)
  IN
  /\ needs => evidence
  /\ "claim" \in text => fixed \/ evidence
  /\ needs /\ evidence => /\ "evidence" \in text
                          /\ fixed \/ has_suggestions(calls_made)

-----------------------------------------------------------------------------
(* The agent's run.                                                        *)

(* Mutant: one step more.                                                  *)
MutLoop(n) == IF n <= MaxSteps THEN "call" ELSE "giveUp"

(* The loop's condition.                                                   *)
Loop(n) == IF n < MaxSteps THEN "call" ELSE "giveUp"

Begin ==
  /\ owed /\ At("idle", "load")
  /\ UNCHANGED <<store, needs, memory, result, told, history, bounds>>

(* Mutant: steps are counted anew.                                         *)
Mut_load_checkpoint ==
  /\ pc = "load"
  /\ IF checkpoint = NoCheckpoint
     THEN pc' = "collect" /\ UNCHANGED <<steps, actions, last>>
     ELSE /\ pc' = Loop(0)
          /\ steps' = 0 /\ actions' = checkpoint.actions /\ last' = checkpoint.last
  /\ UNCHANGED <<store, needs, reminders, left, result, told, history, bounds>>

load_checkpoint ==
  /\ pc = "load"
  /\ IF checkpoint = NoCheckpoint
     THEN pc' = "collect" /\ UNCHANGED <<steps, actions, last>>
     ELSE /\ pc' = Loop(checkpoint.steps)
          /\ steps' = checkpoint.steps
          /\ actions' = checkpoint.actions
          /\ last' = checkpoint.last
  /\ UNCHANGED <<store, needs, reminders, left, result, told, history, bounds>>

_collect_context ==
  /\ At("collect", Loop(0))
  /\ last' = "user"
  /\ done' = {} /\ unproved' = FALSE /\ calls' = 0
  /\ UNCHANGED <<store, needs, steps, actions, reminders, left, result, told, bounds>>

(* Mutant: a step that calls tools does not count.                         *)
Mut_call_claude ==
  /\ pc = "call" /\ calls' = calls
  /\ \/ pc' = "validate" /\ last' = "text" /\ left' = 0 /\ steps' = steps + 1
     \/ pc' = "tool" /\ last' = "calls" /\ left' \in 1 .. MaxBatch /\ steps' = steps
     \/ pc' = "giveUp" /\ last' = "cut" /\ left' = 0 /\ steps' = steps + 1
  /\ UNCHANGED <<store, needs, actions, reminders, result, told, done, unproved, bounds>>

(* The answer is final, or calls tools, or was cut off.                    *)
_call_claude ==
  /\ pc = "call"
  /\ steps' = steps + 1 /\ calls' = calls + 1
  /\ \/ pc' = "validate" /\ last' = "text" /\ left' = 0
     \/ pc' = "tool" /\ last' = "calls" /\ left' \in 1 .. MaxBatch
     \/ pc' = "giveUp" /\ last' = "cut" /\ left' = 0
  /\ UNCHANGED <<store, needs, actions, reminders, result, told, done, unproved, bounds>>

_execute_tool ==
  /\ At("tool", "log")
  /\ \E c \in Call :
       /\ actions' = actions \cup {c}
       /\ done' = done \cup {c}
       /\ unproved' = (unproved \/ has_successful_remediation({c}))
  /\ left' = left - 1
  /\ UNCHANGED <<store, needs, steps, reminders, last, result, told, calls, bounds>>

(* Mutant: the checkpoint is saved before the results are part of the      *)
(* conversation.                                                           *)
Mutsave_log ==
  /\ pc = "log"
  /\ IF left > 0
     THEN pc' = "tool" /\ UNCHANGED <<checkpoint, last>>
     ELSE /\ checkpoint' = [steps |-> steps, actions |-> actions, last |-> last]
          /\ pc' = "save" /\ last' = "user"
  /\ UNCHANGED <<owed, audit, verdict, needs, steps, actions, reminders, left, result,
                 told, history, bounds>>

(* The results are sent to the model when the last is there.               *)
save_log ==
  /\ pc = "log"
  /\ IF left > 0 THEN pc' = "tool" /\ UNCHANGED last
                 ELSE pc' = "save" /\ last' = "user"
  /\ UNCHANGED <<store, needs, steps, actions, reminders, left, result, told, history, bounds>>

Save(point, next) ==
  /\ At(point, next)
  /\ checkpoint' = [steps |-> steps, actions |-> actions, last |-> last]
  /\ UNCHANGED <<owed, audit, verdict, needs, memory, told, history, bounds>>

save_checkpoint == Save("save", Loop(steps)) /\ UNCHANGED result

Remind ==
  /\ reminders < MaxReminders /\ steps < MaxSteps
  /\ reminders' = reminders + 1
  /\ last' = "user"
  /\ pc' = "save"
  /\ UNCHANGED <<result, left>>

(* Mutant: a fix is verified if the conclusion is good.                    *)
MutConcludeWith(grounded) ==
  /\ result' = [NoResult EXCEPT
       !.resolved = grounded /\ (has_successful_remediation(actions) \/ has_suggestions(actions)),
       !.grounded = grounded]
  /\ pc' = "conclude"
  /\ UNCHANGED <<reminders, last, left>>

ConcludeWith(grounded) ==
  LET fix_applied == has_successful_remediation(actions) IN
  /\ result' = [NoResult EXCEPT
       !.resolved = grounded /\ (fix_applied \/ has_suggestions(actions)),
       !.grounded = grounded]
  /\ pc' = IF fix_applied THEN "verify" ELSE "conclude"
  /\ UNCHANGED <<reminders, last, left>>

(* A conclusion that is not grounded is sent back while there is room.     *)
end_turn ==
  /\ pc = "validate"
  /\ \E text \in SUBSET {"evidence", "claim"} :
       LET grounded == validate_resolution(actions, text) IN
       \/ ~grounded /\ Remind
       \/ /\ grounded \/ reminders >= MaxReminders \/ steps >= MaxSteps
          /\ ConcludeWith(grounded)
  /\ UNCHANGED <<store, needs, steps, actions, told, history, bounds>>

(* A fix that is not verified does not resolve the incident.               *)
verify_fix ==
  /\ At("verify", "conclude")
  /\ \E verified \in BOOLEAN :
       /\ result' = [result EXCEPT !.resolved = @ /\ verified]
       /\ unproved' = (unproved /\ ~verified)
  /\ UNCHANGED <<store, needs, memory, told, done, calls, bounds>>

save_conversation ==
  /\ At("conclude", "delete") \/ At("giveUp", "giveUpSave")
  /\ UNCHANGED <<store, needs, memory, result, told, history, bounds>>

delete_checkpoint ==
  /\ At("delete", "escalate")
  /\ checkpoint' = NoCheckpoint
  /\ UNCHANGED <<owed, audit, verdict, needs, memory, result, told, history, bounds>>

(* The run out of steps, or with an answer cut off.                        *)
give_up == Save("giveUpSave", "escalate") /\ result' = GaveUp

Run ==
  \/ Begin \/ load_checkpoint \/ _collect_context
  \/ _call_claude \/ _execute_tool \/ save_log \/ save_checkpoint
  \/ end_turn \/ verify_fix \/ save_conversation \/ delete_checkpoint \/ give_up

-----------------------------------------------------------------------------
(* The worker, with the result or an error.                                *)

(* Mutant: an incident that is not resolved is not a reason of its own.    *)
Mutevaluate(error, database) ==
  {r \in {"agent_error", "database_issue", "not_grounded", "max_steps_reached"} :
     \/ r = "agent_error"       /\ error
     \/ r = "database_issue"    /\ database
     \/ r = "not_grounded"      /\ ~result.grounded
     \/ r = "max_steps_reached" /\ result.gaveUp}

(* The reasons to escalate, with every trigger enabled as by default.      *)
evaluate(error, database) ==
  {r \in {"agent_error", "database_issue", "unresolved", "not_grounded", "max_steps_reached"} :
     \/ r = "agent_error"       /\ error
     \/ r = "database_issue"    /\ database
     \/ r = "unresolved"        /\ ~result.resolved
     \/ r = "not_grounded"      /\ ~result.grounded
     \/ r = "max_steps_reached" /\ result.gaveUp}

escalate(point, error, next) ==
  /\ At(point, next)
  /\ \E database \in BOOLEAN : told' = (told \/ evaluate(error, database) # {})
  /\ UNCHANGED <<store, needs, memory, result, history, bounds>>

Outcome_of_result == IF result.resolved THEN "resolved" ELSE "unresolved"

save_audit(point, entry, next) ==
  /\ At(point, next)
  /\ audit' = entry
  /\ UNCHANGED <<owed, checkpoint, verdict, needs, memory, result, told, history, bounds>>

mark(point, status, next) ==
  /\ At(point, next)
  /\ verdict' = status
  /\ UNCHANGED <<owed, checkpoint, audit, needs, memory, result, told, history, bounds>>

_delete_processing(point, next) ==
  /\ At(point, next)
  /\ owed' = FALSE
  /\ UNCHANGED <<checkpoint, audit, verdict, needs, memory, result, told, history, bounds>>

process_incident ==
  \/ escalate("escalate", FALSE, "audit")
  \/ save_audit("audit", Outcome_of_result, "mark")
  \/ mark("mark", Outcome_of_result, "settle")
  \/ _delete_processing("settle", "notify")
  \/ At("notify", "end")
     /\ UNCHANGED <<store, needs, memory, result, told, history, bounds>>

handle_error ==
  \/ escalate("error", TRUE, "fail")
  \/ mark("fail", "failed", "settleFailed")
  \/ _delete_processing("settleFailed", "notifyError")
  \/ At("notifyError", "auditError")
     /\ UNCHANGED <<store, needs, memory, result, told, history, bounds>>
  \/ save_audit("auditError", "failed", "end")

Stop == pc' = "idle" /\ Forget

End == pc = "end" /\ Stop /\ UNCHANGED <<store, needs, history, bounds>>

-----------------------------------------------------------------------------
Fault ==
  /\ faults < MaxFaults
  /\ faults' = faults + 1
  /\ UNCHANGED <<store, needs, history, resubmits>>

(* What is called at pc raises, without effect; with effect, it raises at  *)
(* the point behind.  In the handler of an error, the poll ends.           *)
ErrorPoint == {"error", "fail", "settleFailed", "notifyError", "auditError"}

Raise ==
  /\ Fault
  /\ IF pc \in ErrorPoint
     THEN Stop
     ELSE /\ pc \notin {"idle", "end"}
          /\ pc' = "error"
          /\ result' \in IF pc \in {"audit", "mark", "settle", "notify"} THEN {result}
                         ELSE IF pc = "escalate" THEN {result, NoResult}
                         ELSE {NoResult}
          /\ UNCHANGED <<memory, told>>

Kill == pc # "idle" /\ Fault /\ Stop

(* A client that chooses the id submits it again.                          *)
Resubmit ==
  /\ ~owed /\ resubmits < MaxResubmits
  /\ owed' = TRUE /\ resubmits' = resubmits + 1
  /\ UNCHANGED <<checkpoint, audit, verdict, needs, pc, memory, result, told, history, faults>>

Work == Run \/ process_incident \/ handle_error \/ End

Next == Work \/ Raise \/ Kill \/ Resubmit

Spec == Init /\ [][Next]_vars

(* The worker polls, the event loop goes on, and the model and each tool   *)
(* answer or time out.                                                     *)
FairSpec == Spec /\ WF_vars(Work)
=============================================================================
