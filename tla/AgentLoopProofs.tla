-------------------------- MODULE AgentLoopProofs --------------------------
(***************************************************************************)
(* Proofs about AgentLoop, for every set of tools and calls, and every     *)
(* bound.                                                                  *)
(***************************************************************************)
EXTENDS AgentLoopProps, TLAPS

-----------------------------------------------------------------------------
(* Every variable keeps its type.                                          *)

(* The results that runs start from have their type.                       *)
LEMMA ResultType ==
  /\ NoResult \in [resolved : BOOLEAN, grounded : BOOLEAN, gaveUp : BOOLEAN]
  /\ GaveUp \in [resolved : BOOLEAN, grounded : BOOLEAN, gaveUp : BOOLEAN]
  /\ NoResult.resolved = FALSE /\ GaveUp.resolved = FALSE
  BY DEF NoResult, GaveUp

(* So has the checkpoint that stands for none.                             *)
LEMMA CheckpointType == NoCheckpoint \in Progress
  BY BoundAssumption DEF NoCheckpoint, Progress, Ending

(* The worker, with a result or an error, leaves the agent's memory alone. *)
LEMMA WorkerKeeps ==
  process_incident \/ handle_error =>
    UNCHANGED <<checkpoint, needs, memory, result, history, bounds>>
<1>1. ASSUME NEW p, NEW e, NEW n, escalate(p, e, n)
      PROVE UNCHANGED <<checkpoint, needs, memory, result, history, bounds>>
  BY <1>1 DEF escalate, store
<1>2. ASSUME NEW p, NEW e, NEW n, save_audit(p, e, n)
      PROVE UNCHANGED <<checkpoint, needs, memory, result, history, bounds>>
  BY <1>2 DEF save_audit
<1>3. ASSUME NEW p, NEW e, NEW n, mark(p, e, n)
      PROVE UNCHANGED <<checkpoint, needs, memory, result, history, bounds>>
  BY <1>3 DEF mark
<1>4. ASSUME NEW p, NEW n, _delete_processing(p, n)
      PROVE UNCHANGED <<checkpoint, needs, memory, result, history, bounds>>
  BY <1>4 DEF _delete_processing
<1>5. QED
  BY <1>1, <1>2, <1>3, <1>4 DEF process_incident, handle_error, store

(* Where it goes.                                                          *)
LEMMA WorkerPoints ==
  /\ process_incident =>
       pc \in Concluded \ ErrorPoint /\ pc' \in {"audit", "mark", "settle", "notify", "end"}
  /\ handle_error =>
       pc \in ErrorPoint /\ pc' \in {"fail", "settleFailed", "notifyError", "auditError", "end"}
  BY DEF process_incident, handle_error, escalate, save_audit, mark, _delete_processing, At,
         Concluded, Point, RunPoint, ErrorPoint

(* What it may do to the store.                                            *)
LEMMA WorkerStores ==
  TypeOK /\ (process_incident \/ handle_error) =>
    /\ owed' \in BOOLEAN /\ audit' \in Judgement
    /\ verdict' \in Judgement /\ told' \in BOOLEAN
<1>1. Outcome_of_result \in Judgement
  BY DEF Outcome_of_result, Judgement
<1>2. ASSUME TypeOK, NEW p, NEW e, NEW n, escalate(p, e, n)
      PROVE told' \in BOOLEAN /\ UNCHANGED <<owed, audit, verdict>>
  BY <1>2, Zenon DEF escalate, store
<1>3. QED
  BY <1>1, <1>2
  DEF process_incident, handle_error, save_audit, mark, _delete_processing, store, TypeOK, Judgement

(* Initially every variable has its type.                                  *)
LEMMA InitTypeOK == Init => TypeOK
<1> SUFFICES ASSUME Init PROVE TypeOK
  OBVIOUS
<1>1. needs \in BOOLEAN
  BY BoundAssumption DEF Init
<1>2. pc \in Point /\ last \in Ending /\ audit \in Judgement /\ verdict \in Judgement
  BY DEF Init, Point, Ending, Judgement
<1>3. owed \in BOOLEAN /\ told \in BOOLEAN /\ unproved \in BOOLEAN
  BY Zenon DEF Init
<1>4. checkpoint \in Progress /\ result \in [resolved : BOOLEAN, grounded : BOOLEAN, gaveUp : BOOLEAN]
  BY ResultType, CheckpointType DEF Init
<1>5. /\ steps \in 0 .. MaxSteps /\ reminders \in 0 .. MaxReminders /\ left \in 0 .. MaxBatch
      /\ calls \in Nat /\ faults \in 0 .. MaxFaults /\ resubmits \in 0 .. MaxResubmits
  BY BoundAssumption DEF Init
<1>6. actions \in SUBSET Call /\ done \in SUBSET Call
  BY DEF Init
<1>7. QED
  BY <1>1, <1>2, <1>3, <1>4, <1>5, <1>6 DEF TypeOK

(* What is forgotten is as it was initially.                               *)
LEMMA StopType ==
  Stop =>
    /\ pc' = "idle" /\ steps' \in 0 .. MaxSteps /\ actions' \in SUBSET Call
    /\ reminders' \in 0 .. MaxReminders /\ last' \in Ending /\ left' \in 0 .. MaxBatch
    /\ result' \in [resolved : BOOLEAN, grounded : BOOLEAN, gaveUp : BOOLEAN]
    /\ told' \in BOOLEAN
<1>1. Stop => told' \in BOOLEAN
  BY Zenon DEF Stop, Forget
<1>2. QED
  BY <1>1, BoundAssumption, ResultType DEF Stop, Forget, Ending

(* No step changes the type of a variable.                                 *)
LEMMA StepTypeOK ==
  TypeOK /\ MemoryInv /\ [Next]_vars => TypeOK'
<1> SUFFICES ASSUME TypeOK, MemoryInv, [Next]_vars PROVE TypeOK'
  OBVIOUS
<1> USE BoundAssumption, CallAssumption
        DEF TypeOK, MemoryInv, NoCheckpoint, RunPoint, Point, ErrorPoint, Looping,
            Concluded, Ending, Progress, Judgement, At, store, memory, history, bounds
<1>1. ASSUME Begin PROVE TypeOK'
  BY <1>1 DEF Begin
<1>2. ASSUME load_checkpoint PROVE TypeOK'
  BY <1>2 DEF load_checkpoint, Loop
<1>3. ASSUME _collect_context PROVE TypeOK'
  <2>1. pc' \in {"call", "giveUp"} /\ last' = "user" /\ done' = {} /\ calls' = 0
    BY <1>3 DEF _collect_context, Loop
  <2>2. unproved' \in BOOLEAN
    BY <1>3, Zenon DEF _collect_context
  <2>3. UNCHANGED <<store, needs, steps, actions, reminders, left, result, told, bounds>>
    BY <1>3 DEF _collect_context
  <2>4. QED
    BY <2>1, <2>2, <2>3
<1>4. ASSUME _call_claude PROVE TypeOK'
  BY <1>4 DEF _call_claude
<1>5. ASSUME _execute_tool PROVE TypeOK'
  BY <1>5 DEF _execute_tool
<1>6. ASSUME save_log PROVE TypeOK'
  BY <1>6 DEF save_log
<1>7. ASSUME save_checkpoint PROVE TypeOK'
  BY <1>7 DEF save_checkpoint, Save, Loop
<1>8. ASSUME end_turn PROVE TypeOK'
  <2>1. UNCHANGED <<store, needs, steps, actions, told, history, bounds>>
    BY <1>8 DEF end_turn
  <2>2. CASE Remind
    BY <2>1, <2>2 DEF Remind
  <2>3. ASSUME NEW g \in BOOLEAN, ConcludeWith(g)
        PROVE /\ result' \in [resolved : BOOLEAN, grounded : BOOLEAN, gaveUp : BOOLEAN]
              /\ pc' \in {"verify", "conclude"} /\ UNCHANGED <<reminders, last, left>>
    <3> DEFINE r == g /\ (has_successful_remediation(actions) \/ has_suggestions(actions))
    <3>1. r \in BOOLEAN
      OBVIOUS
    <3>2. result' = [[NoResult EXCEPT !.resolved = r] EXCEPT !.grounded = g]
      BY <2>3 DEF ConcludeWith
    <3> HIDE DEF r
    <3>3. result' \in [resolved : BOOLEAN, grounded : BOOLEAN, gaveUp : BOOLEAN]
      BY <3>1, <3>2 DEF NoResult
    <3>4. QED
      BY <2>3, <3>3 DEF ConcludeWith
  <2>4. \A t : validate_resolution(actions, t) \in BOOLEAN
    BY DEF validate_resolution
  <2>5. QED
    BY <1>8, <2>1, <2>2, <2>3, <2>4 DEF end_turn
<1>9. ASSUME verify_fix PROVE TypeOK'
  BY <1>9 DEF verify_fix
<1>10. ASSUME save_conversation PROVE TypeOK'
  BY <1>10 DEF save_conversation
<1>11. ASSUME delete_checkpoint PROVE TypeOK'
  BY <1>11 DEF delete_checkpoint
<1>12. ASSUME give_up PROVE TypeOK'
  BY <1>12 DEF give_up, Save, GaveUp, NoResult
<1>13. ASSUME process_incident PROVE TypeOK'
  BY <1>13, WorkerKeeps, WorkerPoints, WorkerStores
<1>14. ASSUME handle_error PROVE TypeOK'
  BY <1>14, WorkerKeeps, WorkerPoints, WorkerStores
<1>15. ASSUME End PROVE TypeOK'
  BY <1>15, StopType DEF End
<1>16. ASSUME Raise PROVE TypeOK'
  <2>1. /\ faults' \in 0 .. MaxFaults /\ UNCHANGED <<store, needs, history, resubmits>>
    BY <1>16 DEF Raise, Fault
  <2>2. CASE Stop
    BY <2>1, <2>2, StopType
  <2>3. CASE /\ pc' = "error" /\ UNCHANGED <<memory, told>>
             /\ result' \in {result, NoResult}
    BY <2>1, <2>3, ResultType
  <2>4. QED
    BY <1>16, <2>2, <2>3 DEF Raise
<1>17. ASSUME Kill PROVE TypeOK'
  BY <1>17, StopType DEF Kill, Fault
<1>18. ASSUME Resubmit PROVE TypeOK'
  BY <1>18 DEF Resubmit
<1>19. ASSUME UNCHANGED vars PROVE TypeOK'
  BY <1>19 DEF vars
<1>20. QED
  BY <1>1, <1>2, <1>3, <1>4, <1>5, <1>6, <1>7, <1>8, <1>9, <1>10, <1>11, <1>12, <1>13,
     <1>14, <1>15, <1>16, <1>17, <1>18, <1>19 DEF Next, Work, Run

-----------------------------------------------------------------------------
(* The parts of the invariant, each from itself and those before it.       *)

(* What memory holds at each point.                                        *)
LEMMA StepMemoryInv ==
  TypeOK /\ MemoryInv /\ [Next]_vars => MemoryInv'
<1> SUFFICES ASSUME TypeOK, MemoryInv, [Next]_vars PROVE MemoryInv'
  OBVIOUS
<1> USE BoundAssumption, CallAssumption
        DEF TypeOK, MemoryInv, NoCheckpoint, RunPoint, Point, ErrorPoint, Looping,
            Concluded, Ending, Progress, Judgement, At, store, memory, history, bounds
<1>1. ASSUME Begin PROVE MemoryInv'
  BY <1>1 DEF Begin
<1>2. ASSUME load_checkpoint PROVE MemoryInv'
  BY <1>2 DEF load_checkpoint, Loop
<1>3. ASSUME _collect_context PROVE MemoryInv'
  BY <1>3 DEF _collect_context, Loop
<1>4. ASSUME _call_claude PROVE MemoryInv'
  BY <1>4 DEF _call_claude
<1>5. ASSUME _execute_tool PROVE MemoryInv'
  BY <1>5 DEF _execute_tool
<1>6. ASSUME save_log PROVE MemoryInv'
  BY <1>6 DEF save_log
<1>7. ASSUME save_checkpoint PROVE MemoryInv'
  BY <1>7 DEF save_checkpoint, Save, Loop
<1>8. ASSUME end_turn PROVE MemoryInv'
  BY <1>8 DEF end_turn, Remind, ConcludeWith, NoResult
<1>9. ASSUME verify_fix PROVE MemoryInv'
  BY <1>9 DEF verify_fix
<1>10. ASSUME save_conversation PROVE MemoryInv'
  BY <1>10 DEF save_conversation
<1>11. ASSUME delete_checkpoint PROVE MemoryInv'
  BY <1>11 DEF delete_checkpoint
<1>12. ASSUME give_up PROVE MemoryInv'
  BY <1>12 DEF give_up, Save, GaveUp, NoResult
<1>13. ASSUME process_incident PROVE MemoryInv'
  BY <1>13 DEF process_incident, escalate, save_audit, mark, _delete_processing,
     Outcome_of_result
<1>14. ASSUME handle_error PROVE MemoryInv'
  BY <1>14 DEF handle_error, escalate, save_audit, mark, _delete_processing
<1>15. ASSUME End PROVE MemoryInv'
  BY <1>15 DEF End, Stop, Forget, NoResult
<1>16. ASSUME Raise PROVE MemoryInv'
  BY <1>16 DEF Raise, Fault, Stop, Forget, NoResult
<1>17. ASSUME Kill PROVE MemoryInv'
  BY <1>17 DEF Kill, Fault, Stop, Forget, NoResult
<1>18. ASSUME Resubmit PROVE MemoryInv'
  BY <1>18 DEF Resubmit
<1>19. ASSUME UNCHANGED vars PROVE MemoryInv'
  BY <1>19 DEF vars
<1>20. QED
  BY <1>1, <1>2, <1>3, <1>4, <1>5, <1>6, <1>7, <1>8, <1>9, <1>10, <1>11, <1>12, <1>13,
     <1>14, <1>15, <1>16, <1>17, <1>18, <1>19 DEF Next, Work, Run

(* What was done is remembered or forgotten, never made up.                *)
LEMMA StepDone ==
  TypeOK /\ MemoryInv /\ DoneInv /\ [Next]_vars => DoneInv'
<1> SUFFICES ASSUME TypeOK, MemoryInv, DoneInv, [Next]_vars PROVE DoneInv'
  OBVIOUS
<1> USE BoundAssumption, CallAssumption
        DEF TypeOK, MemoryInv, DoneInv, NoCheckpoint, RunPoint, Point, ErrorPoint, Looping,
            Concluded, Ending, Progress, Judgement, At, store, memory, history, bounds
<1>1. ASSUME Begin PROVE DoneInv'
  BY <1>1 DEF Begin
<1>2. ASSUME load_checkpoint PROVE DoneInv'
  BY <1>2 DEF load_checkpoint, Loop
<1>3. ASSUME _collect_context PROVE DoneInv'
  BY <1>3 DEF _collect_context, Loop
<1>4. ASSUME _call_claude PROVE DoneInv'
  BY <1>4 DEF _call_claude
<1>5. ASSUME _execute_tool PROVE DoneInv'
  BY <1>5 DEF _execute_tool
<1>6. ASSUME save_log PROVE DoneInv'
  BY <1>6 DEF save_log
<1>7. ASSUME save_checkpoint PROVE DoneInv'
  BY <1>7 DEF save_checkpoint, Save, Loop
<1>8. ASSUME end_turn PROVE DoneInv'
  BY <1>8 DEF end_turn, Remind, ConcludeWith, NoResult
<1>9. ASSUME verify_fix PROVE DoneInv'
  BY <1>9 DEF verify_fix
<1>10. ASSUME save_conversation PROVE DoneInv'
  BY <1>10 DEF save_conversation
<1>11. ASSUME delete_checkpoint PROVE DoneInv'
  BY <1>11 DEF delete_checkpoint
<1>12. ASSUME give_up PROVE DoneInv'
  BY <1>12 DEF give_up, Save, GaveUp, NoResult
<1>13. ASSUME process_incident PROVE DoneInv'
  <2>1. UNCHANGED <<actions, done, checkpoint>> /\ (unproved' <=> unproved)
    BY <1>13, WorkerKeeps
  <2>2. QED
    BY <2>1, Zenon
<1>14. ASSUME handle_error PROVE DoneInv'
  <2>1. UNCHANGED <<actions, done, checkpoint>> /\ (unproved' <=> unproved)
    BY <1>14, WorkerKeeps
  <2>2. QED
    BY <2>1, Zenon
<1>15. ASSUME End PROVE DoneInv'
  BY <1>15 DEF End, Stop, Forget, NoResult
<1>16. ASSUME Raise PROVE DoneInv'
  BY <1>16 DEF Raise, Fault, Stop, Forget, NoResult
<1>17. ASSUME Kill PROVE DoneInv'
  BY <1>17 DEF Kill, Fault, Stop, Forget, NoResult
<1>18. ASSUME Resubmit PROVE DoneInv'
  BY <1>18 DEF Resubmit
<1>19. ASSUME UNCHANGED vars PROVE DoneInv'
  BY <1>19 DEF vars
<1>20. QED
  BY <1>1, <1>2, <1>3, <1>4, <1>5, <1>6, <1>7, <1>8, <1>9, <1>10, <1>11, <1>12, <1>13,
     <1>14, <1>15, <1>16, <1>17, <1>18, <1>19 DEF Next, Work, Run

(* A set of calls has a fix if one of them is.                             *)
LEMMA FixIsOne ==
  \A s : has_successful_remediation(s) <=> \E c \in s : has_successful_remediation({c})
  BY DEF has_successful_remediation

(* What a conclusion makes of the calls.                                   *)
LEMMA Conclusion ==
  ASSUME NEW g \in BOOLEAN, ConcludeWith(g)
  PROVE  /\ result'.resolved =>
              g /\ (has_successful_remediation(actions) \/ has_suggestions(actions))
         /\ pc' = IF has_successful_remediation(actions) THEN "verify" ELSE "conclude"
<1> DEFINE r == g /\ (has_successful_remediation(actions) \/ has_suggestions(actions))
<1>1. result' = [[NoResult EXCEPT !.resolved = r] EXCEPT !.grounded = g]
  BY DEF ConcludeWith
<1>2. result'.resolved = r
  <2> HIDE DEF r
  <2> QED
    BY <1>1 DEF NoResult
<1>3. QED
  BY <1>2 DEF ConcludeWith

(* Grounded is a truth value, and needs evidence if the type does.         *)
LEMMA Grounded ==
  \A t : /\ validate_resolution(actions, t) \in BOOLEAN
         /\ validate_resolution(actions, t) /\ needs => has_tool_evidence(actions)
  BY Zenon DEF validate_resolution

(* Whatever is not resolved is a reason to escalate, and so is an error.   *)
LEMMA Reasons ==
  /\ \A e, d : ~result.resolved => evaluate(e, d) # {}
  /\ \A d : evaluate(TRUE, d) # {}
<1>1. \A e, d : ~result.resolved => "unresolved" \in evaluate(e, d)
  BY DEF evaluate
<1>2. \A d : "agent_error" \in evaluate(TRUE, d)
  BY DEF evaluate
<1>3. QED
  BY <1>1, <1>2

(* What is called resolved is supported.                                   *)
LEMMA StepResolved ==
  TypeOK /\ MemoryInv /\ DoneInv /\ ResolvedIsSupported /\ [Next]_vars => ResolvedIsSupported'
<1> SUFFICES ASSUME TypeOK, MemoryInv, DoneInv, ResolvedIsSupported, [Next]_vars PROVE ResolvedIsSupported'
  OBVIOUS
<1> USE CallAssumption
        DEF TypeOK, MemoryInv, DoneInv, ResolvedIsSupported, NoCheckpoint, RunPoint, Point,
            ErrorPoint, Looping, Concluded, Ending, Progress, Judgement, At, store, memory,
            history, bounds
<1>1. ASSUME Begin PROVE ResolvedIsSupported'
  BY <1>1 DEF Begin
<1>2. ASSUME load_checkpoint PROVE ResolvedIsSupported'
  BY <1>2 DEF load_checkpoint, Loop
<1>3. ASSUME _collect_context PROVE ResolvedIsSupported'
  BY <1>3 DEF _collect_context, Loop
<1>4. ASSUME _call_claude PROVE ResolvedIsSupported'
  BY <1>4 DEF _call_claude
<1>5. ASSUME _execute_tool PROVE ResolvedIsSupported'
  BY <1>5 DEF _execute_tool
<1>6. ASSUME save_log PROVE ResolvedIsSupported'
  BY <1>6 DEF save_log
<1>7. ASSUME save_checkpoint PROVE ResolvedIsSupported'
  BY <1>7 DEF save_checkpoint, Save, Loop
<1>8. ASSUME end_turn PROVE ResolvedIsSupported'
  <2>1. UNCHANGED <<needs, actions, done>>
    BY <1>8 DEF end_turn
  <2>2. CASE Remind
    BY <2>1, <2>2 DEF Remind
  <2>3. ASSUME NEW t, ConcludeWith(validate_resolution(actions, t)), result'.resolved
        PROVE ResolvedIsSupported'
    <3>1. /\ needs => has_tool_evidence(actions)
          /\ has_successful_remediation(actions) \/ has_suggestions(actions)
      BY <2>3, Conclusion, Grounded
    <3>2. needs => \E c \in actions : c.tool \in EVIDENCE_TOOLS /\ c.outcome \notin {"error", "blocked"}
      BY <3>1 DEF has_tool_evidence
    <3>3. \E c \in actions : c.tool \in REMEDIATION_TOOLS \cup SUGGESTION_TOOLS /\ c.outcome = "ok"
      BY <3>1 DEF has_successful_remediation, has_suggestions
    <3>4. QED
      BY <2>1, <3>2, <3>3
  <2>4. QED
    BY <1>8, <2>2, <2>3 DEF end_turn
<1>9. ASSUME verify_fix PROVE ResolvedIsSupported'
  BY <1>9 DEF verify_fix
<1>10. ASSUME save_conversation PROVE ResolvedIsSupported'
  BY <1>10 DEF save_conversation
<1>11. ASSUME delete_checkpoint PROVE ResolvedIsSupported'
  BY <1>11 DEF delete_checkpoint
<1>12. ASSUME give_up PROVE ResolvedIsSupported'
  BY <1>12 DEF give_up, Save, GaveUp, NoResult
<1>13. ASSUME process_incident PROVE ResolvedIsSupported'
  BY <1>13 DEF process_incident, escalate, save_audit, mark, _delete_processing,
     Outcome_of_result
<1>14. ASSUME handle_error PROVE ResolvedIsSupported'
  BY <1>14 DEF handle_error, escalate, save_audit, mark, _delete_processing
<1>15. ASSUME End PROVE ResolvedIsSupported'
  BY <1>15 DEF End, Stop, Forget, NoResult
<1>16. ASSUME Raise PROVE ResolvedIsSupported'
  BY <1>16 DEF Raise, Fault, Stop, Forget, NoResult
<1>17. ASSUME Kill PROVE ResolvedIsSupported'
  BY <1>17 DEF Kill, Fault, Stop, Forget, NoResult
<1>18. ASSUME Resubmit PROVE ResolvedIsSupported'
  BY <1>18 DEF Resubmit
<1>19. ASSUME UNCHANGED vars PROVE ResolvedIsSupported'
  BY <1>19 DEF vars
<1>20. QED
  BY <1>1, <1>2, <1>3, <1>4, <1>5, <1>6, <1>7, <1>8, <1>9, <1>10, <1>11, <1>12, <1>13,
     <1>14, <1>15, <1>16, <1>17, <1>18, <1>19 DEF Next, Work, Run

(* A fix that is remembered is verified.                                   *)
LEMMA StepFix ==
  TypeOK /\ MemoryInv /\ DoneInv /\ FixIsVerified /\ [Next]_vars => FixIsVerified'
<1> SUFFICES ASSUME TypeOK, MemoryInv, DoneInv, FixIsVerified, [Next]_vars PROVE FixIsVerified'
  OBVIOUS
<1> USE CallAssumption
        DEF TypeOK, MemoryInv, DoneInv, FixIsVerified, NoCheckpoint, RunPoint, Point,
            ErrorPoint, Looping, Concluded, Ending, Progress, Judgement, At, store, memory,
            history, bounds
<1>1. ASSUME Begin PROVE FixIsVerified'
  BY <1>1 DEF Begin
<1>2. ASSUME load_checkpoint PROVE FixIsVerified'
  BY <1>2 DEF load_checkpoint, Loop
<1>3. ASSUME _collect_context PROVE FixIsVerified'
  BY <1>3 DEF _collect_context, Loop
<1>4. ASSUME _call_claude PROVE FixIsVerified'
  BY <1>4 DEF _call_claude
<1>5. ASSUME _execute_tool PROVE FixIsVerified'
  BY <1>5 DEF _execute_tool
<1>6. ASSUME save_log PROVE FixIsVerified'
  BY <1>6 DEF save_log
<1>7. ASSUME save_checkpoint PROVE FixIsVerified'
  BY <1>7 DEF save_checkpoint, Save, Loop
<1>8. ASSUME end_turn PROVE FixIsVerified'
  <2>1. UNCHANGED <<actions, done, unproved>>
    BY <1>8 DEF end_turn
  <2>2. CASE Remind
    BY <1>8, <2>2 DEF Remind, end_turn
  <2>3. ASSUME NEW t, ConcludeWith(validate_resolution(actions, t))
        PROVE FixIsVerified'
    <3>1. pc' = IF has_successful_remediation(actions) THEN "verify" ELSE "conclude"
      BY <2>3, Conclusion, Grounded
    <3>2. CASE has_successful_remediation(actions)
      BY <3>1, <3>2
    <3>3. ASSUME ~has_successful_remediation(actions), unproved,
                 \A c \in done : has_successful_remediation({c}) => c \in actions
          PROVE FALSE
      BY <3>3, FixIsOne
    <3>4. QED
      BY <2>1, <3>2, <3>3
  <2>4. QED
    BY <1>8, <2>2, <2>3 DEF end_turn
<1>9. ASSUME verify_fix PROVE FixIsVerified'
  BY <1>9 DEF verify_fix
<1>10. ASSUME save_conversation PROVE FixIsVerified'
  BY <1>10 DEF save_conversation
<1>11. ASSUME delete_checkpoint PROVE FixIsVerified'
  BY <1>11 DEF delete_checkpoint
<1>12. ASSUME give_up PROVE FixIsVerified'
  BY <1>12 DEF give_up, Save, GaveUp, NoResult
<1>13. ASSUME process_incident PROVE FixIsVerified'
  BY <1>13 DEF process_incident, escalate, save_audit, mark, _delete_processing,
     Outcome_of_result
<1>14. ASSUME handle_error PROVE FixIsVerified'
  BY <1>14 DEF handle_error, escalate, save_audit, mark, _delete_processing
<1>15. ASSUME End PROVE FixIsVerified'
  BY <1>15 DEF End, Stop, Forget, NoResult
<1>16. ASSUME Raise PROVE FixIsVerified'
  BY <1>16 DEF Raise, Fault, Stop, Forget, NoResult
<1>17. ASSUME Kill PROVE FixIsVerified'
  BY <1>17 DEF Kill, Fault, Stop, Forget, NoResult
<1>18. ASSUME Resubmit PROVE FixIsVerified'
  BY <1>18 DEF Resubmit
<1>19. ASSUME UNCHANGED vars PROVE FixIsVerified'
  BY <1>19 DEF vars
<1>20. QED
  BY <1>1, <1>2, <1>3, <1>4, <1>5, <1>6, <1>7, <1>8, <1>9, <1>10, <1>11, <1>12, <1>13,
     <1>14, <1>15, <1>16, <1>17, <1>18, <1>19 DEF Next, Work, Run

(* The checkpoint keeps up.                                                *)
LEMMA StepCheckpoint ==
  TypeOK /\ MemoryInv /\ CheckpointInv /\ [Next]_vars => CheckpointInv'
<1> SUFFICES ASSUME TypeOK, MemoryInv, CheckpointInv, [Next]_vars PROVE CheckpointInv'
  OBVIOUS
<1> USE BoundAssumption
        DEF TypeOK, MemoryInv, CheckpointInv, NoCheckpoint, RunPoint, Point, ErrorPoint,
            Looping, Concluded, Ending, Progress, Judgement, At, store, memory, history,
            bounds
<1>1. ASSUME Begin PROVE CheckpointInv'
  BY <1>1 DEF Begin
<1>2. ASSUME load_checkpoint PROVE CheckpointInv'
  BY <1>2 DEF load_checkpoint, Loop
<1>3. ASSUME _collect_context PROVE CheckpointInv'
  BY <1>3 DEF _collect_context, Loop
<1>4. ASSUME _call_claude PROVE CheckpointInv'
  BY <1>4 DEF _call_claude
<1>5. ASSUME _execute_tool PROVE CheckpointInv'
  BY <1>5 DEF _execute_tool
<1>6. ASSUME save_log PROVE CheckpointInv'
  BY <1>6 DEF save_log
<1>7. ASSUME save_checkpoint PROVE CheckpointInv'
  BY <1>7 DEF save_checkpoint, Save, Loop
<1>8. ASSUME end_turn PROVE CheckpointInv'
  BY <1>8 DEF end_turn, Remind, ConcludeWith, NoResult
<1>9. ASSUME verify_fix PROVE CheckpointInv'
  BY <1>9 DEF verify_fix
<1>10. ASSUME save_conversation PROVE CheckpointInv'
  BY <1>10 DEF save_conversation
<1>11. ASSUME delete_checkpoint PROVE CheckpointInv'
  BY <1>11 DEF delete_checkpoint
<1>12. ASSUME give_up PROVE CheckpointInv'
  BY <1>12 DEF give_up, Save, GaveUp, NoResult
<1>13. ASSUME process_incident PROVE CheckpointInv'
  BY <1>13 DEF process_incident, escalate, save_audit, mark, _delete_processing,
     Outcome_of_result
<1>14. ASSUME handle_error PROVE CheckpointInv'
  BY <1>14 DEF handle_error, escalate, save_audit, mark, _delete_processing
<1>15. ASSUME End PROVE CheckpointInv'
  BY <1>15 DEF End, Stop, Forget, NoResult
<1>16. ASSUME Raise PROVE CheckpointInv'
  BY <1>16 DEF Raise, Fault, Stop, Forget, NoResult
<1>17. ASSUME Kill PROVE CheckpointInv'
  BY <1>17 DEF Kill, Fault, Stop, Forget, NoResult
<1>18. ASSUME Resubmit PROVE CheckpointInv'
  BY <1>18 DEF Resubmit
<1>19. ASSUME UNCHANGED vars PROVE CheckpointInv'
  BY <1>19 DEF vars
<1>20. QED
  BY <1>1, <1>2, <1>3, <1>4, <1>5, <1>6, <1>7, <1>8, <1>9, <1>10, <1>11, <1>12, <1>13,
     <1>14, <1>15, <1>16, <1>17, <1>18, <1>19 DEF Next, Work, Run

(* The calls of the model are counted.                                     *)
LEMMA StepBudgetInv ==
  TypeOK /\ MemoryInv /\ CheckpointInv /\ BudgetInv /\ [Next]_vars => BudgetInv'
<1> SUFFICES ASSUME TypeOK, MemoryInv, CheckpointInv, BudgetInv, [Next]_vars PROVE BudgetInv'
  OBVIOUS
<1> USE BoundAssumption
        DEF TypeOK, MemoryInv, CheckpointInv, BudgetInv, StepBudget, NoCheckpoint, RunPoint,
            Point, ErrorPoint, Looping, Concluded, Ending, Progress, Judgement, At, store,
            memory, history, bounds
<1>1. ASSUME Begin PROVE BudgetInv'
  BY <1>1 DEF Begin
<1>2. ASSUME load_checkpoint PROVE BudgetInv'
  BY <1>2 DEF load_checkpoint, Loop
<1>3. ASSUME _collect_context PROVE BudgetInv'
  BY <1>3 DEF _collect_context, Loop
<1>4. ASSUME _call_claude PROVE BudgetInv'
  BY <1>4 DEF _call_claude
<1>5. ASSUME _execute_tool PROVE BudgetInv'
  BY <1>5 DEF _execute_tool
<1>6. ASSUME save_log PROVE BudgetInv'
  BY <1>6 DEF save_log
<1>7. ASSUME save_checkpoint PROVE BudgetInv'
  BY <1>7 DEF save_checkpoint, Save, Loop
<1>8. ASSUME end_turn PROVE BudgetInv'
  BY <1>8 DEF end_turn, Remind, ConcludeWith, NoResult
<1>9. ASSUME verify_fix PROVE BudgetInv'
  BY <1>9 DEF verify_fix
<1>10. ASSUME save_conversation PROVE BudgetInv'
  BY <1>10 DEF save_conversation
<1>11. ASSUME delete_checkpoint PROVE BudgetInv'
  BY <1>11 DEF delete_checkpoint
<1>12. ASSUME give_up PROVE BudgetInv'
  BY <1>12 DEF give_up, Save, GaveUp, NoResult
<1>13. ASSUME process_incident PROVE BudgetInv'
  BY <1>13 DEF process_incident, escalate, save_audit, mark, _delete_processing,
     Outcome_of_result
<1>14. ASSUME handle_error PROVE BudgetInv'
  BY <1>14 DEF handle_error, escalate, save_audit, mark, _delete_processing
<1>15. ASSUME End PROVE BudgetInv'
  BY <1>15 DEF End, Stop, Forget, NoResult
<1>16. ASSUME Raise PROVE BudgetInv'
  BY <1>16 DEF Raise, Fault, Stop, Forget, NoResult
<1>17. ASSUME Kill PROVE BudgetInv'
  BY <1>17 DEF Kill, Fault, Stop, Forget, NoResult
<1>18. ASSUME Resubmit PROVE BudgetInv'
  BY <1>18 DEF Resubmit
<1>19. ASSUME UNCHANGED vars PROVE BudgetInv'
  BY <1>19 DEF vars
<1>20. QED
  BY <1>1, <1>2, <1>3, <1>4, <1>5, <1>6, <1>7, <1>8, <1>9, <1>10, <1>11, <1>12, <1>13,
     <1>14, <1>15, <1>16, <1>17, <1>18, <1>19 DEF Next, Work, Run

(* Tool calls have their results.                                          *)
LEMMA StepAnswer ==
  TypeOK /\ AnswerInv /\ [Next]_vars => AnswerInv'
<1> SUFFICES ASSUME TypeOK, AnswerInv, [Next]_vars PROVE AnswerInv'
  OBVIOUS
<1> USE BoundAssumption
        DEF TypeOK, AnswerInv, NoCheckpoint, RunPoint, Point, ErrorPoint, Looping,
            Concluded, Ending, Progress, Judgement, At, store, memory, history, bounds
<1>1. ASSUME Begin PROVE AnswerInv'
  BY <1>1 DEF Begin
<1>2. ASSUME load_checkpoint PROVE AnswerInv'
  BY <1>2 DEF load_checkpoint, Loop
<1>3. ASSUME _collect_context PROVE AnswerInv'
  BY <1>3 DEF _collect_context, Loop
<1>4. ASSUME _call_claude PROVE AnswerInv'
  BY <1>4 DEF _call_claude
<1>5. ASSUME _execute_tool PROVE AnswerInv'
  BY <1>5 DEF _execute_tool
<1>6. ASSUME save_log PROVE AnswerInv'
  BY <1>6 DEF save_log
<1>7. ASSUME save_checkpoint PROVE AnswerInv'
  BY <1>7 DEF save_checkpoint, Save, Loop
<1>8. ASSUME end_turn PROVE AnswerInv'
  BY <1>8 DEF end_turn, Remind, ConcludeWith, NoResult
<1>9. ASSUME verify_fix PROVE AnswerInv'
  BY <1>9 DEF verify_fix
<1>10. ASSUME save_conversation PROVE AnswerInv'
  BY <1>10 DEF save_conversation
<1>11. ASSUME delete_checkpoint PROVE AnswerInv'
  BY <1>11 DEF delete_checkpoint
<1>12. ASSUME give_up PROVE AnswerInv'
  BY <1>12 DEF give_up, Save, GaveUp, NoResult
<1>13. ASSUME process_incident PROVE AnswerInv'
  BY <1>13 DEF process_incident, escalate, save_audit, mark, _delete_processing,
     Outcome_of_result
<1>14. ASSUME handle_error PROVE AnswerInv'
  BY <1>14 DEF handle_error, escalate, save_audit, mark, _delete_processing
<1>15. ASSUME End PROVE AnswerInv'
  BY <1>15 DEF End, Stop, Forget, NoResult
<1>16. ASSUME Raise PROVE AnswerInv'
  BY <1>16 DEF Raise, Fault, Stop, Forget, NoResult
<1>17. ASSUME Kill PROVE AnswerInv'
  BY <1>17 DEF Kill, Fault, Stop, Forget, NoResult
<1>18. ASSUME Resubmit PROVE AnswerInv'
  BY <1>18 DEF Resubmit
<1>19. ASSUME UNCHANGED vars PROVE AnswerInv'
  BY <1>19 DEF vars
<1>20. QED
  BY <1>1, <1>2, <1>3, <1>4, <1>5, <1>6, <1>7, <1>8, <1>9, <1>10, <1>11, <1>12, <1>13,
     <1>14, <1>15, <1>16, <1>17, <1>18, <1>19 DEF Next, Work, Run

(* People are told.                                                        *)
LEMMA StepTold ==
  TypeOK /\ ToldInv /\ [Next]_vars => ToldInv'
<1> SUFFICES ASSUME TypeOK, ToldInv, [Next]_vars PROVE ToldInv'
  OBVIOUS
<1> USE BoundAssumption
        DEF TypeOK, ToldInv, NoCheckpoint, Outcome_of_result, RunPoint, Point, ErrorPoint,
            Looping, Concluded, Ending, Progress, Judgement, At, store, memory, history,
            bounds
<1>1. ASSUME Begin PROVE ToldInv'
  BY <1>1 DEF Begin
<1>2. ASSUME load_checkpoint PROVE ToldInv'
  BY <1>2 DEF load_checkpoint, Loop
<1>3. ASSUME _collect_context PROVE ToldInv'
  BY <1>3 DEF _collect_context, Loop
<1>4. ASSUME _call_claude PROVE ToldInv'
  BY <1>4 DEF _call_claude
<1>5. ASSUME _execute_tool PROVE ToldInv'
  BY <1>5 DEF _execute_tool
<1>6. ASSUME save_log PROVE ToldInv'
  BY <1>6 DEF save_log
<1>7. ASSUME save_checkpoint PROVE ToldInv'
  BY <1>7 DEF save_checkpoint, Save, Loop
<1>8. ASSUME end_turn PROVE ToldInv'
  BY <1>8 DEF end_turn, Remind, ConcludeWith, NoResult
<1>9. ASSUME verify_fix PROVE ToldInv'
  BY <1>9 DEF verify_fix
<1>10. ASSUME save_conversation PROVE ToldInv'
  BY <1>10 DEF save_conversation
<1>11. ASSUME delete_checkpoint PROVE ToldInv'
  BY <1>11 DEF delete_checkpoint
<1>12. ASSUME give_up PROVE ToldInv'
  BY <1>12 DEF give_up, Save, GaveUp, NoResult
<1>13. ASSUME process_incident PROVE ToldInv'
  <2>1. CASE escalate("escalate", FALSE, "audit")
    <3>1. pc' = "audit" /\ UNCHANGED result /\ (told' \/ result.resolved)
      BY <2>1, Reasons DEF escalate
    <3>2. QED
      BY <3>1
  <2>2. CASE save_audit("audit", Outcome_of_result, "mark")
    BY <2>2 DEF save_audit
  <2>3. CASE mark("mark", Outcome_of_result, "settle")
    BY <2>3 DEF mark
  <2>4. CASE _delete_processing("settle", "notify")
    BY <2>4 DEF _delete_processing
  <2>5. QED
    BY <1>13, <2>1, <2>2, <2>3, <2>4 DEF process_incident
<1>14. ASSUME handle_error PROVE ToldInv'
  <2>1. CASE escalate("error", TRUE, "fail")
    <3>1. pc' = "fail" /\ told'
      BY <2>1, Reasons DEF escalate
    <3>2. QED
      BY <3>1
  <2>2. CASE mark("fail", "failed", "settleFailed")
    BY <2>2 DEF mark
  <2>3. CASE _delete_processing("settleFailed", "notifyError")
    BY <2>3 DEF _delete_processing
  <2>4. CASE save_audit("auditError", "failed", "end")
    BY <2>4 DEF save_audit
  <2>5. QED
    BY <1>14, <2>1, <2>2, <2>3, <2>4 DEF handle_error
<1>15. ASSUME End PROVE ToldInv'
  BY <1>15 DEF End, Stop, Forget, NoResult
<1>16. ASSUME Raise PROVE ToldInv'
  BY <1>16 DEF Raise, Fault, Stop, Forget, NoResult
<1>17. ASSUME Kill PROVE ToldInv'
  BY <1>17 DEF Kill, Fault, Stop, Forget, NoResult
<1>18. ASSUME Resubmit PROVE ToldInv'
  BY <1>18 DEF Resubmit
<1>19. ASSUME UNCHANGED vars PROVE ToldInv'
  BY <1>19 DEF vars
<1>20. QED
  BY <1>1, <1>2, <1>3, <1>4, <1>5, <1>6, <1>7, <1>8, <1>9, <1>10, <1>11, <1>12, <1>13,
     <1>14, <1>15, <1>16, <1>17, <1>18, <1>19 DEF Next, Work, Run

-----------------------------------------------------------------------------
(* The invariant.                                                          *)

(* Initially it holds.                                                     *)
LEMMA InitInv == Init => AgentInv
<1> SUFFICES ASSUME Init PROVE AgentInv
  OBVIOUS
<1>1. TypeOK
  BY InitTypeOK
<1>2. MemoryInv /\ DoneInv /\ AnswerInv /\ ToldInv
  BY DEF Init, MemoryInv, DoneInv, AnswerInv, ToldInv, NoCheckpoint, NoResult
<1>3. ResolvedIsSupported /\ FixIsVerified
  BY DEF Init, ResolvedIsSupported, FixIsVerified, NoResult
<1>4. CheckpointInv /\ BudgetInv
  BY BoundAssumption DEF Init, CheckpointInv, BudgetInv, StepBudget, Looping, RunPoint,
     NoCheckpoint
<1>5. QED
  BY <1>1, <1>2, <1>3, <1>4 DEF AgentInv

(* Each step keeps it.                                                     *)
LEMMA StepInv == AgentInv /\ [Next]_vars => AgentInv'
  BY StepTypeOK, StepMemoryInv, StepDone, StepResolved, StepFix, StepCheckpoint,
     StepBudgetInv,
     StepAnswer, StepTold
  DEF AgentInv

(* So it holds always.                                                     *)
THEOREM AgentInvAlways == Spec => []AgentInv
  BY InitInv, StepInv, PTL DEF Spec

-----------------------------------------------------------------------------
(* The properties, for every set of tools and calls, and every bound.      *)

(* Every variable keeps its type, so steps and reminders their bounds.     *)
THEOREM TypeCorrect == Spec => []TypeOK
<1>1. AgentInv => TypeOK
  BY DEF AgentInv
<1>2. QED
  BY <1>1, AgentInvAlways, PTL

(* An incident is called resolved only on calls that were really made and  *)
(* ended well, however often its run was cut short and resumed.            *)
THEOREM ResolvedIsSupportedAlways == Spec => []ResolvedIsSupported
<1>1. AgentInv => ResolvedIsSupported
  BY DEF AgentInv
<1>2. QED
  BY <1>1, AgentInvAlways, PTL

(* A run that says resolved has verified every fix, if it remembers all.   *)
THEOREM FixIsVerifiedAlways == Spec => []FixIsVerified
<1>1. AgentInv => FixIsVerified
  BY DEF AgentInv
<1>2. QED
  BY <1>1, AgentInvAlways, PTL

(* The model is called max_steps times, and once for each kill or error.   *)
THEOREM StepBudgetAlways == Spec => []StepBudget
<1>1. AgentInv => StepBudget
  BY DEF AgentInv, BudgetInv
<1>2. QED
  BY <1>1, AgentInvAlways, PTL

(* The model is never called with tool calls left without results.         *)
THEOREM CallsAreAnsweredAlways == Spec => []CallsAreAnswered
<1>1. AgentInv => CallsAreAnswered
  BY DEF AgentInv, AnswerInv, CallsAreAnswered
<1>2. QED
  BY <1>1, AgentInvAlways, PTL

(* What may happen to the checkpoint and to the verdict in a step.         *)
LEMMA StoreSteps ==
  [Next]_vars =>
    /\ save_checkpoint \/ give_up \/ checkpoint' \in {checkpoint, NoCheckpoint}
    /\ \/ mark("mark", Outcome_of_result, "settle") \/ mark("fail", "failed", "settleFailed")
       \/ verdict' = verdict
<1> SUFFICES ASSUME [Next]_vars
             PROVE  /\ save_checkpoint \/ give_up \/ checkpoint' \in {checkpoint, NoCheckpoint}
                    /\ \/ mark("mark", Outcome_of_result, "settle")
                       \/ mark("fail", "failed", "settleFailed")
                       \/ verdict' = verdict
  OBVIOUS
<1>1. CASE Run
  BY <1>1 DEF Run, Begin, load_checkpoint, _collect_context, _call_claude, _execute_tool,
     save_log,
              save_checkpoint, end_turn, verify_fix, save_conversation, delete_checkpoint, give_up,
              Save, store
<1>2. CASE process_incident \/ handle_error
  BY <1>2, WorkerKeeps DEF process_incident, handle_error, escalate, save_audit,
     _delete_processing, store
<1>3. CASE End \/ Raise \/ Kill \/ Resubmit
  BY <1>3 DEF End, Raise, Kill, Resubmit, Fault, store
<1>4. CASE UNCHANGED vars
  BY <1>4 DEF vars, store
<1>5. QED
  BY <1>1, <1>2, <1>3, <1>4 DEF Next, Work

(* A checkpoint is replaced only by one with no fewer steps and calls.     *)
THEOREM ProgressKeptAlways == Spec => ProgressKept
<1>1. ASSUME AgentInv, [Next]_vars
      PROVE  [checkpoint # NoCheckpoint /\ checkpoint' # NoCheckpoint =>
                /\ checkpoint.steps <= checkpoint'.steps
                /\ checkpoint.actions \subseteq checkpoint'.actions]_vars
  <2>1. CASE save_checkpoint \/ give_up
    <3>1. pc \in Looping /\ checkpoint' = [steps |-> steps, actions |-> actions, last |-> last]
      BY <2>1 DEF save_checkpoint, give_up, Save, At, Looping, RunPoint
    <3>2. QED
      BY <1>1, <3>1 DEF AgentInv, CheckpointInv
  <2>2. CASE checkpoint' \in {checkpoint, NoCheckpoint}
    BY <1>1, <2>2 DEF AgentInv, TypeOK, Progress
  <2>3. QED
    BY <1>1, <2>1, <2>2, StoreSteps
<1>2. QED
  BY <1>1, AgentInvAlways, PTL DEF Spec, ProgressKept

(* People are told, and the audit entry is there, before a verdict is.     *)
THEOREM SettledIsToldAlways == Spec => SettledIsTold
<1>1. ASSUME AgentInv, [Next]_vars
      PROVE  [verdict' # verdict =>
                /\ verdict' # "resolved" => told
                /\ verdict' # "failed" => audit = verdict']_vars
  <2>1. CASE mark("mark", Outcome_of_result, "settle")
    BY <1>1, <2>1 DEF mark, At, AgentInv, ToldInv, Outcome_of_result
  <2>2. CASE mark("fail", "failed", "settleFailed")
    BY <1>1, <2>2 DEF mark, At, AgentInv, ToldInv
  <2>3. QED
    BY <1>1, <2>1, <2>2, StoreSteps
<1>2. QED
  BY <1>1, AgentInvAlways, PTL DEF Spec, SettledIsTold
=============================================================================
