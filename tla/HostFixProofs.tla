--------------------------- MODULE HostFixProofs ---------------------------
(***************************************************************************)
(* Proofs of what HostFixProps claims, for any number of calls, any        *)
(* contents and any length of the monitoring.                              *)
(***************************************************************************)
EXTENDS HostFixProps, TLAPS

(* How far a call has come says what is on the disk, if it was left alone. *)
Alone(w) ==
  /\ at[w] \in {"copy", "write"} => file = found[w]
  /\ at[w] \in {"write", "test", "undoTest"} /\ found[w] # Absent => backup = found[w]
  /\ at[w] # "undoWrite"
  /\ at[w] = "restored" /\ found[w] # Absent => file = found[w]
  /\ at[w] = "test" => file = w
  /\ at[w] \in {"diagnose", "reload", "restart", "success"} /\ Writes(w) => file = w
  /\ at[w] = "restart" => file \in Sound
  /\ at[w] = "success" => serving = file

(* Only tools that write come to the commands that do, and none to a       *)
(* restart before nginx -t has accepted a file for it.                     *)
Route(w) ==
  /\ accepted[w] \subseteq Sound
  /\ at[w] = "restart" => accepted[w] # {}
  /\ at[w] \in {"copy", "write", "undoWrite", "test", "undoTest"} => Writes(w)

LateInv == \A l \in late :
  l.by \in hindered /\ (l.command = "restart" => accepted[l.by] # {})

VerifyInv ==
  /\ seenDown <= failures
  /\ phase # "none" => at[Fixer] = "success"
  /\ verdict = "success" => phase = "over" /\ 10 * (checks - failures) >= 9 * checks

CallInv == \A w \in Worker : Route(w) /\ (w \notin hindered => Alone(w))

IInv == TypeOK /\ CallInv /\ LateInv /\ VerifyInv

LEMMA InitTypeOK == Init => TypeOK
  BY SoundAssumption DEF Init, TypeOK, Content, Point

(* The host stays a host.                                                  *)
LEMMA DoTypes ==
  ASSUME TypeOK, NEW w \in Worker, NEW command, Do(command, w),
         command \in {"copy", "write", "restore", "reload", "restart", "test"}
  PROVE  file' \in Content /\ backup' \in Content /\ serving' \in Content /\ up' \in BOOLEAN
<1> USE DEF TypeOK
<1>1. w \in Content
  BY DEF Content
<1>2. CASE command = "copy"
  BY <1>2 DEF Do
<1>3. CASE command = "write"
  BY <1>1, <1>3 DEF Do
<1>4. CASE command = "restore"
  BY <1>4 DEF Do, Content
<1>5. CASE command = "reload"
  BY <1>5 DEF Do
<1>6. CASE command = "restart"
  BY <1>6 DEF Do
<1>7. CASE command = "test"
  BY <1>7 DEF Do, nginx
<1> QED
  BY <1>2, <1>3, <1>4, <1>5, <1>6, <1>7

(* A call that has begun and is not over is about to give a command.       *)
LEMMA Pending ==
  ASSUME TypeOK, NEW w \in Worker, Begun(w), ~Over(w)
  PROVE  /\ at[w] \in {"copy", "write", "undoWrite", "test", "undoTest", "reload",
                       "diagnose", "restart"}
         /\ CommandAt(at[w]) \in {"copy", "write", "restore", "reload", "restart", "test"}
  BY DEF TypeOK, Begun, Over, Point, CommandAt

LEMMA ThenTypes ==
  ASSUME TypeOK, NEW w \in Worker, Begun(w), ~Over(w), NEW ok
  PROVE  Then(w, ok) \in Point
  BY Pending DEF Then, Point, Answer

LEMMA StepTypeOK == TypeOK /\ [Next]_vars => TypeOK'
<1> SUFFICES ASSUME TypeOK, [Next]_vars PROVE TypeOK'
  OBVIOUS
<1>1. ASSUME NEW w \in Worker, Begin(w) PROVE TypeOK'
  BY <1>1 DEF Begin, Goto, TypeOK, nginx, verify, Point
<1>2. ASSUME NEW w \in Worker, Run(w) PROVE TypeOK'
  <2>1. Then(w, Succeeds(CommandAt(at[w]))) \in Point
    BY <1>2, ThenTypes DEF Run
  <2>2. file' \in Content /\ backup' \in Content /\ serving' \in Content /\ up' \in BOOLEAN
    BY <1>2, Pending, DoTypes DEF Run
  <2> QED
    BY <1>2, <2>1, <2>2 DEF Run, Goto, Crossed, TypeOK, verify
<1>3. ASSUME NEW w \in Worker, Lose(w) PROVE TypeOK'
  <2>1. Then(w, FALSE) \in Point
    BY <1>3, ThenTypes DEF Lose
  <2>2. file' \in Content /\ backup' \in Content /\ serving' \in Content /\ up' \in BOOLEAN
    <3>1. CASE UNCHANGED nginx
      BY <3>1 DEF nginx, TypeOK
    <3> QED
      BY <1>3, <3>1, Pending, DoTypes DEF Lose
  <2> QED
    BY <1>3, <2>1, <2>2 DEF Lose, Goto, Crossed, TypeOK, verify
<1>4. ASSUME NEW w \in Worker, GiveUp(w) PROVE TypeOK'
  <2>1. Then(w, FALSE) \in Point
    BY <1>4, ThenTypes DEF GiveUp
  <2>2. CommandAt(at[w]) \in {"copy", "write", "restore", "reload", "restart"}
    BY <1>4, Pending DEF GiveUp
  <2>3. [by |-> w, command |-> CommandAt(at[w])]
          \in [by : Worker, command : {"copy", "write", "restore", "reload", "restart"}]
    BY <2>2
  <2>4. late' \subseteq [by : Worker, command : {"copy", "write", "restore", "reload", "restart"}]
    BY <1>4, <2>3 DEF GiveUp, TypeOK
  <2> QED
    BY <1>4, <2>1, <2>4 DEF GiveUp, Goto, TypeOK, nginx, verify
<1>5. ASSUME NEW l \in late, Arrive(l) PROVE TypeOK'
  <2>1. l.by \in Worker /\ l.command \in {"copy", "write", "restore", "reload", "restart"}
    BY DEF TypeOK
  <2>2. file' \in Content /\ backup' \in Content /\ serving' \in Content /\ up' \in BOOLEAN
    BY <1>5, <2>1, DoTypes DEF Arrive
  <2> QED
    BY <1>5, <2>1, <2>2 DEF Arrive, Crossed, TypeOK, verify
<1>6. CASE Fall
  BY <1>6 DEF Fall, TypeOK, calls, verify
<1>7. CASE Rise
  BY <1>7 DEF Rise, TypeOK, calls, verify
<1>8. CASE Immediate
  BY <1>8 DEF Immediate, TypeOK, nginx, calls
<1>9. CASE Check
  <2>1. Interval \in Nat
    BY WindowAssumption DEF Interval, AtMost
  <2>2. PICK passed \in BOOLEAN, takes \in 0 .. Slow :
          /\ failures' = IF passed THEN failures ELSE failures + 1
          /\ elapsed' = elapsed + takes + (IF failures' > 2 THEN 0 ELSE Interval)
    BY <1>9 DEF Check
  <2>3. elapsed' \in Nat
    BY <2>1, <2>2, WindowAssumption DEF TypeOK
  <2>4. checks' \in Nat /\ failures' \in 0 .. checks' /\ seenDown' \in 0 .. checks'
    BY <1>9, <2>2 DEF Check, Down, TypeOK
  <2> QED
    BY <1>9, <2>3, <2>4 DEF Check, TypeOK, nginx, calls
<1>10. CASE Conclude
  BY <1>10 DEF Conclude, TypeOK, nginx, calls
<1>11. CASE UNCHANGED vars
  BY <1>11 DEF vars, nginx, calls, verify, TypeOK
<1> QED
  BY <1>1, <1>2, <1>3, <1>4, <1>5, <1>6, <1>7, <1>8, <1>9, <1>10, <1>11 DEF Next

(* Every variable keeps its type.                                          *)
THEOREM TypeCorrect == Spec => []TypeOK
  BY InitTypeOK, StepTypeOK, PTL DEF Spec

-----------------------------------------------------------------------------
LEMMA InitIInv == Init => IInv
  BY InitTypeOK DEF Init, IInv, CallInv, Route, Alone, LateInv, VerifyInv

(* An answer leads on, along the route of the tool: to a restart from a    *)
(* diagnosis that was answered well.                                       *)
LEMMA ThenRoute ==
  ASSUME TypeOK, NEW w \in Worker, Begun(w), ~Over(w), Route(w), NEW ok
  PROVE  /\ Then(w, ok) = "restart" => at[w] = "diagnose" /\ ok
         /\ Then(w, ok) \in {"copy", "write", "undoWrite", "test", "undoTest"} => Writes(w)
  BY Pending DEF TypeOK, Then, Route, Writes

LEMMA StepRoute ==
  ASSUME IInv, [Next]_vars, NEW v \in Worker
  PROVE  Route(v)'
<1> USE DEF IInv, TypeOK
<1>0. Route(v) /\ tool' = tool
  BY DEF CallInv, Next, Begin, Run, Lose, GiveUp, Arrive, Fall, Rise, Immediate, Check,
         Conclude, vars, calls
<1>1. CASE at' = at /\ accepted' = accepted
  BY <1>0, <1>1 DEF Route, Writes
<1>2. ASSUME NEW w \in Worker, Begin(w) PROVE Route(v)'
  BY <1>0, <1>2 DEF Begin, Goto, Route, Writes
<1>3. ASSUME NEW w \in Worker, Run(w) PROVE Route(v)'
  <2> DEFINE ok == Succeeds(CommandAt(at[w]))
  <2>1. at' = [at EXCEPT ![w] = Then(w, ok)] /\ Route(w)
    BY <1>3 DEF CallInv, Run, Goto
  <2>2. /\ Then(w, ok) = "restart" => at[w] = "diagnose" /\ ok
        /\ Then(w, ok) \in {"copy", "write", "undoWrite", "test", "undoTest"} => Writes(w)
    BY <1>3, <2>1, ThenRoute DEF Run
  <2>3. Then(w, ok) = "restart" => CommandAt(at[w]) = "test" /\ file \in Sound
    BY <2>2 DEF CommandAt, Succeeds
  <2>4. accepted' = IF CommandAt(at[w]) = "test" /\ file \in Sound
                    THEN [accepted EXCEPT ![w] = {file}] ELSE accepted
    BY <1>3 DEF Run
  <2>5. CASE v = w
    BY <1>0, <2>1, <2>2, <2>3, <2>4, <2>5 DEF Route, Writes
  <2>6. CASE v # w
    BY <1>0, <2>1, <2>4, <2>6 DEF Route, Writes
  <2> QED
    BY <2>5, <2>6
<1>4. ASSUME NEW w \in Worker, Lose(w) \/ GiveUp(w) PROVE Route(v)'
  <2>1. at' = [at EXCEPT ![w] = Then(w, FALSE)] /\ accepted' = accepted /\ Route(w)
    BY <1>4 DEF CallInv, Lose, GiveUp, Goto
  <2>2. /\ Then(w, FALSE) # "restart"
        /\ Then(w, FALSE) \in {"copy", "write", "undoWrite", "test", "undoTest"} => Writes(w)
    BY <1>4, <2>1, ThenRoute DEF Lose, GiveUp
  <2> QED
    BY <1>0, <2>1, <2>2 DEF Route, Writes
<1> QED
  BY <1>1, <1>2, <1>3, <1>4
     DEF Next, Arrive, Fall, Rise, Immediate, Check, Conclude, vars, calls

(* A command crosses every other call that has begun.                      *)
LEMMA Uncrossed ==
  ASSUME TypeOK, NEW w, NEW v \in Worker \ {w}, v \notin hindered',
         Crossed(w) \subseteq hindered', at'[v] = at[v]
  PROVE  Alone(v)'
<1>1. at'[v] = "idle"
  BY DEF Crossed, Begun
<1> QED
  BY <1>1 DEF Alone

(* A command that is answered, of a call left alone.                       *)
LEMMA RunAlone ==
  ASSUME TypeOK, NEW w \in Worker, Run(w), Route(w), Alone(w)
  PROVE  Alone(w)'
<1> DEFINE c == CommandAt(at[w])
<1> USE DEF TypeOK
<1>1. /\ at'[w] = Then(w, Succeeds(c)) /\ Do(c, w)
      /\ tool'[w] = tool[w] /\ found'[w] = found[w]
  BY DEF Run, Goto
<1>2. CASE at[w] = "copy"
  BY <1>1, <1>2 DEF Alone, Do, Then, CommandAt
<1>3. CASE at[w] = "write"
  BY <1>1, <1>3 DEF Alone, Do, Then, CommandAt, Succeeds
<1>4. CASE at[w] = "test"
  BY <1>1, <1>4 DEF Alone, Do, Then, CommandAt, nginx
<1>5. CASE at[w] = "undoTest"
  BY <1>1, <1>5 DEF Alone, Do, Then, CommandAt
<1>6. CASE at[w] = "diagnose"
  <2>1. UNCHANGED nginx /\ (Succeeds(c) <=> file \in Sound)
    BY <1>1, <1>6 DEF Do, CommandAt, Succeeds
  <2>2. at'[w] = IF ~Succeeds(c) THEN "failed"
                 ELSE IF Restarts(w) THEN "restart" ELSE "reload"
    BY <1>1, <1>6 DEF Then
  <2> QED
    BY <1>1, <1>6, <2>1, <2>2 DEF Alone, nginx, Writes
<1>7. CASE at[w] = "reload"
  <2>1. Succeeds(c) <=> up /\ file \in Sound
    BY <1>7 DEF CommandAt, Succeeds
  <2>2. at'[w] = IF Succeeds(c) THEN "success" ELSE "failed"
    BY <1>1, <1>7 DEF Then
  <2>3. /\ serving' = IF up /\ file \in Sound THEN file ELSE serving
        /\ UNCHANGED <<file, backup, up>>
    BY <1>1, <1>7 DEF Do, CommandAt
  <2> QED
    BY <1>1, <1>7, <2>1, <2>2, <2>3 DEF Alone, Writes
<1>8. CASE at[w] = "restart"
  <2>1. serving' = file /\ UNCHANGED <<file, backup>>
    BY <1>1, <1>8 DEF Do, CommandAt
  <2>2. at'[w] \in {"success", "failed"}
    BY <1>1, <1>8 DEF Then
  <2> QED
    BY <1>1, <1>8, <2>1, <2>2 DEF Alone, Writes
<1> QED
  BY <1>2, <1>3, <1>4, <1>5, <1>6, <1>7, <1>8, Pending DEF Run, Alone

LEMMA StepAlone ==
  ASSUME IInv, [Next]_vars, NEW v \in Worker, v \notin hindered'
  PROVE  Alone(v)'
<1> USE DEF IInv, TypeOK
<1>0. v \notin hindered /\ Alone(v) /\ Route(v)
  BY DEF CallInv, Next, Begin, Run, Lose, GiveUp, Arrive, Fall, Rise, Immediate, Check,
         Conclude, vars, calls
<1>1. ASSUME UNCHANGED <<file, backup, serving>>, at'[v] = at[v], tool' = tool, found' = found
      PROVE  Alone(v)'
  BY <1>0, <1>1 DEF Alone, Writes
<1>2. ASSUME NEW w \in Worker, Begin(w) PROVE Alone(v)'
  <2>1. CASE v = w
    BY <1>2, <2>1 DEF Begin, Goto, Alone, Writes, nginx
  <2>2. CASE v # w
    BY <1>0, <1>2, <2>2 DEF Begin, Goto, Alone, Writes, nginx
  <2> QED
    BY <2>1, <2>2
<1>3. ASSUME NEW w \in Worker, Run(w) PROVE Alone(v)'
  <2>1. CASE v = w
    BY <1>0, <1>3, <2>1, RunAlone
  <2>2. CASE v # w
    BY <1>3, <2>2, Uncrossed DEF Run, Goto
  <2> QED
    BY <2>1, <2>2
<1>4. ASSUME NEW w \in Worker, Lose(w) PROVE Alone(v)'
  BY <1>4, Uncrossed DEF Lose, Goto
<1>5. ASSUME NEW w \in Worker, GiveUp(w) PROVE Alone(v)'
  BY <1>1, <1>5 DEF GiveUp, Goto, nginx
<1>6. ASSUME NEW l \in late, Arrive(l) PROVE Alone(v)'
  <2>1. l.by \in hindered'
    BY <1>6 DEF LateInv, Arrive
  <2> QED
    BY <1>6, <2>1, Uncrossed DEF Arrive
<1>7. CASE Rise
  BY <1>0, <1>7 DEF Rise, calls, Alone, Writes
<1> QED
  BY <1>1, <1>2, <1>3, <1>4, <1>5, <1>6, <1>7
     DEF Next, Fall, Immediate, Check, Conclude, vars, nginx, calls

LEMMA StepLate == IInv /\ [Next]_vars => LateInv'
<1> SUFFICES ASSUME IInv, [Next]_vars, NEW l \in late' PROVE
      l.by \in hindered' /\ (l.command = "restart" => accepted'[l.by] # {})
  BY DEF LateInv
<1> USE DEF IInv, TypeOK
<1>0. /\ hindered \subseteq hindered'
      /\ \A w \in Worker : accepted[w] # {} => accepted'[w] # {}
  BY DEF Next, Begin, Run, Lose, GiveUp, Arrive, Fall, Rise, Immediate, Check,
         Conclude, vars, calls
<1>1. CASE l \in late
  BY <1>0, <1>1 DEF LateInv
<1>2. ASSUME NEW w \in Worker, GiveUp(w), l \notin late
      PROVE  l.by \in hindered' /\ (l.command = "restart" => accepted'[l.by] # {})
  <2>1. l = [by |-> w, command |-> CommandAt(at[w])] /\ w \in hindered'
    BY <1>2 DEF GiveUp
  <2>2. CommandAt(at[w]) = "restart" => at[w] = "restart"
    BY <1>2, Pending DEF CommandAt, GiveUp
  <2> QED
    BY <1>0, <2>1, <2>2 DEF CallInv, Route
<1> QED
  BY <1>1, <1>2 DEF Next, Begin, Run, Lose, Arrive, Fall, Rise, Immediate, Check,
         Conclude, vars, calls

(* Nothing but the verification moves it, and what it verifies is over.    *)
LEMMA StepVerify == IInv /\ [Next]_vars => VerifyInv'
<1> SUFFICES ASSUME IInv, [Next]_vars PROVE VerifyInv'
  OBVIOUS
<1> USE DEF IInv, TypeOK, VerifyInv
<1>1. ASSUME UNCHANGED verify, at'[Fixer] = at[Fixer] PROVE VerifyInv'
  BY <1>1 DEF verify
<1>2. ASSUME NEW w \in Worker, Begin(w) \/ Run(w) \/ Lose(w) \/ GiveUp(w)
      PROVE  VerifyInv'
  <2>1. UNCHANGED verify
    BY <1>2 DEF Begin, Run, Lose, GiveUp
  <2>2. at[w] # "success"
    BY <1>2 DEF Begin, Run, Lose, GiveUp, Begun, Over, Answer
  <2>3. at[Fixer] = "success" => at'[Fixer] = at[Fixer]
    BY <1>2, <2>2, FixerAssumption DEF Begin, Run, Lose, GiveUp, Goto
  <2> QED
    BY <2>1, <2>3 DEF verify
<1>3. CASE Immediate
  BY <1>3 DEF Immediate, calls
<1>4. CASE Check
  <2>1. PICK passed \in BOOLEAN :
          Observes(passed) /\ failures' = IF passed THEN failures ELSE failures + 1
    BY <1>4 DEF Check
  <2>2. seenDown' <= failures'
    BY <1>4, <2>1 DEF Check, Observes, Down
  <2>3. UNCHANGED <<phase, verdict, at>> /\ phase = "monitor"
    BY <1>4 DEF Check, calls
  <2> QED
    BY <2>2, <2>3
<1>5. CASE Conclude
  BY <1>5 DEF Conclude, calls
<1> QED
  BY <1>1, <1>2, <1>3, <1>4, <1>5 DEF Next, Arrive, Fall, Rise, vars, calls

LEMMA StepIInv == IInv /\ [Next]_vars => IInv'
<1> SUFFICES ASSUME IInv, [Next]_vars PROVE IInv'
  OBVIOUS
<1>1. \A v \in Worker : Route(v)'
  BY StepRoute
<1>2. \A v \in Worker : v \notin hindered' => Alone(v)'
  BY StepAlone
<1> QED
  BY <1>1, <1>2, StepTypeOK, StepLate, StepVerify DEF IInv, CallInv

LEMMA Invariant == Spec => []IInv
  BY InitIInv, StepIInv, PTL DEF Spec

(* What a call says it put back is back, if it was left alone.             *)
THEOREM Restored == Spec => []RestoredIfUnhindered
<1>1. IInv => RestoredIfUnhindered
  BY DEF IInv, CallInv, Alone, RestoredIfUnhindered
<1> QED
  BY <1>1, Invariant, PTL

(* A verified nginx was up at nine checks in ten, and has loaded what an   *)
(* uncrossed call left, for any contents and any length of the monitoring. *)
THEOREM Verified == Spec => []VerifiedWasUp
<1>1. ASSUME IInv, verdict = "success", host = "own" PROVE 10 * seenDown <= checks
  BY <1>1 DEF IInv, TypeOK, VerifyInv
<1>2. ASSUME IInv, verdict = "success", Fixer \notin hindered
      PROVE  serving = file /\ (Writes(Fixer) => serving = Fixer)
  <2>1. at[Fixer] = "success"
    BY <1>2 DEF IInv, VerifyInv
  <2>2. Alone(Fixer)
    BY <1>2, FixerAssumption DEF IInv, CallInv
  <2> QED
    BY <2>1, <2>2 DEF Alone, Writes
<1>3. IInv => VerifiedWasUp
  BY <1>1, <1>2 DEF VerifiedWasUp
<1> QED
  BY <1>3, Invariant, PTL

(* Only a restart takes nginx down, of a file that does not pass nginx -t. *)
LEMMA DoDown ==
  ASSUME NEW w, NEW command, Do(command, w), up, ~up',
         command \in {"copy", "write", "restore", "reload", "restart", "test"}
  PROVE  command = "restart" /\ file \notin Sound
  BY DEF Do, nginx

(* Nothing that a call does takes nginx down but the restart of a file     *)
(* that is not the one nginx -t accepted for it, crossed or given up.      *)
THEOREM NeverDown == Spec => DownOnlyIfCrossed
<1> DEFINE Blamed == \E w \in hindered' : /\ Restarted(w)
                                          /\ accepted[w] # {} /\ file \notin accepted[w]
<1>1. ASSUME IInv, Next, up, ~up', calls' # calls PROVE Blamed
  <2> USE <1>1 DEF IInv, TypeOK
  <2>0. ASSUME NEW w \in Worker, w \in hindered', Restarted(w), accepted[w] # {}, file \notin Sound
        PROVE  Blamed
    <3>1. accepted[w] \subseteq Sound
      BY DEF CallInv, Route
    <3> QED
      BY <2>0, <3>1
  <2>1. ASSUME NEW w \in Worker, Run(w) \/ Lose(w) PROVE Blamed
    <3>1. CommandAt(at[w]) = "restart" /\ file \notin Sound
      BY <2>1, Pending, DoDown DEF Run, Lose, nginx
    <3>2. at[w] = "restart"
      BY <2>1, <3>1, Pending DEF CommandAt, Run, Lose
    <3>3. w \in hindered' /\ accepted[w] # {}
      BY <2>1, <3>1, <3>2 DEF CallInv, Alone, Route, Run, Lose
    <3>4. at'[w] \in {"success", "failed"}
      BY <2>1, <3>2 DEF Run, Lose, Goto, Then
    <3> QED
      BY <2>0, <3>1, <3>2, <3>3, <3>4 DEF Restarted
  <2>2. ASSUME NEW l \in late, Arrive(l) PROVE Blamed
    <3>1. l.command = "restart" /\ file \notin Sound /\ l.by \in Worker
      BY <2>2, DoDown DEF Arrive
    <3>2. l = [by |-> l.by, command |-> "restart"] /\ l \in late \ late'
      BY <2>2, <3>1 DEF Arrive
    <3>3. l.by \in hindered' /\ accepted[l.by] # {}
      BY <2>2, <3>1 DEF LateInv, Arrive
    <3> QED
      BY <2>0, <3>1, <3>2, <3>3 DEF Restarted
  <2> QED
    BY <2>1, <2>2
       DEF Next, Begin, GiveUp, Fall, Rise, Immediate, Check, Conclude, nginx
<1>2. IInv /\ [Next]_vars => [up /\ ~up' /\ calls' # calls => Blamed]_vars
  BY <1>1
<1> QED
  BY <1>2, Invariant, PTL DEF Spec, DownOnlyIfCrossed
=============================================================================
