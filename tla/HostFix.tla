------------------------------ MODULE HostFix ------------------------------
(***************************************************************************)
(* Changes of nginx on one host, and the verification that follows one of  *)
(* them: NginxTools.apply_nginx_config and restart, command by command,    *)
(* each over ssh or in a shell, and FixVerifier, which looks at the        *)
(* service from the agent's own machine.                                   *)
(*                                                                         *)
(* Nothing keeps two calls apart: another run's, or an approved one, works *)
(* on the same file and the same backup of it.  A command that was given   *)
(* up after its timeout goes on.                                           *)
(***************************************************************************)
EXTENDS Naturals

CONSTANTS
  Worker,       \* calls of the nginx tools, each writing contents of its own
  Fixer,        \* the one whose run verifies what it has done
  Sound,        \* the contents that nginx -t accepts
  Window,       \* how long stability is monitored,
  MaxInterval,  \* the longest pause between two checks,
  Slow          \* and the longest that a check may take

First   == "first"    \* the contents before
Absent  == "absent"   \* no file
Content == Worker \cup {First, Absent}

ASSUME FixerAssumption == Fixer \in Worker /\ {First, Absent} \cap Worker = {}
ASSUME SoundAssumption == Sound \subseteq Content /\ Absent \in Sound
ASSUME WindowAssumption ==
  Window \in Nat \ {0} /\ MaxInterval \in Nat \ {0} /\ Slow \in Nat

VARIABLES
  file,      \* the configuration file,
  backup,    \* and the copy of it that calls leave beside it
  serving,   \* what nginx has loaded
  up,        \* whether nginx runs
  host,      \* the agent's own machine, or another
  late,      \* commands given up that are still to take effect
  tool,      \* which tool, and how, each worker calls
  at,        \* the command it comes to, or its answer
  found,     \* history: the file as each call found it
  accepted,  \* history: the one that nginx -t last accepted for it
  hindered,  \* history: calls that lost a command, or were crossed by another
  phase,     \* of the verification
  checks, failures, elapsed, verdict,
  seenDown   \* history: checks made while nginx was down, on the own machine

nginx  == <<file, backup, serving, up>>
calls  == <<host, late, tool, at, found, accepted, hindered>>
verify == <<phase, checks, failures, elapsed, verdict, seenDown>>
vars   == <<nginx, calls, verify>>

Answer == {"success", "failed", "restored"}
(* apply_nginx_config; restart, with new contents or without, and with     *)
(* reload_only or without.                                                 *)
Tool == {"apply", "applyRestart", "applyReload", "restart", "reload"}
Writes(w)   == tool[w] \in {"apply", "applyRestart", "applyReload"}
Restarts(w) == tool[w] \in {"restart", "applyRestart"}

Begun(w) == at[w] # "idle"
Over(w)  == at[w] \in Answer

(* What a command does to the host.                                        *)
Do(command, w) ==
  CASE command = "copy" ->
         /\ backup' = IF file = Absent THEN backup ELSE file
         /\ UNCHANGED <<file, serving, up>>
    [] command = "write" -> file' = w /\ UNCHANGED <<backup, serving, up>>
    [] command = "restore" ->
         /\ file' = IF backup = Absent THEN file ELSE backup
         /\ backup' = Absent
         /\ UNCHANGED <<serving, up>>
    [] command = "reload" ->
         /\ serving' = IF up /\ file \in Sound THEN file ELSE serving
         /\ UNCHANGED <<file, backup, up>>
    [] command = "restart" ->
         /\ serving' = file /\ up' = (file \in Sound)
         /\ UNCHANGED <<file, backup>>
    [] command = "test" -> UNCHANGED nginx

(* Whether it then says that it succeeded.                                 *)
Succeeds(command) ==
  CASE command \in {"test", "restart"} -> file \in Sound
    [] command = "reload" -> up /\ file \in Sound
    [] OTHER -> TRUE

CommandAt(point) ==
  CASE point \in {"undoWrite", "undoTest"} -> "restore"
    [] point = "diagnose" -> "test"
    [] OTHER -> point

(* Mutant: what has been written stays if nginx does not accept it.        *)
MutThen(w, ok) ==
  CASE at[w] = "copy"   -> "write"
    [] at[w] = "write"  -> IF ok THEN "test" ELSE "undoWrite"
    [] at[w] = "test"   -> IF ~ok THEN "restored"
                           ELSE IF tool[w] = "apply" THEN "reload" ELSE "diagnose"
    [] at[w] = "undoWrite" -> "failed"
    [] at[w] = "undoTest"  -> "restored"
    [] at[w] = "diagnose"  -> IF ~ok THEN "failed"
                              ELSE IF Restarts(w) THEN "restart" ELSE "reload"
    [] at[w] \in {"reload", "restart"} -> IF ok THEN "success" ELSE "failed"

(* Mutant: nginx is restarted whatever nginx -t says.                      *)
MutThenUntested(w, ok) ==
  CASE at[w] = "copy"   -> "write"
    [] at[w] = "write"  -> IF ok THEN "test" ELSE "undoWrite"
    [] at[w] = "test"   -> IF ~ok THEN "undoTest"
                           ELSE IF tool[w] = "apply" THEN "reload" ELSE "diagnose"
    [] at[w] = "undoWrite" -> "failed"
    [] at[w] = "undoTest"  -> "restored"
    [] at[w] = "diagnose"  -> IF Restarts(w) THEN "restart" ELSE "reload"
    [] at[w] \in {"reload", "restart"} -> IF ok THEN "success" ELSE "failed"

(* What a call does next; restored is what it says of a file it has put    *)
(* back, whether there was one to put back or not.                         *)
Then(w, ok) ==
  CASE at[w] = "copy"   -> "write"
    [] at[w] = "write"  -> IF ok THEN "test" ELSE "undoWrite"
    [] at[w] = "test"   -> IF ~ok THEN "undoTest"
                           ELSE IF tool[w] = "apply" THEN "reload" ELSE "diagnose"
    [] at[w] = "undoWrite" -> "failed"
    [] at[w] = "undoTest"  -> "restored"
    [] at[w] = "diagnose"  -> IF ~ok THEN "failed"
                              ELSE IF Restarts(w) THEN "restart" ELSE "reload"
    [] at[w] \in {"reload", "restart"} -> IF ok THEN "success" ELSE "failed"

Init ==
  /\ file \in {First, Absent} /\ backup = Absent
  /\ serving = file /\ up = (file \in Sound)
  /\ host \in {"own", "other"}
  /\ late = {}
  /\ tool \in [Worker -> Tool]
  /\ at = [w \in Worker |-> "idle"]
  /\ found = [w \in Worker |-> Absent]
  /\ accepted = [w \in Worker |-> {}]
  /\ hindered = {}
  /\ phase = "none" /\ checks = 0 /\ failures = 0 /\ elapsed = 0
  /\ verdict = "none" /\ seenDown = 0

-----------------------------------------------------------------------------
Goto(w, point) == at' = [at EXCEPT ![w] = point]

(* A call that is crossed, and one whose command is lost, is hindered.     *)
Crossed(w) == {v \in Worker \ {w} : Begun(v)}

Begin(w) ==
  /\ ~Begun(w)
  /\ Goto(w, IF Writes(w) THEN "copy" ELSE "diagnose")
  /\ found' = [found EXCEPT ![w] = file]
  /\ UNCHANGED <<nginx, host, late, tool, accepted, hindered, verify>>

(* A command runs, and its answer arrives.                                 *)
Run(w) ==
  /\ Begun(w) /\ ~Over(w)
  /\ Do(CommandAt(at[w]), w)
  /\ Goto(w, Then(w, Succeeds(CommandAt(at[w]))))
  /\ accepted' = IF CommandAt(at[w]) = "test" /\ file \in Sound
                 THEN [accepted EXCEPT ![w] = {file}] ELSE accepted
  /\ hindered' = hindered \cup Crossed(w)
  /\ UNCHANGED <<host, late, tool, found, verify>>

(* It runs unanswered, or not at all: the tool sees a failure.             *)
Lose(w) ==
  /\ Begun(w) /\ ~Over(w)
  /\ Do(CommandAt(at[w]), w) \/ UNCHANGED nginx
  /\ Goto(w, Then(w, FALSE))
  /\ hindered' = hindered \cup Crossed(w) \cup {w}
  /\ UNCHANGED <<host, late, tool, found, accepted, verify>>

(* It is given up, and goes on; a test that does changes nothing.          *)
GiveUp(w) ==
  /\ Begun(w) /\ ~Over(w) /\ CommandAt(at[w]) # "test"
  /\ late' = late \cup {[by |-> w, command |-> CommandAt(at[w])]}
  /\ Goto(w, Then(w, FALSE))
  /\ hindered' = hindered \cup {w}
  /\ UNCHANGED <<nginx, host, tool, found, accepted, verify>>

Arrive(l) ==
  /\ Do(l.command, l.by)
  /\ late' = late \ {l}
  /\ hindered' = hindered \cup Crossed(l.by)
  /\ UNCHANGED <<host, tool, at, found, accepted, verify>>

-----------------------------------------------------------------------------
(* Nginx dies by itself, or is started by someone else.                    *)
Fall == up /\ up' = FALSE /\ UNCHANGED <<file, backup, serving, calls, verify>>

Rise ==
  /\ ~up /\ file \in Sound
  /\ up' = TRUE /\ serving' = file
  /\ UNCHANGED <<file, backup, calls, verify>>

-----------------------------------------------------------------------------
(* FixVerifier asks systemctl on the machine it runs on, where another     *)
(* nginx may run, or none; the question itself may fail.                   *)
Observes(passed) == passed => up \/ host = "other"

Down == IF host = "own" /\ ~up THEN 1 ELSE 0

Immediate ==
  /\ at[Fixer] = "success" /\ phase = "none"
  /\ \E passed \in BOOLEAN :
       /\ Observes(passed)
       /\ phase' = IF passed THEN "monitor" ELSE "over"
       /\ verdict' = IF passed THEN "none" ELSE "failed"
  /\ UNCHANGED <<nginx, calls, checks, failures, elapsed, seenDown>>

AtMost(m, n) == IF m < n THEN m ELSE n
Interval == IF AtMost(MaxInterval, Window \div 10) < 1 THEN 1
            ELSE AtMost(MaxInterval, Window \div 10)

(* Mutant: a check counts once it has passed.                              *)
MutCheck ==
  /\ phase = "monitor" /\ elapsed < Window /\ failures <= 2
  /\ \E passed \in BOOLEAN, takes \in 0 .. Slow :
       /\ Observes(passed)
       /\ failures' = IF passed THEN failures ELSE failures + 1
       /\ elapsed' = elapsed + takes + (IF failures' > 2 THEN 0 ELSE Interval)
       /\ checks' = IF passed THEN checks + 1 ELSE checks
  /\ seenDown' = seenDown + Down
  /\ UNCHANGED <<nginx, calls, phase, verdict>>

(* One round of the monitoring: a check, which takes its time, and, but    *)
(* for the third that fails, a pause.                                      *)
Check ==
  /\ phase = "monitor" /\ elapsed < Window /\ failures <= 2
  /\ \E passed \in BOOLEAN, takes \in 0 .. Slow :
       /\ Observes(passed)
       /\ failures' = IF passed THEN failures ELSE failures + 1
       /\ elapsed' = elapsed + takes + (IF failures' > 2 THEN 0 ELSE Interval)
  /\ checks' = checks + 1
  /\ seenDown' = seenDown + Down
  /\ UNCHANGED <<nginx, calls, phase, verdict>>

(* Mutant: the rate of the checks made counts those that broke off.        *)
MutConclude ==
  /\ phase = "monitor" /\ (elapsed >= Window \/ failures > 2)
  /\ phase' = "over"
  /\ verdict' = IF failures <= 2 THEN "success" ELSE "unstable"
  /\ UNCHANGED <<nginx, calls, checks, failures, elapsed, seenDown>>

(* Nine of ten have to pass, whether the monitoring broke off or not.      *)
Conclude ==
  /\ phase = "monitor" /\ (elapsed >= Window \/ failures > 2)
  /\ phase' = "over"
  /\ verdict' = IF 10 * (checks - failures) >= 9 * checks THEN "success" ELSE "unstable"
  /\ UNCHANGED <<nginx, calls, checks, failures, elapsed, seenDown>>

Next ==
  \/ \E w \in Worker : Begin(w) \/ Run(w) \/ Lose(w) \/ GiveUp(w)
  \/ \E l \in late : Arrive(l)
  \/ Fall \/ Rise
  \/ Immediate \/ Check \/ Conclude

Spec == Init /\ [][Next]_vars
=============================================================================
