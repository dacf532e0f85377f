------------------------------ MODULE ToolCall ------------------------------
(***************************************************************************)
(* The agent's tool calls, from the gates in front of them to the answer   *)
(* that grounding takes as evidence or as a fix, and the approvals some of *)
(* them end in: retained or posted as they are, clicked in Slack, and run. *)
(*                                                                         *)
(* Table says what each tool calls, and in which order (ToolTable).        *)
(* Retained references keep ApprovalContract, which ApprovalStore          *)
(* implements.  A command that is not answered in time goes on: what it    *)
(* does may come late, and a restart does not stop it.                     *)
(***************************************************************************)
EXTENDS Naturals, Sequences

CONSTANTS
  Path,         \* the tools, each with the platforms it tells apart
  Table,        \* their rows
  Call,         \* calls the agent makes, one at a time
  Click,        \* clicks on the approvals they end in
  Setting,      \* what the process finds in its environment as it starts
  MaxRestarts   \* bound on the restarts

ReadKind  == {"need", "halt", "later", "told", "blank"}
WriteKind == {"do", "run", "mark", "try"}
Kind      == ReadKind \cup WriteKind
Row == [role : SUBSET {"evidence", "remedy"}, stops : BOOLEAN,
        gate : {"none", "agent", "built", "posting", "never"},
        carries : {"nothing", "reference", "command", "file", "label"},
        posts : BOOLEAN, hosted : BOOLEAN,
        asking : SUBSET Seq(Kind), ways : SUBSET Seq(Kind), dry : SUBSET Seq(Kind)]

ASSUME TableAssumption == Table \in [Path -> Row]
(* Stop is AGENT_EMERGENCY_STOP; auto is AUTO_APPLY as a run reads it, and *)
(* built as SafeExecutor found it when it was made.                        *)
ASSUME SettingAssumption ==
  Setting \subseteq [stop : BOOLEAN, auto : BOOLEAN, built : BOOLEAN, posting : BOOLEAN]
ASSUME WorkerAssumption == Call \cap Click = {}
ASSUME RestartsAssumption == MaxRestarts \in Nat

Worker == Call \cup Click
Host   == {"own", "other"}   \* the agent's own machine, and another
Answer == {"fine", "failed", "error", "blocked", "none"}

VARIABLES
  setting,     \* the process's environment
  restarts,
  job,         \* what each call and each click does
  approval,    \* what came of the approval a call asked for
  live,        \* references that may still release their operation
  executions   \* how often an issued reference released it

vars == <<setting, restarts, job, approval, live, executions>>

Contract == INSTANCE ApprovalContract

(* What a call or a click has come to.  Its answer is what it will be if   *)
(* nothing more fails; read, begun, took and late count the reads that     *)
(* succeeded, the writes begun, those that took effect, and those that may *)
(* yet.  A click is of the call that asked; under, which the code does not *)
(* keep, is the environment the job began in.                              *)
Job == [phase : {"running", "done"}, of : Call, path : Path, host : Host,
        mode : {"dry", "live", "ask"}, todo : Seq(Kind), answer : Answer,
        read : Nat, begun : Nat, took : Nat, late : Nat, under : Setting]

Init ==
  /\ setting \in Setting
  /\ restarts = 0
  /\ job = [w \in {} |-> 0]
  /\ approval = [c \in Call |-> "none"]
  /\ Contract!Init

Running(w) == w \in DOMAIN job /\ job[w].phase = "running"
Update(w, j) == job' = [job EXCEPT ![w] = j]

Start(w, c, p, h, mode, todo, answer) ==
  job' = [v \in DOMAIN job \cup {w} |->
            IF v \in DOMAIN job THEN job[v]
            ELSE [phase |-> "running", of |-> c, path |-> p, host |-> h,
                  mode |-> mode, todo |-> todo, answer |-> answer,
                  read |-> 0, begun |-> 0, took |-> 0, late |-> 0,
                  under |-> setting]]

-----------------------------------------------------------------------------
(* The agent's calls follow one another, ...                               *)
CallsNow(c) == c \notin DOMAIN job /\ \A d \in Call : ~Running(d)

(* ... on another host where the tool takes one.                           *)
Reaches(p, h) == Table[p].hosted \/ h = "own"

(* The emergency stop refuses what may change something.                   *)
Stopped(p) == Table[p].stops /\ setting.stop

(* Whether a live call may go on by itself.                                *)
Open(p) ==
  \/ Table[p].gate = "none"
  \/ Table[p].gate = "agent" /\ setting.auto
  \/ Table[p].gate = "built" /\ setting.built
  \/ Table[p].gate = "posting" /\ (setting.posting \/ setting.auto)

(* Stopped, never done, or wrong in a setting or an argument.              *)
Refuse(c, p, h) ==
  /\ Reaches(p, h)
  /\ \E answer \in IF Stopped(p) \/ Table[p].gate = "never" THEN {"blocked"}
                   ELSE {"blocked", "error"} :
       Start(c, c, p, h, "ask", <<>>, answer)
  /\ UNCHANGED <<setting, restarts, approval, live, executions>>

(* A dry run, which an unposted review is as well.                         *)
Rehearse(c, p, h) ==
  /\ Reaches(p, h) /\ ~Stopped(p)
  /\ \E todo \in Table[p].dry : Start(c, c, p, h, "dry", todo, "fine")
  /\ UNCHANGED <<setting, restarts, approval, live, executions>>

Act(c, p, h) ==
  /\ Reaches(p, h) /\ ~Stopped(p) /\ Open(p)
  /\ \E todo \in Table[p].ways : Start(c, c, p, h, "live", todo, "fine")
  /\ UNCHANGED <<setting, restarts, approval, live, executions>>

(* What is done before approval is asked for.                              *)
Ask(c, p, h) ==
  /\ Reaches(p, h) /\ ~Stopped(p)
  /\ Table[p].gate \in {"agent", "built"} /\ ~Open(p)
  /\ \E todo \in Table[p].asking : Start(c, c, p, h, "ask", todo, "blocked")
  /\ UNCHANGED <<setting, restarts, approval, live, executions>>

-----------------------------------------------------------------------------
(* One of a job's calls has done what it is to do.                         *)
Succeed(w) ==
  LET j == job[w] IN
  /\ Running(w) /\ j.todo # <<>>
  /\ Update(w, IF Head(j.todo) \in ReadKind
               THEN [j EXCEPT !.todo = Tail(@), !.read = @ + 1]
               ELSE [j EXCEPT !.todo = Tail(@), !.begun = @ + 1, !.took = @ + 1])
  /\ UNCHANGED <<setting, restarts, approval, live, executions>>

(* What a failure leaves: an end with this answer, or a job that goes on   *)
(* to what its answer has now become.                                      *)
Ends(kind) ==
  CASE kind \in {"need", "do"}  -> {"error"}
    [] kind \in {"halt", "run"} -> {"failed", "error"}
    [] kind \in {"blank", "try"} -> {"error"}
    [] OTHER                    -> {}

(* Mutant: a tool goes on, and says so, when a call it needs has failed.   *)
MutGoesOn(kind, answer) == {answer}

(* Mutant: a tool that goes on does not note that a write has failed.      *)
MutForgets(kind, answer) ==
  CASE kind = "later" -> {"error"}
    [] kind \in {"mark", "told", "blank", "try"} -> {answer}
    [] OTHER          -> {}

GoesOn(kind, answer) ==
  CASE kind = "later" -> {"error"}
    [] kind = "mark"  -> {IF answer = "fine" THEN "failed" ELSE answer}
    [] kind \in {"told", "blank", "try"} -> {answer}
    [] OTHER          -> {}

(* A call fails as the tool sees it.  A write may have taken effect all    *)
(* the same, or take effect later.                                         *)
Fail(w) ==
  LET j    == job[w]
      kind == Head(j.todo)
      rest == [j EXCEPT !.todo = Tail(@)]
  IN
  /\ Running(w) /\ j.todo # <<>>
  /\ \E seen \in IF kind \in ReadKind THEN {rest}
                 ELSE {[rest EXCEPT !.begun = @ + 1],
                       [rest EXCEPT !.begun = @ + 1, !.took = @ + 1],
                       [rest EXCEPT !.begun = @ + 1, !.late = @ + 1]} :
       \/ \E answer \in Ends(kind) :
            Update(w, [seen EXCEPT !.phase = "done", !.answer = answer])
       \/ \E answer \in GoesOn(kind, j.answer) : Update(w, [seen EXCEPT !.answer = answer])
  /\ UNCHANGED <<setting, restarts, approval, live, executions>>

(* Mutant: a write that was given up takes effect more than once.          *)
MutTakesEffect(w) ==
  /\ w \in DOMAIN job /\ job[w].phase = "done" /\ job[w].took < job[w].begun
  /\ Update(w, [job[w] EXCEPT !.late = @ - 1, !.took = @ + 1])
  /\ UNCHANGED <<setting, restarts, approval, live, executions>>

(* A write that was given up takes effect.                                 *)
TakesEffect(w) ==
  /\ w \in DOMAIN job /\ job[w].late > 0
  /\ Update(w, [job[w] EXCEPT !.late = @ - 1, !.took = @ + 1])
  /\ UNCHANGED <<setting, restarts, approval, live, executions>>

(* Nothing is left to do, and no approval to ask for.                      *)
Answered(w) ==
  /\ Running(w) /\ job[w].todo = <<>> /\ job[w].mode # "ask"
  /\ Update(w, [job[w] EXCEPT !.phase = "done"])
  /\ UNCHANGED <<setting, restarts, approval, live, executions>>

-----------------------------------------------------------------------------
Carries(c) == Table[job[c].path].carries

(* What is approved is retained, if it is too long for a button or has to  *)
(* be bound to its host, or handed out as it is; some tools post it.       *)
Request(c) ==
  /\ Running(c) /\ job[c].todo = <<>> /\ job[c].mode = "ask"
  /\ IF Carries(c) = "reference"
     THEN Contract!Issue(c) ELSE UNCHANGED <<live, executions>>
  /\ approval' = [approval EXCEPT ![c] =
                    IF Table[job[c].path].posts THEN "posted" ELSE "handed"]
  /\ Update(c, [job[c] EXCEPT !.phase = "done"])
  /\ UNCHANGED <<setting, restarts>>

(* The approval store refuses: full, or not fenced.                        *)
CannotRequest(c) ==
  /\ Running(c) /\ job[c].todo = <<>> /\ job[c].mode = "ask"
  /\ Carries(c) = "reference"
  /\ Update(c, [job[c] EXCEPT !.phase = "done", !.answer = "error"])
  /\ UNCHANGED <<setting, restarts, approval, live, executions>>

(* The model posts what a tool handed out, with notify_slack.              *)
Notify(c) ==
  /\ approval[c] = "handed" /\ \A d \in Call : ~Running(d)
  /\ approval' = [approval EXCEPT ![c] = "posted"]
  /\ UNCHANGED <<setting, restarts, job, live, executions>>

(* A reference expires, or its store loses it.                             *)
Lapse(c) ==
  /\ Contract!Lapse(c)
  /\ UNCHANGED <<setting, restarts, job, approval>>

(* Mutant: a reference stays where it is when its operation is released.   *)
MutRelease(c) ==
  /\ c \in live
  /\ executions' = [executions EXCEPT ![c] = @ + 1]
  /\ UNCHANGED live

(* A reference gives its operation up once.                                *)
Release(c) == Contract!Release(c)

(* A click runs what was approved: the whole operation of a reference, on  *)
(* the host that was asked, or a command, on the agent's own.              *)
Approve(k, c) ==
  /\ k \notin DOMAIN job
  /\ approval[c] = "posted" /\ ~setting.stop
  /\ \/ Carries(c) = "reference" /\ Release(c)
     \/ Carries(c) = "command" /\ UNCHANGED <<live, executions>>
  /\ \E todo \in Table[job[c].path].ways :
       Start(k, c, job[c].path, IF Carries(c) = "reference" THEN job[c].host ELSE "own",
             "live", todo, "fine")
  /\ UNCHANGED <<setting, restarts, approval>>

(* A click that comes to nothing: stopped, spent or lapsed; a file that is *)
(* gone; a label that no shell knows.                                      *)
ApproveInVain(k, c) ==
  /\ k \notin DOMAIN job
  /\ approval[c] = "posted"
  /\ \/ setting.stop
     \/ Carries(c) = "reference" /\ c \notin live
     \/ Carries(c) \in {"file", "label"}
  /\ Start(k, c, job[c].path, "own", "live", <<>>, "failed")
  /\ UNCHANGED <<setting, restarts, approval, live, executions>>

(* The executor gives an approved operation up; the process it started for *)
(* it goes on.                                                             *)
GiveUp(k) ==
  /\ Running(k) /\ Carries(job[k].of) = "reference"
  /\ Update(k, [job[k] EXCEPT !.answer = "none"])
  /\ UNCHANGED <<setting, restarts, approval, live, executions>>

(* The process is killed, and starts again in the environment it then      *)
(* finds.  What is under way is not answered: a write may have begun, and  *)
(* an approved operation may go on.                                        *)
Writing(w) == Running(w) /\ job[w].todo # <<>> /\ Head(job[w].todo) \in WriteKind
Killed(w, began) ==
  LET n == IF began THEN 1 ELSE 0
  IN  [job[w] EXCEPT !.phase = "done", !.answer = "none", !.begun = @ + n, !.late = @ + n]

Restarted(w, began, goesOn) ==
  IF ~Running(w) THEN job[w]
  ELSE IF goesOn THEN [job[w] EXCEPT !.answer = "none"] ELSE Killed(w, began)

Restart ==
  /\ restarts < MaxRestarts
  /\ restarts' = restarts + 1
  /\ setting' \in Setting
  /\ \E begun \in SUBSET {w \in DOMAIN job : Writing(w)},
        goesOn \in SUBSET {k \in Click : Running(k)} :
       job' = [w \in DOMAIN job |-> Restarted(w, w \in begun, w \in goesOn)]
  /\ UNCHANGED <<approval, live, executions>>

CallStep(c) ==
  \/ CallsNow(c) /\ \E p \in Path, h \in Host :
       Refuse(c, p, h) \/ Rehearse(c, p, h) \/ Act(c, p, h) \/ Ask(c, p, h)
  \/ Request(c) \/ CannotRequest(c) \/ Notify(c) \/ Lapse(c)

Next ==
  \/ \E c \in Call : CallStep(c)
  \/ \E k \in Click, c \in Call : Approve(k, c) \/ ApproveInVain(k, c)
  \/ \E k \in Click : GiveUp(k)
  \/ \E w \in Worker : Succeed(w) \/ Fail(w) \/ TakesEffect(w) \/ Answered(w)
  \/ Restart

Spec == Init /\ [][Next]_vars
=============================================================================
