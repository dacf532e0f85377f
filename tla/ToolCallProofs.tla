--------------------------- MODULE ToolCallProofs ---------------------------
(***************************************************************************)
(* Proofs about ToolCall, for any table of tools and any number of calls,  *)
(* clicks and restarts.                                                    *)
(***************************************************************************)
EXTENDS ToolCallProps, TLAPS

LEMMA StartType ==
  ASSUME TypeOK, NEW w \in Worker \ DOMAIN job, NEW c \in Call, NEW p \in Path,
         NEW h \in Host, NEW mode \in {"dry", "live", "ask"}, NEW todo \in Seq(Kind),
         NEW answer \in Answer, Start(w, c, p, h, mode, todo, answer)
  PROVE  /\ DOMAIN job' = DOMAIN job \cup {w} /\ DOMAIN job' \subseteq Worker
         /\ job' \in [DOMAIN job' -> Job]
<1> DEFINE new == [phase |-> "running", of |-> c, path |-> p, host |-> h,
                   mode |-> mode, todo |-> todo, answer |-> answer,
                   read |-> 0, begun |-> 0, took |-> 0, late |-> 0,
                   under |-> setting]
<1>1. new \in Job
  BY DEF Job, TypeOK
<1>2. job' = [v \in DOMAIN job \cup {w} |-> IF v \in DOMAIN job THEN job[v] ELSE new]
  BY DEF Start
<1> HIDE DEF new
<1> QED
  BY <1>1, <1>2 DEF TypeOK

LEMMA UpdateType ==
  ASSUME TypeOK, NEW w \in DOMAIN job, NEW j \in Job, Update(w, j)
  PROVE  /\ DOMAIN job' = DOMAIN job /\ DOMAIN job' \subseteq Worker
         /\ job' \in [DOMAIN job' -> Job]
  BY DEF TypeOK, Update

(* The rows' ways are sequences of kinds, and the rest of one is one.      *)
LEMMA RowType ==
  ASSUME NEW p \in Path
  PROVE  \A todo \in Table[p].asking \cup Table[p].ways \cup Table[p].dry : todo \in Seq(Kind)
  BY TableAssumption DEF Row

LEMMA TodoType ==
  ASSUME TypeOK, NEW w \in DOMAIN job, job[w].todo # <<>>
  PROVE  /\ job[w] \in Job
         /\ Tail(job[w].todo) \in Seq(Kind) /\ Head(job[w].todo) \in Kind
  BY DEF TypeOK, Job

(* Counting, and the rest of what is to do, keep a job a job.              *)
LEMMA CountType ==
  ASSUME NEW j \in Job
  PROVE  /\ [j EXCEPT !.read = @ + 1] \in Job
         /\ [j EXCEPT !.begun = @ + 1] \in Job
         /\ [j EXCEPT !.begun = @ + 1, !.took = @ + 1] \in Job
         /\ [j EXCEPT !.begun = @ + 1, !.late = @ + 1] \in Job
         /\ \A todo \in Seq(Kind) : [j EXCEPT !.todo = todo] \in Job
<1>1. j.read + 1 \in Nat /\ j.begun + 1 \in Nat /\ j.took + 1 \in Nat /\ j.late + 1 \in Nat
  BY DEF Job
<1>2. [j EXCEPT !.read = @ + 1] \in Job
  BY <1>1 DEF Job
<1>3. [j EXCEPT !.begun = @ + 1] \in Job
  BY <1>1 DEF Job
<1>4. [j EXCEPT !.begun = @ + 1, !.took = @ + 1] \in Job
  BY <1>1 DEF Job
<1>5. [j EXCEPT !.begun = @ + 1, !.late = @ + 1] \in Job
  BY <1>1 DEF Job
<1>6. \A todo \in Seq(Kind) : [j EXCEPT !.todo = todo] \in Job
  BY DEF Job
<1> QED
  BY <1>2, <1>3, <1>4, <1>5, <1>6

LEMMA SucceedType ==
  ASSUME TypeOK, NEW w \in Worker, Succeed(w)
  PROVE  \E j \in Job : w \in DOMAIN job /\ Update(w, j)
<1> DEFINE rest == [job[w] EXCEPT !.todo = Tail(@)]
<1>1. w \in DOMAIN job /\ job[w].todo # <<>>
  BY DEF Succeed, Running
<1>2. rest \in Job
  BY <1>1, TodoType, CountType
<1>3. Update(w, [rest EXCEPT !.read = @ + 1])
        \/ Update(w, [rest EXCEPT !.begun = @ + 1, !.took = @ + 1])
  BY <1>1, TodoType DEF Succeed, Job
<1> QED
  BY <1>1, <1>2, <1>3, CountType

LEMMA FailType ==
  ASSUME TypeOK, NEW w \in Worker, Fail(w)
  PROVE  \E j \in Job : w \in DOMAIN job /\ Update(w, j)
<1> DEFINE kind == Head(job[w].todo)
           rest == [job[w] EXCEPT !.todo = Tail(@)]
           Seen == IF kind \in ReadKind THEN {rest}
                   ELSE {[rest EXCEPT !.begun = @ + 1],
                         [rest EXCEPT !.begun = @ + 1, !.took = @ + 1],
                         [rest EXCEPT !.begun = @ + 1, !.late = @ + 1]}
<1>1. w \in DOMAIN job /\ job[w].todo # <<>>
  BY DEF Fail, Running
<1>2. rest \in Job
  BY <1>1, TodoType, CountType
<1>3. Seen \subseteq Job
  <2> HIDE DEF rest
  <2> QED
    BY <1>2, CountType
<1>4. Ends(kind) \subseteq Answer /\ GoesOn(kind, job[w].answer) \subseteq Answer
  BY <1>1, TodoType DEF Ends, GoesOn, Answer, Job, Kind, ReadKind, WriteKind
<1>5. PICK seen \in Seen :
        \/ \E answer \in Ends(kind) :
             Update(w, [seen EXCEPT !.phase = "done", !.answer = answer])
        \/ \E answer \in GoesOn(kind, job[w].answer) :
             Update(w, [seen EXCEPT !.answer = answer])
  BY DEF Fail
<1>6. seen \in Job
  BY <1>3, <1>5
<1>7. \A answer \in Answer : /\ [seen EXCEPT !.phase = "done", !.answer = answer] \in Job
                             /\ [seen EXCEPT !.answer = answer] \in Job
  BY <1>6 DEF Job
<1> QED
  BY <1>1, <1>4, <1>5, <1>7

(* What the contract does keeps the references issued.                     *)
LEMMA ContractTypes ==
  ASSUME TypeOK, NEW c \in Call,
         \/ Contract!Issue(c) \/ Contract!Release(c) \/ Contract!Lapse(c)
         \/ UNCHANGED <<live, executions>>
  PROVE  /\ live' \subseteq DOMAIN executions' /\ DOMAIN executions' \subseteq Call
         /\ executions' \in [DOMAIN executions' -> Nat]
<1>1. CASE Contract!Issue(c)
  BY <1>1 DEF Contract!Issue, TypeOK
<1>2. CASE Contract!Release(c)
  BY <1>2 DEF Contract!Release, TypeOK
<1>3. CASE Contract!Lapse(c)
  BY <1>3 DEF Contract!Lapse, TypeOK
<1>4. CASE UNCHANGED <<live, executions>>
  BY <1>4 DEF TypeOK
<1> QED
  BY <1>1, <1>2, <1>3, <1>4

LEMMA InitTypeOK == Init => TypeOK
  BY DEF Init, TypeOK, Contract!Init

(* The steps that only start or update a job.                              *)
JobStep(w) == \E j \in Job : w \in DOMAIN job /\ Update(w, j)

LEMMA OnlyJob ==
  ASSUME TypeOK, DOMAIN job' \subseteq Worker, job' \in [DOMAIN job' -> Job],
         UNCHANGED <<setting, restarts, approval, live, executions>>
  PROVE  TypeOK'
  BY DEF TypeOK

LEMMA CallTypes ==
  ASSUME TypeOK, NEW c \in Call, NEW p \in Path, NEW h \in Host, CallsNow(c),
         Refuse(c, p, h) \/ Rehearse(c, p, h) \/ Act(c, p, h) \/ Ask(c, p, h)
  PROVE  TypeOK'
<1>1. c \in Worker \ DOMAIN job
  BY DEF CallsNow, Worker
<1>2. PICK todo \in Seq(Kind), mode \in {"dry", "live", "ask"}, answer \in Answer :
        Start(c, c, p, h, mode, todo, answer)
  <2>1. CASE Refuse(c, p, h)
    <3>1. <<>> \in Seq(Kind)
      OBVIOUS
    <3> QED
      BY <2>1, <3>1 DEF Refuse, Answer
  <2>2. CASE Rehearse(c, p, h)
    BY <2>2, RowType DEF Rehearse, Answer
  <2>3. CASE Act(c, p, h)
    BY <2>3, RowType DEF Act, Answer
  <2>4. CASE Ask(c, p, h)
    BY <2>4, RowType DEF Ask, Answer
  <2> QED
    BY <2>1, <2>2, <2>3, <2>4
<1>3. UNCHANGED <<setting, restarts, approval, live, executions>>
  BY DEF Refuse, Rehearse, Act, Ask
<1> QED
  BY <1>1, <1>2, <1>3, StartType, OnlyJob

LEMMA RestartTypes == TypeOK /\ Restart => TypeOK'
<1> SUFFICES ASSUME TypeOK, Restart PROVE TypeOK'
  OBVIOUS
<1>1. PICK begun, goesOn :
        job' = [w \in DOMAIN job |-> Restarted(w, w \in begun, w \in goesOn)]
  BY DEF Restart
<1>2. ASSUME NEW w \in DOMAIN job, NEW began, NEW on PROVE Restarted(w, began, on) \in Job
  <2>1. job[w] \in Job
    BY DEF TypeOK
  <2>2. [job[w] EXCEPT !.answer = "none"] \in Job
    BY <2>1 DEF Job, Answer
  <2>3. Killed(w, began) \in Job
    <3> DEFINE n == IF began THEN 1 ELSE 0
    <3>1. job[w].begun + n \in Nat /\ job[w].late + n \in Nat
      BY <2>1 DEF Job
    <3>2. Killed(w, began) = [job[w] EXCEPT !.phase = "done", !.answer = "none",
                                            !.begun = @ + n, !.late = @ + n]
      BY DEF Killed
    <3> HIDE DEF n
    <3> QED
      BY <2>1, <3>1, <3>2 DEF Job, Answer
  <2> QED
    BY <2>1, <2>2, <2>3 DEF Restarted
<1>3. DOMAIN job' = DOMAIN job /\ job' \in [DOMAIN job' -> Job]
  BY <1>1, <1>2
<1>4. setting' \in Setting /\ restarts' \in Nat /\ UNCHANGED <<approval, live, executions>>
  BY DEF Restart, TypeOK
<1> QED
  BY <1>3, <1>4 DEF TypeOK

(* An approval comes from a call that asked for it, and is answered.       *)
Asked ==
  \A c \in Call : approval[c] # "none" =>
    c \in DOMAIN job /\ job[c].mode = "ask" /\ job[c].phase = "done"

LEMMA StepTypeOK == TypeOK /\ Asked /\ [Next]_vars => TypeOK'
<1> SUFFICES ASSUME TypeOK, Asked, [Next]_vars PROVE TypeOK'
  OBVIOUS
<1>1. ASSUME NEW w \in Worker, JobStep(w),
             UNCHANGED <<setting, restarts, approval, live, executions>>
      PROVE  TypeOK'
  BY <1>1, UpdateType, OnlyJob DEF JobStep
<1>2. ASSUME NEW c \in Call, CallStep(c) PROVE TypeOK'
  <2>1. CASE CallsNow(c) /\ \E p \in Path, h \in Host :
               Refuse(c, p, h) \/ Rehearse(c, p, h) \/ Act(c, p, h) \/ Ask(c, p, h)
    BY <2>1, CallTypes
  <2>2. CASE Request(c)
    <3>1. c \in DOMAIN job /\ [job[c] EXCEPT !.phase = "done"] \in Job
      BY <2>2 DEF Request, Running, TypeOK, Job
    <3>2. DOMAIN job' \subseteq Worker /\ job' \in [DOMAIN job' -> Job]
      BY <2>2, <3>1, UpdateType DEF Request
    <3>3. approval' \in [Call -> {"none", "handed", "posted"}]
      BY <2>2 DEF Request, TypeOK
    <3>4. /\ live' \subseteq DOMAIN executions' /\ DOMAIN executions' \subseteq Call
          /\ executions' \in [DOMAIN executions' -> Nat]
      BY <2>2, ContractTypes DEF Request
    <3>5. UNCHANGED <<setting, restarts>>
      BY <2>2 DEF Request
    <3> QED
      BY <3>2, <3>3, <3>4, <3>5 DEF TypeOK
  <2>3. CASE CannotRequest(c)
    <3>1. c \in DOMAIN job /\ [job[c] EXCEPT !.phase = "done", !.answer = "error"] \in Job
      BY <2>3 DEF CannotRequest, Running, TypeOK, Job, Answer
    <3>2. c \in Worker
      BY DEF Worker
    <3> QED
      BY <1>1, <2>3, <3>1, <3>2 DEF CannotRequest, JobStep
  <2>4. CASE Notify(c)
    BY <2>4 DEF Notify, TypeOK
  <2>5. CASE Lapse(c)
    <3>1. /\ live' \subseteq DOMAIN executions' /\ DOMAIN executions' \subseteq Call
          /\ executions' \in [DOMAIN executions' -> Nat]
      BY <2>5, ContractTypes DEF Lapse
    <3> QED
      BY <2>5, <3>1 DEF Lapse, TypeOK
  <2> QED
    BY <1>2, <2>1, <2>2, <2>3, <2>4, <2>5 DEF CallStep
<1>3. ASSUME NEW k \in Click, NEW c \in Call, Approve(k, c) PROVE TypeOK'
  <2>1. approval[c] = "posted" /\ k \in Worker \ DOMAIN job
    BY <1>3 DEF Approve, Worker
  <2>2. PICK todo \in Table[job[c].path].ways :
          Start(k, c, job[c].path, IF Carries(c) = "reference" THEN job[c].host ELSE "own",
                "live", todo, "fine")
    BY <1>3 DEF Approve
  <2>3. c \in DOMAIN job /\ job[c].path \in Path /\ job[c].host \in Host
    BY <2>1 DEF Asked, TypeOK, Job
  <2>4. todo \in Seq(Kind)
    BY <2>2, <2>3, RowType
  <2>5. (IF Carries(c) = "reference" THEN job[c].host ELSE "own") \in Host
    BY <2>3 DEF Host
  <2>6. DOMAIN job' \subseteq Worker /\ job' \in [DOMAIN job' -> Job]
    BY <2>1, <2>2, <2>3, <2>4, <2>5, StartType DEF Answer
  <2>7. /\ live' \subseteq DOMAIN executions' /\ DOMAIN executions' \subseteq Call
        /\ executions' \in [DOMAIN executions' -> Nat]
    BY <1>3, ContractTypes DEF Approve, Release
  <2> QED
    BY <1>3, <2>6, <2>7 DEF Approve, TypeOK
<1>4. ASSUME NEW k \in Click, NEW c \in Call, ApproveInVain(k, c) PROVE TypeOK'
  <2>1. approval[c] = "posted" /\ k \in Worker \ DOMAIN job
    BY <1>4 DEF ApproveInVain, Worker
  <2>2. job[c].path \in Path /\ "own" \in Host /\ "failed" \in Answer /\ <<>> \in Seq(Kind)
    BY <2>1 DEF Asked, TypeOK, Job, Host, Answer
  <2>3. DOMAIN job' \subseteq Worker /\ job' \in [DOMAIN job' -> Job]
    BY <1>4, <2>1, <2>2, StartType DEF ApproveInVain
  <2> QED
    BY <1>4, <2>3, OnlyJob DEF ApproveInVain
<1>5. ASSUME NEW k \in Click, GiveUp(k) PROVE TypeOK'
  <2>1. k \in DOMAIN job /\ [job[k] EXCEPT !.answer = "none"] \in Job /\ k \in Worker
    BY <1>5 DEF GiveUp, Running, TypeOK, Job, Answer, Worker
  <2> QED
    BY <1>1, <1>5, <2>1 DEF GiveUp, JobStep
<1>6. ASSUME NEW w \in Worker, Succeed(w) PROVE TypeOK'
  BY <1>1, <1>6, SucceedType DEF Succeed, JobStep
<1>7. ASSUME NEW w \in Worker, Fail(w) PROVE TypeOK'
  BY <1>1, <1>7, FailType DEF Fail, JobStep
<1>8. ASSUME NEW w \in Worker, TakesEffect(w) PROVE TypeOK'
  <2>1. job[w] \in Job /\ job[w].late - 1 \in Nat /\ job[w].took + 1 \in Nat
    BY <1>8 DEF TakesEffect, TypeOK, Job
  <2>2. [job[w] EXCEPT !.late = @ - 1, !.took = @ + 1] \in Job
    BY <2>1 DEF Job
  <2> QED
    BY <1>1, <1>8, <2>2 DEF TakesEffect, JobStep
<1>9. ASSUME NEW w \in Worker, Answered(w) PROVE TypeOK'
  <2>1. w \in DOMAIN job /\ [job[w] EXCEPT !.phase = "done"] \in Job
    BY <1>9 DEF Answered, Running, TypeOK, Job
  <2> QED
    BY <1>1, <1>9, <2>1 DEF Answered, JobStep
<1>10. CASE UNCHANGED vars
  BY <1>10 DEF vars, TypeOK
<1> QED
  BY <1>2, <1>3, <1>4, <1>5, <1>6, <1>7, <1>8, <1>9, <1>10, RestartTypes DEF Next

-----------------------------------------------------------------------------
(* A job that may still write, or has.                                     *)
MayWrite(w) ==
  job[w].begun > 0 \/ \E i \in 1 .. Len(job[w].todo) : job[w].todo[i] \in WriteKind

(* What no step changes of a job, once it is there.                        *)
Kept(w) ==
  /\ w \in DOMAIN job'
  /\ job'[w].of = job[w].of /\ job'[w].path = job[w].path /\ job'[w].host = job[w].host
  /\ job'[w].mode = job[w].mode /\ job'[w].under = job[w].under
  /\ job[w].phase = "done" => job'[w].phase = "done"
  /\ MayWrite(w)' => MayWrite(w)

LEMMA StartKeeps ==
  ASSUME NEW v \in DOMAIN job, NEW w, NEW c, NEW p, NEW h, NEW mode, NEW todo, NEW answer,
         Start(w, c, p, h, mode, todo, answer)
  PROVE  Kept(v)
<1>1. v \in DOMAIN job' /\ job'[v] = job[v]
  BY DEF Start
<1> QED
  BY <1>1 DEF Kept, MayWrite

(* An update keeps a job that ends or stays as it is, and leaves no write  *)
(* to do that was not there.                                               *)
LEMMA UpdateKeeps ==
  ASSUME NEW v \in DOMAIN job, NEW w \in DOMAIN job, NEW j, Update(w, j),
         j.of = job[w].of, j.path = job[w].path, j.host = job[w].host,
         j.mode = job[w].mode, j.under = job[w].under,
         job[w].phase = "done" => j.phase = "done",
         j.begun > 0 \/ (\E i \in 1 .. Len(j.todo) : j.todo[i] \in WriteKind) => MayWrite(w)
  PROVE  Kept(v)
<1>1. DOMAIN job' = DOMAIN job /\ job'[v] = IF v = w THEN j ELSE job[v]
  BY DEF Update
<1> QED
  BY <1>1 DEF Kept, MayWrite

LEMMA TailWrites ==
  ASSUME NEW todo \in Seq(Kind), todo # <<>>,
         \E i \in 1 .. Len(Tail(todo)) : Tail(todo)[i] \in WriteKind
  PROVE  \E i \in 1 .. Len(todo) : todo[i] \in WriteKind
<1>1. PICK i \in 1 .. Len(Tail(todo)) : Tail(todo)[i] \in WriteKind
  OBVIOUS
<1>2. i + 1 \in 1 .. Len(todo) /\ Tail(todo)[i] = todo[i + 1]
  OBVIOUS
<1> QED
  BY <1>1, <1>2

LEMMA HeadWrites ==
  ASSUME NEW todo \in Seq(Kind), todo # <<>>, Head(todo) \notin ReadKind
  PROVE  \E i \in 1 .. Len(todo) : todo[i] \in WriteKind
<1>1. 1 \in 1 .. Len(todo) /\ todo[1] \in Kind /\ Head(todo) = todo[1]
  OBVIOUS
<1> QED
  BY <1>1 DEF Kind

LEMMA SucceedKeeps ==
  ASSUME TypeOK, NEW v \in DOMAIN job, NEW w \in Worker, Succeed(w)
  PROVE  Kept(v)
<1> DEFINE j == IF Head(job[w].todo) \in ReadKind
                THEN [job[w] EXCEPT !.todo = Tail(@), !.read = @ + 1]
                ELSE [job[w] EXCEPT !.todo = Tail(@), !.begun = @ + 1, !.took = @ + 1]
<1>1. w \in DOMAIN job /\ job[w].todo # <<>> /\ job[w] \in Job /\ Update(w, j)
  BY DEF Succeed, Running, TypeOK
<1>2. job[w].todo \in Seq(Kind)
  BY <1>1 DEF Job
<1>3. /\ j.of = job[w].of /\ j.path = job[w].path /\ j.host = job[w].host
      /\ j.mode = job[w].mode /\ j.under = job[w].under
      /\ job[w].phase = "done" => j.phase = "done"
      /\ j.todo = Tail(job[w].todo)
      /\ Head(job[w].todo) \in ReadKind => j.begun = job[w].begun
  BY <1>1 DEF Job
<1>4. j.begun > 0 \/ (\E i \in 1 .. Len(j.todo) : j.todo[i] \in WriteKind) => MayWrite(w)
  BY <1>1, <1>2, <1>3, HeadWrites, TailWrites DEF MayWrite
<1> HIDE DEF j
<1> QED
  BY <1>1, <1>3, <1>4, UpdateKeeps

LEMMA FailKeeps ==
  ASSUME TypeOK, NEW v \in DOMAIN job, NEW w \in Worker, Fail(w)
  PROVE  Kept(v)
<1> DEFINE kind == Head(job[w].todo)
           rest == [job[w] EXCEPT !.todo = Tail(@)]
           Seen == IF kind \in ReadKind THEN {rest}
                   ELSE {[rest EXCEPT !.begun = @ + 1],
                         [rest EXCEPT !.begun = @ + 1, !.took = @ + 1],
                         [rest EXCEPT !.begun = @ + 1, !.late = @ + 1]}
<1>1. w \in DOMAIN job /\ job[w].todo # <<>> /\ job[w] \in Job
  BY DEF Fail, Running, TypeOK
<1>2. job[w].todo \in Seq(Kind)
  BY <1>1 DEF Job
<1>3. PICK seen \in Seen :
        \/ \E answer \in Ends(kind) :
             Update(w, [seen EXCEPT !.phase = "done", !.answer = answer])
        \/ \E answer \in GoesOn(kind, job[w].answer) :
             Update(w, [seen EXCEPT !.answer = answer])
  BY DEF Fail
<1>4. rest \in Job
  BY <1>1, TodoType, CountType
<1>5. /\ seen \in Job
      /\ seen.of = job[w].of /\ seen.path = job[w].path /\ seen.host = job[w].host
      /\ seen.mode = job[w].mode /\ seen.under = job[w].under /\ seen.phase = job[w].phase
      /\ seen.todo = Tail(job[w].todo)
      /\ kind \in ReadKind => seen.begun = job[w].begun
  <2>1. /\ rest.of = job[w].of /\ rest.path = job[w].path /\ rest.host = job[w].host
        /\ rest.mode = job[w].mode /\ rest.under = job[w].under /\ rest.phase = job[w].phase
        /\ rest.todo = Tail(job[w].todo) /\ rest.begun = job[w].begun
    BY <1>1 DEF Job
  <2> HIDE DEF rest
  <2>2. Seen \subseteq Job
    BY <1>4, CountType
  <2>3. /\ seen.of = rest.of /\ seen.path = rest.path /\ seen.host = rest.host
        /\ seen.mode = rest.mode /\ seen.under = rest.under /\ seen.phase = rest.phase
        /\ seen.todo = rest.todo
        /\ kind \in ReadKind => seen.begun = rest.begun
    BY <1>4 DEF Job
  <2> QED
    BY <2>1, <2>2, <2>3
<1>6. seen.begun > 0 \/ (\E i \in 1 .. Len(seen.todo) : seen.todo[i] \in WriteKind) => MayWrite(w)
  BY <1>1, <1>2, <1>5, HeadWrites, TailWrites DEF MayWrite
<1>7. ASSUME NEW answer, NEW j, Update(w, j),
             \/ j = [seen EXCEPT !.phase = "done", !.answer = answer]
             \/ j = [seen EXCEPT !.answer = answer]
      PROVE  Kept(v)
  <2>1. /\ j.of = job[w].of /\ j.path = job[w].path /\ j.host = job[w].host
        /\ j.mode = job[w].mode /\ j.under = job[w].under
        /\ job[w].phase = "done" => j.phase = "done"
        /\ j.todo = seen.todo /\ j.begun = seen.begun
    BY <1>5, <1>7 DEF Job
  <2> QED
    BY <1>1, <1>6, <1>7, <2>1, UpdateKeeps
<1> QED
  BY <1>3, <1>7

LEMMA RestartKeeps ==
  ASSUME TypeOK, NEW v \in DOMAIN job, Restart
  PROVE  Kept(v)
<1>1. PICK begun \in SUBSET {w \in DOMAIN job : Writing(w)},
              goesOn \in SUBSET {k \in Click : Running(k)} :
        job' = [w \in DOMAIN job |-> Restarted(w, w \in begun, w \in goesOn)]
  BY DEF Restart
<1>2. v \in DOMAIN job' /\ job'[v] = Restarted(v, v \in begun, v \in goesOn) /\ job[v] \in Job
  BY <1>1 DEF TypeOK
<1>3. CASE v \in begun
  <2>1. job[v].todo # <<>> /\ Head(job[v].todo) \notin ReadKind /\ job[v].todo \in Seq(Kind)
    BY <1>2, <1>3 DEF Writing, WriteKind, ReadKind, Job
  <2>2. MayWrite(v)
    BY <2>1, HeadWrites DEF MayWrite
  <2> QED
    BY <1>2, <2>2 DEF Kept, Restarted, Killed, Job
<1>4. CASE v \notin begun
  <2>1. job'[v].begun = job[v].begun /\ job'[v].todo = job[v].todo
    BY <1>2, <1>4 DEF Restarted, Killed, Job
  <2>2. MayWrite(v)' => MayWrite(v)
    BY <2>1 DEF MayWrite
  <2> QED
    BY <1>2, <1>4, <2>2 DEF Kept, Restarted, Killed, Job
<1> QED
  BY <1>3, <1>4

LEMMA StepKeeps ==
  ASSUME TypeOK, [Next]_vars, NEW v \in DOMAIN job
  PROVE  Kept(v)
<1>1. CASE job' = job
  BY <1>1 DEF Kept, MayWrite
<1>2. ASSUME NEW w \in DOMAIN job, NEW j, Update(w, j), NEW answer,
             \/ j = [job[w] EXCEPT !.phase = "done"]
             \/ j = [job[w] EXCEPT !.phase = "done", !.answer = answer]
             \/ j = [job[w] EXCEPT !.answer = answer]
             \/ j = [job[w] EXCEPT !.late = @ - 1, !.took = @ + 1]
      PROVE  Kept(v)
  <2>1. /\ j.of = job[w].of /\ j.path = job[w].path /\ j.host = job[w].host
        /\ j.mode = job[w].mode /\ j.under = job[w].under
        /\ job[w].phase = "done" => j.phase = "done"
        /\ j.todo = job[w].todo /\ j.begun = job[w].begun
    BY <1>2 DEF TypeOK, Job
  <2> QED
    BY <1>2, <2>1, UpdateKeeps DEF MayWrite
<1>3. ASSUME NEW c \in Call, CallStep(c) PROVE Kept(v)
  <2>1. CASE \E p \in Path, h \in Host :
               Refuse(c, p, h) \/ Rehearse(c, p, h) \/ Act(c, p, h) \/ Ask(c, p, h)
    BY <2>1, StartKeeps DEF Refuse, Rehearse, Act, Ask
  <2>2. CASE Request(c)
    BY <1>2, <2>2 DEF Request, Running
  <2>3. CASE CannotRequest(c)
    BY <1>2, <2>3 DEF CannotRequest, Running
  <2>4. CASE Notify(c) \/ Lapse(c)
    BY <1>1, <2>4 DEF Notify, Lapse
  <2> QED
    BY <1>3, <2>1, <2>2, <2>3, <2>4 DEF CallStep
<1>4. ASSUME NEW k \in Click, NEW c \in Call, Approve(k, c) \/ ApproveInVain(k, c)
      PROVE  Kept(v)
  BY <1>4, StartKeeps DEF Approve, ApproveInVain
<1>5. ASSUME NEW k \in Click, GiveUp(k) PROVE Kept(v)
  BY <1>2, <1>5 DEF GiveUp, Running
<1>6. ASSUME NEW w \in Worker, TakesEffect(w) \/ Answered(w) PROVE Kept(v)
  BY <1>2, <1>6 DEF TakesEffect, Answered, Running
<1> QED
  BY <1>1, <1>3, <1>4, <1>5, <1>6, SucceedKeeps, FailKeeps, RestartKeeps DEF Next, vars

-----------------------------------------------------------------------------
Jobs(W) == W \cap DOMAIN job

(* Whose job it is.                                                        *)
Owned ==
  /\ \A c \in Jobs(Call) : job[c].of = c
  /\ \A k \in Jobs(Click) : job[k].of \in DOMAIN job /\ job[k].path = job[job[k].of].path

(* A call writes only if it is live and licensed.                          *)
CallsLicensed == \A c \in Jobs(Call) : MayWrite(c) => job[c].mode = "live" /\ Licensed(c)

(* A click writes only for a posted approval, and a reference that it      *)
(* spent.                                                                  *)
Spends(k) ==
  LET c == job[k].of IN
  /\ ~job[k].under.stop /\ approval[c] = "posted"
  /\ Carries(c) = "reference" =>
       job[k].host = job[c].host /\ c \in DOMAIN executions \ live
ClicksSpend == \A k \in Jobs(Click) : MayWrite(k) => Spends(k)

OneSpends ==
  \A k, l \in Jobs(Click) :
    MayWrite(k) /\ MayWrite(l) /\ job[k].of = job[l].of /\ Carries(job[k].of) = "reference"
    => k = l

IInv == TypeOK /\ Asked /\ Owned /\ CallsLicensed /\ ClicksSpend /\ OneSpends

LEMMA InitIInv == Init => IInv
  BY InitTypeOK
     DEF Init, IInv, Asked, Owned, CallsLicensed, ClicksSpend, OneSpends, Jobs

(* What has just started has written nothing.                              *)
LEMMA Fresh ==
  ASSUME NEW w, w \notin DOMAIN job, NEW c, NEW p, NEW h, NEW mode, NEW todo, NEW answer,
         Start(w, c, p, h, mode, todo, answer)
  PROVE  /\ DOMAIN job' = DOMAIN job \cup {w}
         /\ job'[w].of = c /\ job'[w].path = p /\ job'[w].host = h /\ job'[w].mode = mode
         /\ job'[w].under = setting
         /\ MayWrite(w)' => \E i \in 1 .. Len(todo) : todo[i] \in WriteKind
<1>1. /\ DOMAIN job' = DOMAIN job \cup {w} /\ job'[w].begun = 0 /\ job'[w].todo = todo
      /\ job'[w].of = c /\ job'[w].path = p /\ job'[w].host = h /\ job'[w].mode = mode
      /\ job'[w].under = setting
  BY DEF Start
<1> QED
  BY <1>1 DEF MayWrite

LEMMA ReadsOnlyWritesNot ==
  ASSUME NEW todo, ReadsOnly(todo)
  PROVE  ~\E i \in 1 .. Len(todo) : todo[i] \in WriteKind
  BY DEF ReadsOnly, ReadKind, WriteKind

(* How a job comes to be.                                                  *)
LEMMA Started ==
  ASSUME TypeOK, [Next]_vars, NEW w \in DOMAIN job' \ DOMAIN job
  PROVE  \/ w \in Call /\ \E p \in Path, h \in Host :
              Refuse(w, p, h) \/ Rehearse(w, p, h) \/ Act(w, p, h) \/ Ask(w, p, h)
         \/ w \in Click /\ \E c \in Call : Approve(w, c) \/ ApproveInVain(w, c)
<1>1. \A v, j : Update(v, j) => DOMAIN job' = DOMAIN job
  BY DEF Update
<1>2. ~(job' = job) /\ ~(\E v, j : Update(v, j))
  BY <1>1
<1>3. ~Restart
  BY DEF Restart
<1>4. ~\E v \in Worker : Succeed(v) \/ TakesEffect(v) \/ Answered(v)
  BY <1>2 DEF Succeed, TakesEffect, Answered
<1>5. ~\E v \in Worker : Fail(v)
  BY <1>2 DEF Fail
<1>6. ~\E c \in Call : Request(c) \/ CannotRequest(c) \/ Notify(c) \/ Lapse(c)
  BY <1>2 DEF Request, CannotRequest, Notify, Lapse
<1>7. ~\E k \in Click : GiveUp(k)
  BY <1>2 DEF GiveUp
<1>8. CASE \E c \in Call, p \in Path, h \in Host :
             Refuse(c, p, h) \/ Rehearse(c, p, h) \/ Act(c, p, h) \/ Ask(c, p, h)
  <2>1. PICK c \in Call, p \in Path, h \in Host :
          Refuse(c, p, h) \/ Rehearse(c, p, h) \/ Act(c, p, h) \/ Ask(c, p, h)
    BY <1>8
  <2>2. DOMAIN job' = DOMAIN job \cup {c}
    BY <2>1 DEF Refuse, Rehearse, Act, Ask, Start
  <2> QED
    BY <2>1, <2>2
<1>9. CASE \E k \in Click, c \in Call : Approve(k, c) \/ ApproveInVain(k, c)
  <2>1. PICK k \in Click, c \in Call : Approve(k, c) \/ ApproveInVain(k, c)
    BY <1>9
  <2>2. DOMAIN job' = DOMAIN job \cup {k}
    BY <2>1 DEF Approve, ApproveInVain, Start
  <2> QED
    BY <2>1, <2>2
<1> QED
  BY <1>2, <1>3, <1>4, <1>5, <1>6, <1>7, <1>8, <1>9 DEF Next, CallStep, vars

LEMMA StepAsked == TypeOK /\ Asked /\ [Next]_vars => Asked'
<1> SUFFICES ASSUME TypeOK, Asked, [Next]_vars, NEW c \in Call, approval'[c] # "none"
             PROVE  c \in DOMAIN job' /\ job'[c].mode = "ask" /\ job'[c].phase = "done"
  BY DEF Asked
<1>1. CASE approval[c] # "none"
  BY <1>1, StepKeeps DEF Asked, Kept
<1>2. CASE approval[c] = "none"
  <2>1. Request(c)
    BY <1>2 DEF TypeOK, Next, CallStep, Refuse, Rehearse, Act, Ask, Request, CannotRequest, Notify,
           Lapse, Approve, ApproveInVain, GiveUp, Succeed, Fail, TakesEffect, Answered,
           Restart, vars
  <2> QED
    BY <2>1 DEF Request, Running, Update, TypeOK, Job
<1> QED
  BY <1>1, <1>2

LEMMA StepOwned == IInv /\ [Next]_vars => Owned'
<1> SUFFICES ASSUME IInv, [Next]_vars, NEW w \in DOMAIN job'
             PROVE  /\ w \in Call => job'[w].of = w
                    /\ w \in Click => /\ job'[w].of \in DOMAIN job'
                                      /\ job'[w].path = job'[job'[w].of].path
  BY DEF Owned, Jobs
<1> USE DEF IInv
<1>1. CASE w \in DOMAIN job
  <2>1. Kept(w)
    BY <1>1, StepKeeps
  <2>2. w \in Click => Kept(job[w].of)
    BY <1>1, StepKeeps DEF Owned, Jobs
  <2> QED
    BY <1>1, <2>1, <2>2 DEF Kept, Owned, Jobs
<1>2. CASE w \notin DOMAIN job
  <2>1. CASE w \in Call /\ \E p \in Path, h \in Host :
               Refuse(w, p, h) \/ Rehearse(w, p, h) \/ Act(w, p, h) \/ Ask(w, p, h)
    <3>1. job'[w].of = w
      BY <1>2, <2>1, Fresh DEF Refuse, Rehearse, Act, Ask
    <3> QED
      BY <2>1, <3>1, WorkerAssumption
  <2>2. CASE w \in Click /\ \E c \in Call : Approve(w, c) \/ ApproveInVain(w, c)
    <3>1. PICK c \in Call : Approve(w, c) \/ ApproveInVain(w, c)
      BY <2>2
    <3>2. c \in DOMAIN job
      BY <3>1 DEF Asked, Approve, ApproveInVain
    <3>3. job'[w].of = c /\ job'[w].path = job[c].path
      <4>1. CASE Approve(w, c)
        <5>1. PICK todo, h : Start(w, c, job[c].path, h, "live", todo, "fine")
          BY <4>1 DEF Approve
        <5> QED
          BY <1>2, <5>1 DEF Start
      <4>2. CASE ApproveInVain(w, c)
        BY <1>2, <4>2 DEF ApproveInVain, Start
      <4> QED
        BY <3>1, <4>1, <4>2
    <3> QED
      BY <2>2, <3>2, <3>3, StepKeeps, WorkerAssumption DEF Kept
  <2> QED
    BY <1>2, <2>1, <2>2, Started
<1> QED
  BY <1>1, <1>2

LEMMA StepCalls == IInv /\ [Next]_vars => CallsLicensed'
<1> SUFFICES ASSUME IInv, [Next]_vars, NEW c \in Call, c \in DOMAIN job', MayWrite(c)'
             PROVE  job'[c].mode = "live" /\ Licensed(c)'
  BY DEF CallsLicensed, Jobs
<1> USE DEF IInv
<1>1. CASE c \in DOMAIN job
  <2>1. Kept(c)
    BY <1>1, StepKeeps
  <2>2. job[c].mode = "live" /\ Licensed(c)
    BY <1>1, <2>1 DEF Kept, CallsLicensed, Jobs
  <2> QED
    BY <2>1, <2>2 DEF Kept, Licensed
<1>2. CASE c \notin DOMAIN job
  <2>1. PICK p \in Path, h \in Host :
          Refuse(c, p, h) \/ Rehearse(c, p, h) \/ Act(c, p, h) \/ Ask(c, p, h)
    BY <1>2, Started, WorkerAssumption
  <2>2. ~Refuse(c, p, h)
    <3>1. ASSUME NEW answer, Start(c, c, p, h, "ask", <<>>, answer) PROVE FALSE
      BY <1>2, <3>1 DEF Start, MayWrite
    <3> QED
      BY <3>1 DEF Refuse
  <2>3. ~Rehearse(c, p, h) /\ ~Ask(c, p, h)
    BY <1>2, Fresh, ReadsOnlyWritesNot, RowAssumption DEF Rehearse, Ask
  <2>4. PICK todo \in Table[p].ways :
          ~Stopped(p) /\ Open(p) /\ Start(c, c, p, h, "live", todo, "fine")
    BY <2>1, <2>2, <2>3 DEF Act
  <2>5. ~ReadsOnly(todo) /\ job'[c].mode = "live" /\ job'[c].under = setting /\ job'[c].path = p
    BY <1>2, <2>4, Fresh, ReadsOnlyWritesNot
  <2>6. ~setting.stop
    BY <2>4, <2>5, RowAssumption DEF Stopped
  <2>7. Table[p].gate = "none" => p \in Ungated
    BY <2>4, <2>5, UngatedAssumption
  <2> QED
    BY <2>4, <2>5, <2>6, <2>7 DEF Open, Licensed
<1> QED
  BY <1>1, <1>2

(* A reference that is spent stays so.                                     *)
LEMMA StaysSpent ==
  ASSUME TypeOK, [Next]_vars, NEW c \in DOMAIN executions \ live
  PROVE  c \in DOMAIN executions' \ live'
<1>1. CASE UNCHANGED <<live, executions>>
  BY <1>1
<1>2. ASSUME NEW d, Contract!Issue(d) PROVE c \in DOMAIN executions' \ live'
  BY <1>2 DEF Contract!Issue
<1>3. ASSUME NEW d, Contract!Release(d) \/ Contract!Lapse(d)
      PROVE  c \in DOMAIN executions' \ live'
  BY <1>3 DEF Contract!Release, Contract!Lapse, TypeOK
<1>4. ASSUME NEW d \in Call, CallStep(d)
      PROVE  \/ UNCHANGED <<live, executions>>
             \/ \E r : Contract!Issue(r) \/ Contract!Lapse(r)
  BY <1>4 DEF CallStep, Refuse, Rehearse, Act, Ask, Request, CannotRequest, Notify, Lapse
<1>5. ASSUME NEW k \in Click, NEW d \in Call, Approve(k, d) \/ ApproveInVain(k, d)
      PROVE  UNCHANGED <<live, executions>> \/ \E r : Contract!Release(r)
  BY <1>5 DEF Approve, Release, ApproveInVain
<1>6. CASE \/ \E k \in Click : GiveUp(k)
           \/ \E w \in Worker : Succeed(w) \/ Fail(w) \/ TakesEffect(w) \/ Answered(w)
           \/ Restart \/ UNCHANGED vars
  BY <1>1, <1>6 DEF GiveUp, Succeed, Fail, TakesEffect, Answered, Restart, vars
<1> QED
  BY <1>1, <1>2, <1>3, <1>4, <1>5, <1>6 DEF Next

(* An approval that is posted stays so.                                    *)
LEMMA StaysPosted ==
  ASSUME TypeOK, Asked, [Next]_vars, NEW c \in Call, approval[c] = "posted"
  PROVE  approval'[c] = "posted"
<1>1. ~Request(c)
  BY DEF Request, Running, Asked
<1> QED
  BY <1>1 DEF TypeOK, Next, CallStep, Refuse, Rehearse, Act, Ask, Request, CannotRequest,
         Notify, Lapse, Approve, ApproveInVain, GiveUp, Succeed, Fail, TakesEffect, Answered,
         Restart, vars

(* A click that starts and may write spends what it was made for.          *)
LEMMA NewSpends ==
  ASSUME IInv, [Next]_vars, NEW k \in Click, k \in DOMAIN job', k \notin DOMAIN job, MayWrite(k)'
  PROVE  \E c \in Call :
           /\ Approve(k, c) /\ job'[k].of = c /\ c \in DOMAIN job /\ Kept(c)
           /\ job'[k].under = setting
           /\ Carries(c) = "reference" => job'[k].host = job[c].host /\ Release(c)
<1> USE DEF IInv
<1>1. PICK c \in Call : Approve(k, c) \/ ApproveInVain(k, c)
  BY Started, WorkerAssumption
<1>2. ~ApproveInVain(k, c)
  <2>1. ASSUME Start(k, c, job[c].path, "own", "live", <<>>, "failed") PROVE FALSE
    BY <2>1 DEF Start, MayWrite
  <2> QED
    BY <2>1 DEF ApproveInVain
<1>3. PICK todo : Start(k, c, job[c].path,
                        IF Carries(c) = "reference" THEN job[c].host ELSE "own",
                        "live", todo, "fine")
  BY <1>1, <1>2 DEF Approve
<1>4. /\ job'[k].of = c /\ job'[k].under = setting
      /\ job'[k].host = IF Carries(c) = "reference" THEN job[c].host ELSE "own"
  BY <1>3 DEF Start
<1>5. c \in DOMAIN job /\ Kept(c)
  BY <1>1, <1>2, StepKeeps DEF Approve, Asked
<1>6. Carries(c) = "reference" => Release(c)
  BY <1>1, <1>2 DEF Approve
<1> QED
  BY <1>1, <1>2, <1>4, <1>5, <1>6

LEMMA StepClicks == IInv /\ [Next]_vars => ClicksSpend'
<1> SUFFICES ASSUME IInv, [Next]_vars, NEW k \in Click, k \in DOMAIN job', MayWrite(k)'
             PROVE  Spends(k)'
  BY DEF ClicksSpend, Jobs
<1> USE DEF IInv
<1>1. CASE k \in DOMAIN job
  <2> DEFINE c == job[k].of
  <2>1. Kept(k) /\ Spends(k) /\ c \in Call /\ Kept(c)
    BY <1>1, StepKeeps DEF Kept, ClicksSpend, Jobs, TypeOK, Job, Owned
  <2>2. job'[k].of = c /\ job'[k].under = job[k].under /\ job'[k].host = job[k].host
        /\ job'[c].path = job[c].path /\ job'[c].host = job[c].host
    BY <2>1 DEF Kept
  <2>3. approval'[c] = "posted"
    BY <2>1, StaysPosted DEF Spends
  <2>4. Carries(c) = "reference" => c \in DOMAIN executions' \ live'
    BY <2>1, StaysSpent DEF Spends
  <2> HIDE DEF c
  <2> QED
    BY <2>1, <2>2, <2>3, <2>4 DEF Spends, Carries, c
<1>2. CASE k \notin DOMAIN job
  <2>1. PICK c \in Call :
          /\ Approve(k, c) /\ job'[k].of = c /\ c \in DOMAIN job /\ Kept(c)
          /\ job'[k].under = setting
          /\ Carries(c) = "reference" => job'[k].host = job[c].host /\ Release(c)
    BY <1>2, NewSpends
  <2>2. approval'[c] = "posted" /\ ~setting.stop
    BY <2>1 DEF Approve
  <2>3. Release(c) => c \in DOMAIN executions' \ live'
    BY DEF Release, Contract!Release, TypeOK
  <2> QED
    BY <2>1, <2>2, <2>3 DEF Spends, Carries, Kept
<1> QED
  BY <1>1, <1>2

LEMMA StepOneSpends == IInv /\ [Next]_vars => OneSpends'
<1> SUFFICES ASSUME IInv, [Next]_vars, NEW k \in Click, NEW l \in Click,
                    k \in DOMAIN job', l \in DOMAIN job', MayWrite(k)', MayWrite(l)',
                    job'[k].of = job'[l].of, Carries(job[k].of)' = "reference"
             PROVE  k = l
  BY DEF OneSpends, Jobs
<1> USE DEF IInv
<1>1. ASSUME NEW m \in Click, m \in DOMAIN job, MayWrite(m)'
      PROVE  Kept(m) /\ Spends(m) /\ Kept(job[m].of)
  BY <1>1, StepKeeps DEF Kept, ClicksSpend, Jobs, Owned
<1>2. CASE k \in DOMAIN job /\ l \in DOMAIN job
  <2>1. Kept(k) /\ Kept(l) /\ Kept(job[k].of)
    BY <1>1, <1>2
  <2> QED
    <3>1. MayWrite(k) /\ MayWrite(l) /\ job[k].of = job[l].of
      BY <2>1 DEF Kept
    <3>2. Carries(job[k].of) = "reference"
      BY <2>1 DEF Kept, Carries
    <3> QED
      BY <1>2, <3>1, <3>2 DEF OneSpends, Jobs
<1>3. ASSUME NEW m \in Click, NEW n \in Click, m \in DOMAIN job, n \notin DOMAIN job,
             n \in DOMAIN job', MayWrite(m)', MayWrite(n)', job'[m].of = job'[n].of,
             Carries(job[m].of)' = "reference"
      PROVE  FALSE
  <2>1. PICK c \in Call :
          job'[n].of = c /\ Kept(c) /\ (Carries(c) = "reference" => Release(c))
    BY <1>3, NewSpends
  <2>2. Kept(m) /\ Spends(m) /\ job[m].of = c
    BY <1>1, <1>3, <2>1 DEF Kept
  <2>3. Carries(c) = "reference"
    BY <1>3, <2>1, <2>2 DEF Kept, Carries
  <2> QED
    BY <2>1, <2>2, <2>3 DEF Spends, Release, Contract!Release
<1>4. CASE k \notin DOMAIN job /\ l \notin DOMAIN job
  <2>1. PICK c \in Call : Approve(k, c)
    BY <1>4, NewSpends
  <2>2. DOMAIN job' = DOMAIN job \cup {k}
    BY <2>1 DEF Approve, Start
  <2> QED
    BY <1>4, <2>2
<1> QED
  BY <1>2, <1>3, <1>4

LEMMA Invariant == Spec => []IInv
<1>1. IInv /\ [Next]_vars => IInv'
  BY StepTypeOK, StepAsked, StepOwned, StepCalls, StepClicks, StepOneSpends DEF IInv
<1> QED
  BY <1>1, InitIInv, PTL DEF Spec

-----------------------------------------------------------------------------
(* Every variable keeps its type.                                          *)
THEOREM TypeCorrect == Spec => []TypeOK
<1>1. IInv => TypeOK
  BY DEF IInv
<1> QED
  BY <1>1, Invariant, PTL

(* Whatever the tools do, and however the calls of one fail, nothing is    *)
(* changed without a licence, and a reference changes something once.      *)
THEOREM ActedWithLicenceAlways == Spec => []ActedWithLicence
<1>1. ASSUME IInv PROVE ActedWithLicence
  <2> USE <1>1 DEF IInv
  <2>1. \A w \in DOMAIN job : job[w].begun > 0 => MayWrite(w)
    BY DEF MayWrite
  <2>2. ASSUME NEW c \in Jobs(Call), job[c].begun > 0 PROVE Licensed(c)
    BY <2>1, <2>2 DEF CallsLicensed, Jobs
  <2>3. ASSUME NEW k \in Jobs(Click), job[k].begun > 0 PROVE Approved(k)
    <3> DEFINE c == job[k].of
    <3>1. Spends(k) /\ c \in Call
      BY <2>1, <2>3 DEF ClicksSpend, Jobs, TypeOK, Job
    <3>2. c \in DOMAIN job /\ job[c].mode = "ask"
      BY <3>1 DEF Asked, Spends
    <3>3. ~MayWrite(c)
      BY <3>1, <3>2 DEF CallsLicensed, Jobs
    <3>4. job[c].begun = 0
      BY <3>2, <3>3 DEF MayWrite, TypeOK, Job
    <3> QED
      BY <3>1, <3>4 DEF Spends, Approved
  <2>4. ASSUME NEW k \in Jobs(Click), NEW l \in Jobs(Click),
               job[k].begun > 0, job[l].begun > 0, job[k].of = job[l].of,
               Carries(job[k].of) = "reference"
        PROVE  k = l
    BY <2>1, <2>4 DEF OneSpends, Jobs
  <2>5. DOMAIN job \subseteq Call \cup Click
    BY DEF TypeOK, Worker
  <2> QED
    BY <2>2, <2>3, <2>4, <2>5 DEF ActedWithLicence, Jobs
<1> QED
  BY <1>1, Invariant, PTL

-----------------------------------------------------------------------------
(* What an answer is worth: of a job's record alone, so that a step is     *)
(* judged by what it does to the record.                                   *)

(* A call of a tool of evidence has read something, or has ended with an   *)
(* answer that is none, or has a read ahead whose failure would end it so. *)
EvidenceSound(j) ==
  j.path \notin Hearsay /\ "evidence" \in Table[j.path].role =>
    \/ j.read > 0
    \/ j.answer \notin {"fine", "failed"} /\ j.phase = "done"
    \/ /\ j.phase = "running" /\ Guarded(j.todo)
       /\ j.answer \in {"fine", "failed"} => Informs(j.todo)

(* A remedy whose answer is still fine is a rehearsal, or every write it   *)
(* began took effect, and it has made one or is about to.                  *)
AppliedSound(j) ==
  j.path \notin Unverified /\ "remedy" \in Table[j.path].role /\ j.answer = "fine" =>
    \/ j.mode = "dry"
    \/ /\ j.mode = "live" /\ j.begun = j.took /\ j.late = 0 /\ LooksAt(j.todo)
       /\ j.begun > 0 \/ (j.phase = "running" /\ Writes(j.todo))

Sound(j) == EvidenceSound(j) /\ AppliedSound(j)
AnswersSound == \A c \in Jobs(Call) : Sound(job[c])

(* Past its first call, a way keeps what it promises, unless that call was *)
(* what the promise rests on.                                              *)
LEMMA TailInforms ==
  ASSUME NEW todo \in Seq(Kind), todo # <<>>, Informs(todo), Head(todo) \notin {"need", "later"}
  PROVE  Informs(Tail(todo))
<1>1. PICK i \in 1 .. Len(todo) : todo[i] \in {"need", "later"}
  BY DEF Informs
<1>2. i # 1
  BY <1>1
<1>3. i - 1 \in 1 .. Len(Tail(todo)) /\ Tail(todo)[i - 1] = todo[i]
  BY <1>2
<1> QED
  BY <1>1, <1>3 DEF Informs

(* The same of the write that a remedy is to make.                         *)
LEMMA TailStillWrites ==
  ASSUME NEW todo \in Seq(Kind), todo # <<>>, Writes(todo), Head(todo) \in ReadKind
  PROVE  Writes(Tail(todo))
<1>1. PICK i \in 1 .. Len(todo) : todo[i] \in WriteKind
  BY DEF Writes
<1>2. i # 1
  BY <1>1 DEF ReadKind, WriteKind
<1>3. i - 1 \in 1 .. Len(Tail(todo)) /\ Tail(todo)[i - 1] = todo[i]
  BY <1>2
<1> QED
  BY <1>1, <1>3 DEF Writes

(* What a remedy looks at it still looks at, and its next call first.      *)
LEMMA TailLooksAt ==
  ASSUME NEW todo \in Seq(Kind), todo # <<>>, LooksAt(todo)
  PROVE  LooksAt(Tail(todo)) /\ Head(todo) # "try"
<1>1. \A i \in 1 .. Len(Tail(todo)) : i + 1 \in 1 .. Len(todo) /\ Tail(todo)[i] = todo[i + 1]
  OBVIOUS
<1>2. 1 \in 1 .. Len(todo) /\ Head(todo) = todo[1]
  OBVIOUS
<1> QED
  BY <1>1, <1>2 DEF LooksAt

(* A guarded way does not begin with what may fail into an answer, and is  *)
(* guarded past a call that guards nothing.                                *)
LEMMA TailGuarded ==
  ASSUME NEW todo \in Seq(Kind), todo # <<>>, Guarded(todo), Head(todo) # "need"
  PROVE  Guarded(Tail(todo)) /\ Head(todo) \notin {"halt", "run"}
<1>1. 1 \in 1 .. Len(todo) /\ Head(todo) = todo[1]
  OBVIOUS
<1>2. Head(todo) \notin {"halt", "run"}
  BY <1>1 DEF Guarded
<1>3. ASSUME NEW j \in 1 .. Len(Tail(todo)), Tail(todo)[j] \in {"halt", "run"}
      PROVE  \E i \in 1 .. Len(Tail(todo)) : i < j /\ Tail(todo)[i] = "need"
  <2>1. j + 1 \in 1 .. Len(todo) /\ Tail(todo)[j] = todo[j + 1]
    OBVIOUS
  <2>2. PICK i \in 1 .. Len(todo) : i < j + 1 /\ todo[i] = "need"
    BY <1>3, <2>1 DEF Guarded
  <2>3. i # 1
    BY <1>1, <2>2
  <2>4. i - 1 \in 1 .. Len(Tail(todo)) /\ Tail(todo)[i - 1] = todo[i] /\ i - 1 < j
    BY <2>2, <2>3
  <2> QED
    BY <2>2, <2>4
<1> QED
  BY <1>2, <1>3 DEF Guarded

(* A call that does what it is to do keeps a record sound, ...             *)
LEMMA SucceedSound ==
  ASSUME NEW j \in Job, j.phase = "running", j.todo # <<>>, Sound(j), NEW k,
         k = IF Head(j.todo) \in ReadKind
             THEN [j EXCEPT !.todo = Tail(@), !.read = @ + 1]
             ELSE [j EXCEPT !.todo = Tail(@), !.begun = @ + 1, !.took = @ + 1]
  PROVE  Sound(k)
<1>1. /\ j.todo \in Seq(Kind) /\ Head(j.todo) \in Kind
      /\ j.read \in Nat /\ j.begun \in Nat /\ j.took \in Nat
  BY DEF Job
<1>2. /\ k.path = j.path /\ k.mode = j.mode /\ k.answer = j.answer /\ k.phase = "running"
      /\ k.late = j.late /\ k.todo = Tail(j.todo)
  BY DEF Job
<1>3. CASE Head(j.todo) \in ReadKind
  <2>1. k.read = j.read + 1 /\ k.begun = j.begun /\ k.took = j.took
    BY <1>3 DEF Job
  <2>2. EvidenceSound(k)
    BY <1>1, <2>1 DEF EvidenceSound
  <2>3. AppliedSound(k)
    BY <1>1, <1>2, <1>3, <2>1, TailStillWrites, TailLooksAt DEF Sound, AppliedSound
  <2> QED
    BY <2>2, <2>3 DEF Sound
<1>4. CASE Head(j.todo) \notin ReadKind
  <2>1. k.read = j.read /\ k.begun = j.begun + 1 /\ k.took = j.took + 1
    BY <1>4 DEF Job
  <2>2. Head(j.todo) \notin {"need", "later"}
    BY <1>4 DEF ReadKind
  <2>3. EvidenceSound(k)
    BY <1>1, <1>2, <2>1, <2>2, TailInforms, TailGuarded DEF Sound, EvidenceSound
  <2>4. k.begun > 0
    BY <1>1, <2>1
  <2>5. AppliedSound(k)
    BY <1>1, <1>2, <2>1, <2>4, TailLooksAt DEF Sound, AppliedSound
  <2> QED
    BY <2>3, <2>5 DEF Sound
<1> QED
  BY <1>3, <1>4

(* ... and so does one that fails, for what its failure leaves: an end     *)
(* with an answer that is none, or a job that goes on to what its answer   *)
(* has become.                                                             *)
LEMMA FailSound ==
  ASSUME NEW j \in Job, j.phase = "running", j.todo # <<>>, Sound(j), NEW k,
         k.path = j.path, k.mode = j.mode, k.read = j.read, k.todo = Tail(j.todo),
         Head(j.todo) \in ReadKind =>
           k.begun = j.begun /\ k.took = j.took /\ k.late = j.late,
         \/ k.phase = "done" /\ k.answer \in Ends(Head(j.todo))
         \/ k.phase = "running" /\ k.answer \in GoesOn(Head(j.todo), j.answer)
  PROVE  Sound(k)
<1> DEFINE kind == Head(j.todo)
<1>1. j.todo \in Seq(Kind) /\ kind \in Kind
  BY DEF Job
<1>2. EvidenceSound(k)
  <2> SUFFICES ASSUME j.path \notin Hearsay, "evidence" \in Table[j.path].role, ~(j.read > 0)
               PROVE  EvidenceSound(k)
    BY DEF EvidenceSound
  <2>1. Guarded(j.todo) /\ (j.answer \in {"fine", "failed"} => Informs(j.todo))
    BY DEF Sound, EvidenceSound
  <2>2. CASE kind = "need"
    BY <2>2 DEF Ends, GoesOn, EvidenceSound
  <2>3. CASE kind # "need"
    <3>1. Guarded(k.todo) /\ kind \notin {"halt", "run"}
      BY <1>1, <2>1, <2>3, TailGuarded
    <3>2. CASE k.phase = "done"
      <4>1. k.answer \notin {"fine", "failed"}
        BY <3>1, <3>2 DEF Ends
      <4> QED
        BY <3>2, <4>1 DEF EvidenceSound
    <3>3. CASE k.phase = "running"
      <4>1. k.answer \in GoesOn(kind, j.answer)
        BY <3>3
      <4>2. k.answer \in {"fine", "failed"} =>
              kind \notin {"need", "later"} /\ j.answer \in {"fine", "failed"}
        BY <2>3, <4>1 DEF GoesOn
      <4>3. k.answer \in {"fine", "failed"} => Informs(k.todo)
        BY <1>1, <2>1, <4>2, TailInforms
      <4> QED
        BY <3>1, <3>3, <4>3 DEF EvidenceSound
    <3> QED
      BY <3>2, <3>3
  <2> QED
    BY <2>2, <2>3
<1>3. AppliedSound(k)
  <2> SUFFICES ASSUME j.path \notin Unverified, "remedy" \in Table[j.path].role,
                      k.answer = "fine", k.mode # "dry"
               PROVE  AppliedSound(k)
    BY DEF AppliedSound
  <2>1. k.phase = "running" /\ kind \in {"told", "blank", "try"} /\ j.answer = "fine"
    BY DEF Ends, GoesOn
  <2>2. /\ j.mode = "live" /\ j.begun = j.took /\ j.late = 0 /\ LooksAt(j.todo)
        /\ j.begun > 0 \/ Writes(j.todo)
    BY <2>1 DEF Sound, AppliedSound
  <2>3. kind \in ReadKind
    BY <1>1, <2>1, <2>2, TailLooksAt DEF ReadKind
  <2>4. LooksAt(k.todo) /\ (j.begun > 0 \/ Writes(k.todo))
    BY <1>1, <2>2, <2>3, TailLooksAt, TailStillWrites
  <2> QED
    BY <2>1, <2>2, <2>3, <2>4 DEF AppliedSound
<1> QED
  BY <1>2, <1>3 DEF Sound

(* So does an end with nothing left to do, ...                             *)
LEMMA DoneSound ==
  ASSUME NEW j, j.phase = "running", j.todo = <<>>, Sound(j), NEW k,
         k.path = j.path, k.mode = j.mode, k.read = j.read, k.todo = j.todo,
         k.answer = j.answer, k.begun = j.begun, k.took = j.took, k.late = j.late,
         k.phase = "done"
  PROVE  Sound(k)
<1>1. ~Informs(<<>>) /\ ~Writes(<<>>)
  BY DEF Informs, Writes
<1>2. EvidenceSound(k)
  BY <1>1 DEF Sound, EvidenceSound
<1>3. AppliedSound(k)
  BY <1>1 DEF Sound, AppliedSound
<1> QED
  BY <1>2, <1>3 DEF Sound

(* ... an end with an answer that is none, ...                             *)
LEMMA NoAnswerSound ==
  ASSUME NEW k, k.phase = "done", k.answer \notin {"fine", "failed"}
  PROVE  Sound(k)
  BY DEF Sound, EvidenceSound, AppliedSound

(* ... and a write that comes late: the answer was not fine by then.       *)
LEMMA LateSound ==
  ASSUME NEW j \in Job, j.late > 0, Sound(j), NEW k,
         k = [j EXCEPT !.late = @ - 1, !.took = @ + 1]
  PROVE  Sound(k)
<1>1. /\ k.path = j.path /\ k.mode = j.mode /\ k.read = j.read /\ k.todo = j.todo
      /\ k.answer = j.answer /\ k.phase = j.phase
  BY DEF Job
<1>2. EvidenceSound(k)
  BY <1>1 DEF Sound, EvidenceSound
<1>3. j.late # 0
  BY DEF Job
<1>4. AppliedSound(k)
  BY <1>1, <1>3 DEF Sound, AppliedSound
<1> QED
  BY <1>2, <1>4 DEF Sound

-----------------------------------------------------------------------------
(* What a step does to the record of a call that was there, and what the   *)
(* record of a new call is like.                                           *)

(* An update changes one record.                                           *)
LEMMA UpdateSound ==
  ASSUME AnswersSound, NEW w, NEW k, Update(w, k), w \in Call => Sound(k)
  PROVE  AnswersSound'
<1>1. DOMAIN job' = DOMAIN job
      /\ \A c \in DOMAIN job : job'[c] = IF c = w THEN k ELSE job[c]
  BY DEF Update
<1>2. \A c \in Jobs(Call) : Sound(job'[c])
  BY <1>1 DEF AnswersSound, Jobs
<1>3. \A c \in Jobs(Call) : Sound(job[c])'
  BY <1>2 DEF Sound, EvidenceSound, AppliedSound
<1> QED
  BY <1>1, <1>3 DEF AnswersSound, Jobs

(* A start adds one.                                                       *)
LEMMA StartSound ==
  ASSUME AnswersSound, NEW w, w \notin DOMAIN job, NEW c, NEW p, NEW h, NEW mode,
         NEW todo, NEW answer, Start(w, c, p, h, mode, todo, answer),
         w \in Call =>
           /\ p \notin Hearsay /\ "evidence" \in Table[p].role =>
                Guarded(todo) /\ (answer \in {"fine", "failed"} => Informs(todo))
           /\ p \notin Unverified /\ "remedy" \in Table[p].role /\ answer = "fine" =>
                mode = "dry" \/ (mode = "live" /\ LooksAt(todo) /\ Writes(todo))
  PROVE  AnswersSound'
<1> DEFINE new == [phase |-> "running", of |-> c, path |-> p, host |-> h,
                   mode |-> mode, todo |-> todo, answer |-> answer,
                   read |-> 0, begun |-> 0, took |-> 0, late |-> 0,
                   under |-> setting]
<1>1. /\ DOMAIN job' = DOMAIN job \cup {w} /\ job'[w] = new
      /\ \A d \in DOMAIN job : job'[d] = job[d]
  BY DEF Start
<1>2. w \in Call => Sound(new)
  BY DEF Sound, EvidenceSound, AppliedSound
<1> HIDE DEF new
<1>3. \A d \in Call \cap DOMAIN job' : Sound(job'[d])
  BY <1>1, <1>2 DEF AnswersSound, Jobs
<1>4. \A d \in Call \cap DOMAIN job' : Sound(job[d])'
  BY <1>3 DEF Sound, EvidenceSound, AppliedSound
<1> QED
  BY <1>4 DEF AnswersSound, Jobs

(* The agent's calls begin as the assumptions on the rows say.             *)
LEMMA CallSound ==
  ASSUME AnswersSound, NEW c \in Call, NEW p \in Path, NEW h \in Host, CallsNow(c),
         Refuse(c, p, h) \/ Rehearse(c, p, h) \/ Act(c, p, h) \/ Ask(c, p, h)
  PROVE  AnswersSound'
<1>1. c \notin DOMAIN job
  BY DEF CallsNow
<1>2. CASE Refuse(c, p, h)
  <2>1. PICK answer \in {"blocked", "error"} : Start(c, c, p, h, "ask", <<>>, answer)
    BY <1>2 DEF Refuse
  <2>2. Guarded(<<>>)
    BY DEF Guarded
  <2> QED
    BY <1>1, <2>1, <2>2, StartSound
<1>3. CASE Rehearse(c, p, h)
  <2>1. PICK todo \in Table[p].dry : Start(c, c, p, h, "dry", todo, "fine")
    BY <1>3 DEF Rehearse
  <2> QED
    BY <1>1, <2>1, StartSound, HearsayAssumption
<1>4. CASE Act(c, p, h)
  <2>1. PICK todo \in Table[p].ways : Start(c, c, p, h, "live", todo, "fine")
    BY <1>4 DEF Act
  <2> QED
    BY <1>1, <2>1, StartSound, HearsayAssumption, UnverifiedAssumption
<1>5. CASE Ask(c, p, h)
  <2>1. PICK todo \in Table[p].asking : Start(c, c, p, h, "ask", todo, "blocked")
    BY <1>5 DEF Ask
  <2> QED
    BY <1>1, <2>1, StartSound, HearsayAssumption
<1> QED
  BY <1>2, <1>3, <1>4, <1>5

(* A failed call updates the record as FailSound asks.                     *)
LEMMA StepFailSound ==
  ASSUME TypeOK, AnswersSound, NEW w \in Worker, Fail(w)
  PROVE  AnswersSound'
<1> DEFINE kind == Head(job[w].todo)
           rest == [job[w] EXCEPT !.todo = Tail(@)]
           Seen == IF kind \in ReadKind THEN {rest}
                   ELSE {[rest EXCEPT !.begun = @ + 1],
                         [rest EXCEPT !.begun = @ + 1, !.took = @ + 1],
                         [rest EXCEPT !.begun = @ + 1, !.late = @ + 1]}
<1>1. w \in DOMAIN job /\ job[w].todo # <<>> /\ job[w] \in Job /\ job[w].phase = "running"
  BY DEF Fail, Running, TypeOK
<1>2. PICK seen \in Seen :
        \/ \E answer \in Ends(kind) :
             Update(w, [seen EXCEPT !.phase = "done", !.answer = answer])
        \/ \E answer \in GoesOn(kind, job[w].answer) :
             Update(w, [seen EXCEPT !.answer = answer])
  BY DEF Fail
<1>3. rest \in Job
  BY <1>1, TodoType, CountType
<1>4. /\ seen \in Job
      /\ seen.path = job[w].path /\ seen.mode = job[w].mode /\ seen.phase = "running"
      /\ seen.read = job[w].read /\ seen.todo = Tail(job[w].todo)
      /\ kind \in ReadKind =>
           seen.begun = job[w].begun /\ seen.took = job[w].took /\ seen.late = job[w].late
  <2>1. /\ rest.path = job[w].path /\ rest.mode = job[w].mode /\ rest.phase = "running"
        /\ rest.read = job[w].read /\ rest.todo = Tail(job[w].todo)
        /\ rest.begun = job[w].begun /\ rest.took = job[w].took /\ rest.late = job[w].late
    BY <1>1 DEF Job
  <2> HIDE DEF rest
  <2>2. Seen \subseteq Job
    BY <1>3, CountType
  <2>3. /\ seen.path = rest.path /\ seen.mode = rest.mode /\ seen.phase = rest.phase
        /\ seen.read = rest.read /\ seen.todo = rest.todo
        /\ kind \in ReadKind => seen = rest
    BY <1>3 DEF Job
  <2> QED
    BY <2>1, <2>2, <2>3
<1>5. ASSUME NEW answer, NEW k, Update(w, k),
             \/ k = [seen EXCEPT !.phase = "done", !.answer = answer] /\ answer \in Ends(kind)
             \/ k = [seen EXCEPT !.answer = answer] /\ answer \in GoesOn(kind, job[w].answer)
      PROVE  AnswersSound'
  <2>1. /\ k.path = job[w].path /\ k.mode = job[w].mode /\ k.read = job[w].read
        /\ k.todo = Tail(job[w].todo)
        /\ kind \in ReadKind =>
             k.begun = job[w].begun /\ k.took = job[w].took /\ k.late = job[w].late
        /\ \/ k.phase = "done" /\ k.answer \in Ends(kind)
           \/ k.phase = "running" /\ k.answer \in GoesOn(kind, job[w].answer)
    BY <1>4, <1>5 DEF Job
  <2>2. w \in Call => Sound(job[w])
    BY <1>1 DEF AnswersSound, Jobs
  <2>3. w \in Call => Sound(k)
    BY <1>1, <2>1, <2>2, FailSound
  <2> QED
    BY <1>5, <2>3, UpdateSound
<1> QED
  BY <1>2, <1>5

(* A restart ends what a call was doing without an answer.                 *)
LEMMA RestartSound ==
  ASSUME TypeOK, AnswersSound, Restart
  PROVE  AnswersSound'
<1>1. PICK begun \in SUBSET {w \in DOMAIN job : Writing(w)},
              goesOn \in SUBSET {k \in Click : Running(k)} :
        job' = [w \in DOMAIN job |-> Restarted(w, w \in begun, w \in goesOn)]
  BY DEF Restart
<1>2. ASSUME NEW c \in Jobs(Call) PROVE Sound(job'[c])
  <2>1. c \notin goesOn /\ job[c] \in Job
    BY <1>1, WorkerAssumption DEF Jobs, TypeOK
  <2>2. job'[c] = job[c] \/ job'[c] = Killed(c, c \in begun)
    BY <1>1, <2>1 DEF Restarted, Jobs
  <2>3. Killed(c, c \in begun).phase = "done" /\ Killed(c, c \in begun).answer = "none"
    BY <2>1 DEF Killed, Job
  <2> QED
    BY <2>2, <2>3, NoAnswerSound DEF AnswersSound
<1>3. \A c \in Jobs(Call) : Sound(job[c])'
  BY <1>2 DEF Sound, EvidenceSound, AppliedSound
<1> QED
  BY <1>1, <1>3 DEF AnswersSound, Jobs

(* No step makes an unsound record of a call.                              *)
LEMMA StepSound == IInv /\ AnswersSound /\ [Next]_vars => AnswersSound'
<1> SUFFICES ASSUME IInv, AnswersSound, [Next]_vars PROVE AnswersSound'
  OBVIOUS
<1> USE DEF IInv
<1>1. ASSUME job' = job PROVE AnswersSound'
  BY <1>1 DEF AnswersSound, Jobs, Sound, EvidenceSound, AppliedSound
<1>2. ASSUME NEW w \in Worker, Running(w) PROVE job[w] \in Job /\ (w \in Call => Sound(job[w]))
  BY <1>2 DEF Running, TypeOK, AnswersSound, Jobs
<1>3. ASSUME NEW c \in Call, CallStep(c) PROVE AnswersSound'
  <2>1. CASE CallsNow(c) /\ \E p \in Path, h \in Host :
               Refuse(c, p, h) \/ Rehearse(c, p, h) \/ Act(c, p, h) \/ Ask(c, p, h)
    BY <2>1, CallSound
  <2>2. CASE Request(c)
    <3>1. Running(c) /\ job[c].todo = <<>> /\ Update(c, [job[c] EXCEPT !.phase = "done"])
      BY <2>2 DEF Request
    <3>2. Sound([job[c] EXCEPT !.phase = "done"])
      BY <1>2, <3>1, DoneSound DEF Worker, Running, Job
    <3> QED
      BY <3>1, <3>2, UpdateSound
  <2>3. CASE CannotRequest(c)
    <3> DEFINE k == [job[c] EXCEPT !.phase = "done", !.answer = "error"]
    <3>1. Running(c) /\ Update(c, k)
      BY <2>3 DEF CannotRequest
    <3>2. k.phase = "done" /\ k.answer = "error"
      BY <1>2, <3>1 DEF Worker, Job
    <3> HIDE DEF k
    <3> QED
      BY <3>1, <3>2, NoAnswerSound, UpdateSound
  <2>4. CASE Notify(c) \/ Lapse(c)
    BY <1>1, <2>4 DEF Notify, Lapse
  <2> QED
    BY <1>3, <2>1, <2>2, <2>3, <2>4 DEF CallStep
<1>4. ASSUME NEW k \in Click, NEW c \in Call, Approve(k, c) \/ ApproveInVain(k, c)
      PROVE  AnswersSound'
  <2>1. k \notin DOMAIN job /\ k \notin Call
    BY <1>4, WorkerAssumption DEF Approve, ApproveInVain
  <2> QED
    BY <1>4, <2>1, StartSound DEF Approve, ApproveInVain
<1>5. ASSUME NEW k \in Click, GiveUp(k) PROVE AnswersSound'
  BY <1>5, UpdateSound, WorkerAssumption DEF GiveUp
<1>6. ASSUME NEW w \in Worker, Succeed(w) PROVE AnswersSound'
  <2> DEFINE k == IF Head(job[w].todo) \in ReadKind
                  THEN [job[w] EXCEPT !.todo = Tail(@), !.read = @ + 1]
                  ELSE [job[w] EXCEPT !.todo = Tail(@), !.begun = @ + 1, !.took = @ + 1]
  <2>1. Running(w) /\ job[w].todo # <<>> /\ Update(w, k)
    BY <1>6 DEF Succeed
  <2>2. w \in Call => Sound(k)
    BY <1>2, <2>1, SucceedSound DEF Running
  <2> HIDE DEF k
  <2> QED
    BY <2>1, <2>2, UpdateSound
<1>7. ASSUME NEW w \in Worker, TakesEffect(w) PROVE AnswersSound'
  <2>1. job[w] \in Job /\ job[w].late > 0 /\ (w \in Call => Sound(job[w]))
    BY <1>7 DEF TakesEffect, TypeOK, AnswersSound, Jobs
  <2>2. w \in Call => Sound([job[w] EXCEPT !.late = @ - 1, !.took = @ + 1])
    BY <2>1, LateSound
  <2> QED
    BY <1>7, <2>2, UpdateSound DEF TakesEffect
<1>8. ASSUME NEW w \in Worker, Answered(w) PROVE AnswersSound'
  <2>1. Running(w) /\ job[w].todo = <<>> /\ Update(w, [job[w] EXCEPT !.phase = "done"])
    BY <1>8 DEF Answered
  <2>2. w \in Call => Sound([job[w] EXCEPT !.phase = "done"])
    BY <1>2, <2>1, DoneSound DEF Running, Job
  <2> QED
    BY <2>1, <2>2, UpdateSound
<1>9. CASE UNCHANGED vars
  BY <1>1, <1>9 DEF vars
<1> QED
  BY <1>3, <1>4, <1>5, <1>6, <1>7, <1>8, <1>9, StepFailSound, RestartSound DEF Next

LEMMA SoundInvariant == Spec => [](IInv /\ AnswersSound)
<1>1. Init => AnswersSound
  BY DEF Init, AnswersSound, Jobs
<1> QED
  BY <1>1, Invariant, StepSound, PTL DEF Spec

(* For any table whose rows but Hearsay's are as the assumption says: an   *)
(* answer that grounds a conclusion comes from a call that read something. *)
THEOREM EvidenceWasReadAlways == Spec => []EvidenceWasRead
<1>1. IInv /\ AnswersSound => EvidenceWasRead
  BY DEF AnswersSound, Jobs, Sound, EvidenceSound, EvidenceWasRead, CountsAsEvidence,
     Done, Role
<1> QED
  BY <1>1, SoundInvariant, PTL

(* And a remedy that is answered as fine was a rehearsal, or made a change *)
(* and saw every one of them take effect, whichever calls failed.          *)
THEOREM AppliedWasDoneAlways == Spec => []AppliedWasDone
<1>1. IInv /\ AnswersSound => AppliedWasDone
  BY DEF AnswersSound, Jobs, Sound, AppliedSound, AppliedWasDone, CountsAsRemediation,
     Done, Role
<1> QED
  BY <1>1, SoundInvariant, PTL

-----------------------------------------------------------------------------
(* The tools use retained approvals as the contract allows: every step     *)
(* issues, releases or lapses one reference, or leaves them all alone.     *)
LEMMA StepContract == TypeOK /\ [Next]_vars => [Contract!Next]_(Contract!vars)
<1> SUFFICES ASSUME TypeOK, [Next]_vars PROVE [Contract!Next]_(Contract!vars)
  OBVIOUS
<1>1. ASSUME UNCHANGED <<live, executions>> PROVE UNCHANGED Contract!vars
  BY <1>1 DEF Contract!vars
<1>2. ASSUME NEW c \in Call, Contract!Issue(c) \/ Contract!Release(c) \/ Contract!Lapse(c)
      PROVE  Contract!Next
  <2>1. c \in DOMAIN executions'
    BY <1>2 DEF Contract!Issue, Contract!Release, Contract!Lapse, TypeOK
  <2> QED
    BY <1>2, <2>1 DEF Contract!Next
<1>3. ASSUME NEW c \in Call, CallStep(c) PROVE [Contract!Next]_(Contract!vars)
  <2>1. \/ UNCHANGED <<live, executions>>
        \/ Contract!Issue(c) \/ Contract!Lapse(c)
    BY <1>3 DEF CallStep, Refuse, Rehearse, Act, Ask, Request, CannotRequest, Notify, Lapse
  <2> QED
    BY <1>1, <1>2, <2>1
<1>4. ASSUME NEW k \in Click, NEW c \in Call, Approve(k, c) \/ ApproveInVain(k, c)
      PROVE  [Contract!Next]_(Contract!vars)
  <2>1. UNCHANGED <<live, executions>> \/ Contract!Release(c)
    BY <1>4 DEF Approve, Release, ApproveInVain
  <2> QED
    BY <1>1, <1>2, <2>1
<1>5. CASE \/ \E k \in Click : GiveUp(k)
           \/ \E w \in Worker : Succeed(w) \/ Fail(w) \/ TakesEffect(w) \/ Answered(w)
           \/ Restart \/ UNCHANGED vars
  BY <1>1, <1>5 DEF GiveUp, Succeed, Fail, TakesEffect, Answered, Restart, vars
<1> QED
  BY <1>3, <1>4, <1>5 DEF Next

(* So the tools keep to the interface that ApprovalStore implements: what  *)
(* is proved of the one composes with what is proved of the other.         *)
THEOREM ContractKept == Spec => Contract!Spec
<1>1. Init => Contract!Init
  BY DEF Init
<1>2. Init /\ [][Next]_vars => Contract!Init /\ [][Contract!Next]_(Contract!vars)
  BY <1>1, StepContract, Invariant, PTL DEF Spec, IInv
<1> QED
  BY <1>2 DEF Spec, Contract!Spec
=============================================================================
