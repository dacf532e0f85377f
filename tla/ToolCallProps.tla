---------------------------- MODULE ToolCallProps ----------------------------
(***************************************************************************)
(* What is claimed of ToolCall: what grounding may take an answer for, and *)
(* who let a change happen.                                                *)
(***************************************************************************)
EXTENDS ToolCall

CONSTANTS
  Hearsay,     \* tools that answer as evidence without having read anything
  Unverified,  \* tools that answer as done what was not, or not all
  Ungated      \* tools that change something without asking AUTO_APPLY

(* Rehearsals and what precedes a request only read, and so does a tool    *)
(* that the emergency stop lets pass.                                      *)
ReadsOnly(todo) == \A i \in 1 .. Len(todo) : todo[i] \in ReadKind
ASSUME RowAssumption ==
  \A p \in Path :
    /\ \A todo \in Table[p].dry \cup Table[p].asking : ReadsOnly(todo)
    /\ ~Table[p].stops => \A todo \in Table[p].ways : ReadsOnly(todo)
ASSUME UngatedAssumption ==
  \A p \in Path \ Ungated :
    Table[p].gate = "none" => \A todo \in Table[p].ways : ReadsOnly(todo)

(* A failure may leave an answer that counts as evidence only after a call *)
(* that ends the tool with an error when it fails; and a way that is       *)
(* answered as fine makes a call whose failure shows in the answer.  So it *)
(* is with every tool of evidence that is not named Hearsay.               *)
Guarded(todo) ==
  \A j \in 1 .. Len(todo) :
    todo[j] \in {"halt", "run"} => \E i \in 1 .. Len(todo) : i < j /\ todo[i] = "need"
Informs(todo) == \E i \in 1 .. Len(todo) : todo[i] \in {"need", "later"}
ASSUME HearsayAssumption ==
  \A p \in Path \ Hearsay :
    "evidence" \in Table[p].role =>
      /\ \A todo \in Table[p].ways \cup Table[p].dry : Guarded(todo) /\ Informs(todo)
      /\ \A todo \in Table[p].asking : Guarded(todo)

(* A remedy that is not named Unverified writes, and looks at each write.  *)
Writes(todo)  == \E i \in 1 .. Len(todo) : todo[i] \in WriteKind
LooksAt(todo) == \A i \in 1 .. Len(todo) : todo[i] # "try"
ASSUME UnverifiedAssumption ==
  \A p \in Path \ Unverified :
    "remedy" \in Table[p].role => \A todo \in Table[p].ways : Writes(todo) /\ LooksAt(todo)

(* Every variable keeps its type.                                          *)
TypeOK ==
  /\ setting \in Setting
  /\ restarts \in Nat
  /\ DOMAIN job \subseteq Worker
  /\ job \in [DOMAIN job -> Job]
  /\ approval \in [Call -> {"none", "handed", "posted"}]
  /\ live \subseteq DOMAIN executions /\ DOMAIN executions \subseteq Call
  /\ executions \in [DOMAIN executions -> Nat]

Done(w) == w \in DOMAIN job /\ job[w].phase = "done"
Role(w) == Table[job[w].path].role

(* What has_tool_evidence takes for evidence: success False too.           *)
CountsAsEvidence(c) ==
  Done(c) /\ "evidence" \in Role(c) /\ job[c].answer \in {"fine", "failed"}

(* What has_successful_remediation takes for a fix.                        *)
CountsAsRemediation(c) ==
  Done(c) /\ "remedy" \in Role(c) /\ job[c].answer = "fine"

(* An answer that grounds a conclusion comes from a call that read         *)
(* something, whichever of its calls failed, but for the tools named       *)
(* Hearsay, whose answer hides that none of their reads succeeded.         *)
EvidenceWasRead ==
  \A c \in Call \cap DOMAIN job :
    CountsAsEvidence(c) => job[c].read > 0 \/ job[c].path \in Hearsay

(* An answer that counts as a fix applied means that every write the tool  *)
(* began took effect, and that it made one: but for dry runs, which count  *)
(* as well, and for the tools named Unverified.                            *)
AppliedWasDone ==
  \A c \in Call \cap DOMAIN job :
    CountsAsRemediation(c) =>
      \/ 0 < job[c].begun /\ job[c].begun = job[c].took
      \/ job[c].mode = "dry"
      \/ job[c].path \in Unverified

(* What let a job write: no stop, and, for the agent's own call, AUTO_APPLY *)
(* as the tool reads it, or no gate at all, which only the tools named     *)
(* Ungated may lack.                                                       *)
Licensed(c) ==
  /\ ~job[c].under.stop
  /\ \/ job[c].under.auto /\ Table[job[c].path].gate # "built"
     \/ job[c].under.built /\ Table[job[c].path].gate = "built"
     \/ job[c].under.posting /\ Table[job[c].path].gate = "posting"
     \/ job[c].path \in Ungated

(* A click writes for a call that wrote nothing itself and whose approval  *)
(* was posted; what a reference holds is run on the host that was asked.   *)
Approved(k) ==
  LET c == job[k].of IN
  /\ ~job[k].under.stop
  /\ approval[c] = "posted" /\ job[c].begun = 0
  /\ Carries(c) = "reference" => job[k].host = job[c].host

(* Whatever is changed was let: by AUTO_APPLY, by a posted approval, or by *)
(* a tool that has no gate; nothing that began under the emergency stop    *)
(* changes anything; and however often a reference is clicked, and         *)
(* whenever the process restarts, one click at the most changes something. *)
ActedWithLicence ==
  /\ \A w \in DOMAIN job : job[w].begun > 0 =>
       IF w \in Call THEN Licensed(w) ELSE Approved(w)
  /\ \A k, l \in Click \cap DOMAIN job :
       /\ job[k].begun > 0 /\ job[l].begun > 0
       /\ job[k].of = job[l].of /\ Carries(job[k].of) = "reference"
       => k = l
=============================================================================
