-------------------------- MODULE ApprovalContract --------------------------
(***************************************************************************)
(* What retained approvals promise to those who post and click them: a     *)
(* reference is issued once, may lapse at any time (it expires, or the     *)
(* store loses it), and releases its command while it is live, which ends  *)
(* its life.                                                               *)
(***************************************************************************)
EXTENDS Naturals

VARIABLES
  live,        \* references that may still release their command
  executions   \* how often the command of an issued reference was released

vars == <<live, executions>>

Init == live = {} /\ executions = [r \in {} |-> 0]

(* It may have lapsed already when it is handed out.                       *)
Issue(r) ==
  /\ r \notin DOMAIN executions
  /\ executions' = [s \in DOMAIN executions \cup {r} |->
                      IF s \in DOMAIN executions THEN executions[s] ELSE 0]
  /\ live' \in {live, live \cup {r}}

Release(r) ==
  /\ r \in live
  /\ live' = live \ {r}
  /\ executions' = [executions EXCEPT ![r] = @ + 1]

Lapse(r) ==
  /\ r \in live
  /\ live' = live \ {r}
  /\ UNCHANGED executions

(* Every reference issued so far is in the domain of executions'.          *)
Next == \E r \in DOMAIN executions' : Issue(r) \/ Release(r) \/ Lapse(r)

Spec == Init /\ [][Next]_vars
=============================================================================
