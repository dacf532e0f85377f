---------------------------- MODULE HostFixProps ----------------------------
(***************************************************************************)
(* What is claimed of HostFix.                                             *)
(***************************************************************************)
EXTENDS HostFix

Point == {"idle", "copy", "write", "undoWrite", "test", "undoTest", "reload",
          "diagnose", "restart"} \cup Answer

(* Every variable keeps its type.                                          *)
TypeOK ==
  /\ file \in Content /\ backup \in Content /\ serving \in Content /\ up \in BOOLEAN
  /\ host \in {"own", "other"}
  /\ late \subseteq [by : Worker,
                     command : {"copy", "write", "restore", "reload", "restart"}]
  /\ tool \in [Worker -> Tool]
  /\ at \in [Worker -> Point]
  /\ found \in [Worker -> Content]
  /\ accepted \in [Worker -> SUBSET Content]
  /\ hindered \subseteq Worker
  /\ phase \in {"none", "monitor", "over"}
  /\ checks \in Nat /\ failures \in 0 .. checks /\ elapsed \in Nat
  /\ verdict \in {"none", "success", "failed", "unstable"}
  /\ seenDown \in 0 .. checks

(* A call that says it put the previous file back has done so, if there    *)
(* was one, none of its commands was lost, and no other call came between. *)
RestoredIfUnhindered ==
  \A w \in Worker \ hindered :
    at[w] = "restored" /\ found[w] # Absent => file = found[w]

(* What the code says of itself: a call that answers that the previous     *)
(* file is restored leaves the file that it found.  Neither the copy nor   *)
(* the roll-back is looked at, and another call uses the same copy.        *)
RestoredIsBack ==
  [][\A w \in Worker :
       at[w] = "undoTest" /\ at'[w] = "restored" /\ found[w] # Absent
       => file' = found[w]]_vars

(* The restart of w takes effect: in its turn, or after it was given up.   *)
Restarted(w) ==
  \/ at[w] = "restart" /\ at'[w] # "restart"
  \/ [by |-> w, command |-> "restart"] \in late \ late'

(* No command of a call takes a running nginx down but a restart, and only *)
(* once nginx -t has accepted, for that same call, another file than the   *)
(* one there by then, and another call has crossed it or it was given up.  *)
DownOnlyIfCrossed ==
  [][up /\ ~up' /\ calls' # calls =>
       \E w \in hindered' :
         /\ Restarted(w)
         /\ accepted[w] # {} /\ file \notin accepted[w]]_vars

(* What a verified fix means, on the agent's own machine: nginx was down   *)
(* at one in ten of the checks at the most; and, if nothing crossed the    *)
(* call, nginx has loaded the file as it is, the call's own if it wrote    *)
(* one.                                                                    *)
VerifiedWasUp ==
  verdict = "success" /\ host = "own" =>
    /\ 10 * seenDown <= checks
    /\ Fixer \notin hindered =>
         /\ serving = file
         /\ Writes(Fixer) => serving = Fixer
=============================================================================
