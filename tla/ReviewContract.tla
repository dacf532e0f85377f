--------------------------- MODULE ReviewContract ---------------------------
(***************************************************************************)
(* What the queue promises about the reviews of one head, whatever becomes *)
(* of the processes: attempts are opened one after another, each when the  *)
(* one before it has failed; an attempt that is accepted is run until it   *)
(* completes or fails, never again after that, and no two at a time.       *)
(***************************************************************************)
EXTENDS Naturals

CONSTANT Attempt   \* attempts by number, from 0

VARIABLE phase

Phase == {"absent", "open", "due", "running", "failing", "completed", "failed"}

Init == phase = [a \in Attempt |-> "absent"]

Move(a, from, to) == phase[a] = from /\ phase' = [phase EXCEPT ![a] = to]

(* The attempt has a number, and nobody has been promised anything.        *)
Open(a) ==
  /\ a = 0 \/ phase[a - 1] = "failed"
  /\ Move(a, "absent", "open")

(* From here on a sender may rely on it.                                   *)
Accept(a) == Move(a, "open", "due")

Begin(a)    == Move(a, "due", "running")
CutShort(a) == Move(a, "running", "due")
Complete(a) == Move(a, "running", "completed")

(* A failure is put on record first, and is final once it has been carried *)
(* through: only then may another attempt follow.                          *)
Fail(a)         == Move(a, "running", "failing")
CarryThrough(a) == Move(a, "failing", "failed")

Next ==
  \E a \in Attempt :
    \/ Open(a) \/ Accept(a)
    \/ Begin(a) \/ CutShort(a) \/ Complete(a)
    \/ Fail(a) \/ CarryThrough(a)

Spec == Init /\ [][Next]_phase
=============================================================================
