--------------------------- MODULE MCApprovalStore ---------------------------
(***************************************************************************)
(* A small instance of ApprovalStore for TLC.                              *)
(***************************************************************************)
EXTENDS ApprovalStoreProps, TLC

CONSTANTS c1, c2, k1, k2

TwoClocks == c1 :> k1 @@ c2 :> k2
(* Each caller with its machine may take the place of the other.           *)
Alike == {f \in Permutations(Caller \cup Clock) :
            \A c \in Caller : f[c] \in Caller /\ ClockOf[f[c]] = f[ClockOf[c]]}
=============================================================================
