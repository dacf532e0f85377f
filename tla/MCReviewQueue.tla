--------------------------- MODULE MCReviewQueue ---------------------------
(***************************************************************************)
(* Small instances of ReviewQueue for TLC.                                 *)
(***************************************************************************)
EXTENDS ReviewQueueProps, TLC

Alike == Permutations(Caller)
=============================================================================
