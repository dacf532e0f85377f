--------------------------- MODULE MCAlertDedupe ---------------------------
(***************************************************************************)
(* Small instances of AlertDedupe for TLC.                                 *)
(***************************************************************************)
EXTENDS AlertDedupeProps, TLC

Alike == Permutations(Alert) \cup Permutations(Handler)
=============================================================================
