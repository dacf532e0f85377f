----------------------------- MODULE MCHostFix -----------------------------
(***************************************************************************)
(* HostFix with a sound and an unsound change.                             *)
(***************************************************************************)
EXTENDS HostFixProps

CONSTANTS good, bad
=============================================================================
