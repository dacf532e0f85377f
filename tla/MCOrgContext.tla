---------------------------- MODULE MCOrgContext ----------------------------
(***************************************************************************)
(* OrgContext for TLC.                                                     *)
(***************************************************************************)
EXTENDS OrgContextProps
=============================================================================
