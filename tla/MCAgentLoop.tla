---------------------------- MODULE MCAgentLoop ----------------------------
(***************************************************************************)
(* Small instances of AgentLoop for TLC.                                   *)
(***************************************************************************)
EXTENDS AgentLoopProps

C(tool, outcome) == [tool |-> tool, outcome |-> outcome]

(* A collector that fails, a command (which may be evidence, and a fix),   *)
(* and suggestions.                                                        *)
SomeCalls ==
  {C("get", "error"), C("shell", "ok"), C("shell", "unsuccessful"), C("suggest", "ok")}
=============================================================================
