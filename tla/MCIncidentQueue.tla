-------------------------- MODULE MCIncidentQueue --------------------------
(***************************************************************************)
(* Small instances of IncidentQueue for TLC.                               *)
(***************************************************************************)
EXTENDS IncidentQueueProps, TLC

CONSTANTS i1, i2, o1, o2, p1, p2, h1, h2

OneOrg  == i1 :> o1 @@ i2 :> o1
LoneOrg == i1 :> o1
TwoOrgs == i1 :> o1 @@ i2 :> o2
(* o1 is configured; o2 is found only through its queue keys.              *)
OnlyO1  == {o1}
SameHost == p1 :> h1 @@ p2 :> h1
OwnHost  == p1 :> h1 @@ p2 :> h2
=============================================================================
