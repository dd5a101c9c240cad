------------------------ MODULE MCRoutingAutomation ------------------------
(* One share: a file of each of two events, one file a cycle.  f1 comes first  *)
(* in the directory and is there from the start; f2 arrives.                   *)
EXTENDS RoutingAutomation, TLC
CONSTANTS f1, f2, birthday, trip
MCEventOf == (f1 :> birthday) @@ (f2 :> trip)
MCWalk == {<<f1, f2>>}
=============================================================================
