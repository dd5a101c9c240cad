-------------------------- MODULE MCRoutingPreview --------------------------
(* A source and a share that is source and destination; two events of one   *)
(* group, whose windows overlap, one of them with a destination that may    *)
(* not be written.                                                         *)
EXTENDS RoutingPreview, TLC

CONSTANTS a, b, f1, f2, e1, e2, g

Saved(status, start, end, destination) ==
  [status |-> status, start |-> start, end |-> end, group |-> g, destination |-> destination]
MCShareOf == f1 :> a @@ f2 :> a
MCCapturedAt == f1 :> 2 @@ f2 :> 3
MCPlan == {Saved("Closed", 1, 3, b), Saved("Active", 3, None, a), Saved("Planned", 1, 2, b)}
MCFirstConfig ==
  [event |-> e1 :> Saved("Closed", 1, 3, b) @@ e2 :> Saved("Active", 3, None, a),
   member |-> g :> {a}, walked |-> {a, b}, writable |-> {b},
   fallback |-> TRUE, dry |-> FALSE]
=============================================================================
