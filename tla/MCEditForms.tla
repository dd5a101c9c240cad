----------------------------- MODULE MCEditForms -----------------------------
(* Three shares, one of them also a destination, two groups (the first on    *)
(* offer is not the one of the event) and one event beside a new one each;   *)
(* the clock goes back in between.                                           *)
EXTENDS EditForms, TLC

CONSTANTS src, spare, both, g1, g2, g3, e1, e2, p1, slot1, slot2

MCShare == {src, spare, both}
MCGroup == {g1, g2, g3}
MCEvent == {e1, e2}
MCPreset == {p1}
MCSlot == {slot1, slot2}
MCRole == (src :> "Source") @@ (spare :> "Source") @@ (both :> "Both")
MCFirst(S, none) == IF S = {} THEN none ELSE IF g2 \in S THEN g2 ELSE CHOOSE x \in S : TRUE

(* The clock goes back from two hours ahead to one at the start of day 10.   *)
MCChange == 10 * DAY * MINUTE
MCBefore == 7200
MCAfter == 3600
MCNow == MCChange + 45
MCPickDay == {10}
MCPickTime == {90}

MCInitial ==
    [share |-> [s \in MCShare |-> [enabled |-> TRUE, preset |-> p1, types |-> "chosen"]],
     group |-> (g1 :> {src}) @@ (g2 :> {src, spare}) @@ (g3 :> {}),
     event |-> (e1 :> [group |-> g1, destination |-> both,
                       start |-> MCChange - 1830, end |-> MCChange + 1815]) @@ (e2 :> None),
     presets |-> MCPreset]
=============================================================================
