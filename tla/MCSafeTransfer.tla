--------------------------- MODULE MCSafeTransfer ---------------------------
(* Instances of SafeTransfer for TLC.                                      *)
EXTENDS SafeTransfer, TLC

CONSTANTS m1, m2, m3, e1, e2, s1, s2, d1, d2, d3, d4, c1, c2, torn, o1, o2, o3, w1, w2

\* Two source folders, one destination folder with three names; both media files
\* render to the same one.
MCSourcePath == m1 :> s1 @@ m2 :> s2
SameDesired  == m1 :> {d1} @@ m2 :> {d1}
MCCandidates == d1 :> <<d1, d2, d3>> @@ d2 :> <<d2, d3, d1>> @@ d3 :> <<d3, d1, d2>>
MCRoutable   == {m1, m2} \X {e1}

\* A folder of role Both holds d1 and d3, another destination d2 and d4.  e1 routes
\* into either (a changed preset), e2 out of the first folder into the second.  m2
\* lies in the folder from the start; whatever is written to d3 is indexed as m3.
BothSourcePath == m1 :> s1 @@ m2 :> d1 @@ m3 :> d3
BothDesired    == m1 :> {d1, d2} @@ m2 :> {d2} @@ m3 :> {d2}
BothCandidates == d1 :> <<d1, d3>> @@ d3 :> <<d3, d1>> @@ d2 :> <<d2, d4>> @@ d4 :> <<d4, d2>>
BothRoutable   == {<<m1, e1>>, <<m2, e2>>, <<m3, e2>>}

\* A single media file.
OneSourcePath == m1 :> s1
OneDesired    == m1 :> {d1, d2}
OneRoutable   == {<<m1, e1>>}

\* A torn copy is as long as the source, or shorter.
SameLength  == c1 :> 1 @@ c2 :> 1 @@ torn :> 1
ShortLength == c1 :> 1 @@ c2 :> 1 @@ torn :> 0

P(m, c, d) == [mode |-> m, conflict |-> c, duplicate |-> d]

MovePolicy  == {P("SafeMove", "AppendCounter", "SafeMoveToExisting")}
MoveOrCopy  == MovePolicy \cup {P("Copy", "AppendCounter", "SafeMoveToExisting")}
AllPolicies == MoveOrCopy \cup {P("SafeMove", "Quarantine", "KeepBoth"),
                               P("SafeMove", "AppendSourceName", "SkipAndRecord")}

Symmetry == Permutations(OpId) \cup Permutations(Worker) \cup Permutations({c1, c2})
=============================================================================
