--------------------------- MODULE MCApplications ---------------------------
(* Applications for TLC: p1 and p2 recruit and each applied to the other,  *)
(* so that bookings take the same locks crosswise; p3 applied to p1 too.   *)
EXTENDS Applications

CONSTANTS p1, p2, p3

PostedBy == [j1 |-> p1, j2 |-> p2]
ThreeApplications == {<<"j1", p2>>, <<"j2", p1>>, <<"j1", p3>>}
OneApplication == {<<"j1", p2>>}
OnePair == {<<p1, p2>>}
Overlapping == {<<0, 2>>, <<1, 3>>}
=============================================================================
