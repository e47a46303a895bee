---------------------------- MODULE MCOuterLoop ----------------------------
(* Readings, faces and headings for the runs of OuterLoop. *)
EXTENDS OuterLoop

Reading(s, x, p) == [state |-> s, x_center |-> x, p_count |-> p]

TwoReadings == {Reading("outside", -1, 1), Reading("inside", 0, 0)}
ThreeReadings == TwoReadings \cup {Reading("inside", 1, -1)}
Mouse == {[class |-> mouse, number |-> 0]}
TwoHeadings == {-1, 0}
=============================================================================
