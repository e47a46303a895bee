---------------------------- MODULE MCMotionMode ----------------------------
(* Readings, faces and headings for the runs of MotionMode. *)
EXTENDS MotionMode

Reading(s, x, p) == [state |-> s, x_center |-> x, p_count |-> p]
Face(c, n) == [class |-> c, number |-> n]

NoCube == Reading("outside", -1, 1)         \* no cube: x_center = p_count = 0
CubeBefore == Reading("inside", 0, 0)       \* a cube in its place
CubeAside == Reading("inside", 1, 0)
CubeFar == Reading("inside", 0, 1)

AllReadings == {NoCube, CubeBefore, CubeAside, CubeFar}
TwoReadings == {NoCube, CubeBefore}

ToolOrMouse == {Face(0, 0), Face(mouse, 0)}
DigitOne == {Face(NumberClass, 1)}

Ahead == {0}
TwoHeadings == {-1, 0}
FiveHeadings == -2..2
=============================================================================
