---------------------------- MODULE MCWheelDrive ----------------------------
(* Straight on, into a curve, and round a cube to the right; one motor.    *)
EXTENDS WheelDrive

MCCommands == {[forward |-> 60, left |-> 0, rotation |-> 0],
               [forward |-> 30, left |-> 0, rotation |-> 60],
               [forward |-> 0, left |-> -15, rotation |-> 0]}
MCDriven == {"REAR"}
=============================================================================
