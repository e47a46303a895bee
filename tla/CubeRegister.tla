---------------------------- MODULE CubeRegister ----------------------------
(***************************************************************************)
(* What the motion control may assume of `cube_info` (MCX_Vision.c:13-18)  *)
(* and, in the same way, of `current_cube_face_info`: a register that a    *)
(* camera board feeds.  The board starts to send one reading after the     *)
(* other; at any time the register may change to one reading that is newer *)
(* than all it holds, and then it holds the whole of that reading: no      *)
(* field of an older one, no field of a later one.  Once the line has been *)
(* disturbed the register promises nothing.                                *)
(***************************************************************************)
EXTENDS Naturals

CONSTANT Fields         \* the fields of CubeInfo (MCX_Vision.h:31-37)

VARIABLES
  cube_info,            \* field -> the readings its value was made from
  sent,                 \* number of readings whose transmission has begun
  disturbed             \* a byte was lost or garbled

vars == <<cube_info, sent, disturbed>>

PowerOn == [k \in Fields |-> {}]        \* the static initialiser: no reading
Whole(f) == [k \in Fields |-> {f}]      \* every field from reading f

NewerThanShown(f) == \A k \in Fields : \A g \in cube_info[k] : g < f

Init ==
  /\ cube_info = PowerOn
  /\ sent = 0
  /\ disturbed = FALSE

Publish ==
  /\ ~disturbed
  /\ sent' = sent + 1
  /\ UNCHANGED <<cube_info, disturbed>>

Update ==
  /\ ~disturbed
  /\ \E f \in 1..sent :
       /\ NewerThanShown(f)
       /\ cube_info' = Whole(f)
  /\ UNCHANGED <<sent, disturbed>>

Disturb == disturbed' = TRUE            \* whatever becomes of the rest

Next == Publish \/ Update \/ Disturb

Spec == Init /\ [][Next]_vars
=============================================================================
