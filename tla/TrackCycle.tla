----------------------------- MODULE TrackCycle -----------------------------
(***************************************************************************)
(* What the track search promises of the element it reports, at every      *)
(* moment at which the outer loop may look: elements come in the order in  *)
(* which a track has them.  A loop is announced, then its corner is seen,  *)
(* then it is driven, on one and the same side; a crossing is announced    *)
(* before it is driven, and both end in a normal stretch.  The zebra line  *)
(* may come at any time.                                                   *)
(***************************************************************************)

VARIABLE element

Plain == {"Zebra", "CurveLeft", "CurveRight", "Normal"}
Announced == {"CrossBefore", "LoopLeftBefore", "LoopRightBefore"}

Follows(e) ==
  CASE e \in Plain             -> Plain \union Announced
    [] e = "CrossBefore"       -> {"Cross", "Zebra"}
    [] e = "LoopLeftBefore"    -> {"LoopLeftBefore2", "Zebra"}
    [] e = "LoopRightBefore"   -> {"LoopRightBefore2", "Zebra"}
    [] e = "LoopLeftBefore2"   -> {"LoopLeft", "Zebra"}
    [] e = "LoopRightBefore2"  -> {"LoopRight", "Zebra"}
    [] OTHER                   -> {"Normal", "Zebra"}

Spec == element = "Zebra" /\ [][element' \in Follows(element)]_element
=============================================================================
