---------------------------- MODULE TrackElement ----------------------------
(***************************************************************************)
(* The element of the track that search reports (mt_image.c:116-719): the  *)
(* sections of one pass over an image, which jump to one another, and the  *)
(* assignments to image_result.element_type, which the outer loop reads in *)
(* its interrupt between any two of them.  What a section finds in the     *)
(* image (segments, bends, stops) is any value that its loops can produce, *)
(* and the loops that have no end of their own may find none; the pixels,  *)
(* the offset and the drawing are left out.                                *)
(***************************************************************************)
EXTENDS Integers, FiniteSets

Sides == {"Left", "Right"}
Other(s) == IF s = "Left" THEN "Right" ELSE "Left"

OnSides(value) == [s \in Sides |-> value]

(* The ElementType of the two sides.  A bend of the left edge is a curve   *)
(* to the right.                                                           *)
Curve(s)       == IF s = "Left" THEN "CurveRight" ELSE "CurveLeft"
LoopBefore(s)  == IF s = "Left" THEN "LoopLeftBefore" ELSE "LoopRightBefore"
LoopBefore2(s) == IF s = "Left" THEN "LoopLeftBefore2" ELSE "LoopRightBefore2"
Loop(s)        == IF s = "Left" THEN "LoopLeft" ELSE "LoopRight"

UptoNormal == {"Zebra", "CurveLeft", "CurveRight", "Normal"}
AboveCross == {LoopBefore(s) : s \in Sides} \union {LoopBefore2(s) : s \in Sides}
                \union {Loop(s) : s \in Sides}
ElementType == UptoNormal \union {"CrossBefore", "Cross"} \union AboveCross

Bends == {"inward", "flat", "outward"}  \* <= LP_CONVEX, between, >= CV_CONVEX
Segs == 0 .. 3                          \* 3: three or more

VARIABLES
  element_type,     \* of image_result, read by the outer loop
  el,               \* the copy that search works with
  prev_el_normal,
  section,          \* the section of search, "idle" outside of it, "endless"
                    \* in a loop that never ends
  zebra,            \* the bottom row of this image has more than nine changes
  road_first,       \* that row begins with road: search does not look at it
  stop0, stop,      \* per side: the edge column is road up to Y_BOTTOM_MIN;
                    \* the side is not searched
  segs, convex,     \* per side: segments and bend, as the last search left them
  even,             \* per side: l_r < 2 and r_l < 2, hardly a step outwards
  param_enable_loop,
  allowed           \* a loop is reported, and loops were enabled when its
                    \* announcement was

row == <<zebra, road_first>>
image == <<row, stop0>>
found == <<segs, convex, even>>
searchVars ==
  <<element_type, el, prev_el_normal, section, image, stop, found, param_enable_loop, allowed>>

SearchInit ==
  /\ element_type = "Zebra"       \* a global: the first of the enumeration
  /\ section = "idle"
  /\ zebra = FALSE /\ road_first = FALSE
  /\ el = "Zebra" /\ prev_el_normal = TRUE
  /\ stop0 = OnSides(FALSE) /\ stop = OnSides(FALSE)
  /\ segs = OnSides(0) /\ convex = OnSides("flat") /\ even = OnSides(TRUE)
  /\ param_enable_loop = TRUE /\ allowed = FALSE

(* el = image_result.element_type = e *)
Report(e) == element_type' = e /\ el' = e
Enter(next) == section' = next
RowDone == zebra' = FALSE /\ road_first' = FALSE
(* The locals of search end with the call. *)
Return ==
  /\ section' = "idle"
  /\ RowDone
  /\ el' = "Zebra" /\ prev_el_normal' = TRUE
  /\ stop0' = OnSides(FALSE) /\ stop' = OnSides(FALSE)
  /\ segs' = OnSides(0) /\ convex' = OnSides("flat") /\ even' = OnSides(TRUE)
Unreported == UNCHANGED <<element_type, el>>

(* A loop is announced where the element becomes one of a loop. *)
Announced ==
  allowed' = /\ element_type' \in AboveCross
             /\ IF element_type \in AboveCross THEN allowed ELSE param_enable_loop
Settings == UNCHANGED param_enable_loop /\ Announced

-----------------------------------------------------------------------------
(* The sections of search. *)

StartSearch ==
  /\ section = "idle"
  /\ el' = element_type
  /\ prev_el_normal' = (element_type \in UptoNormal)
  /\ zebra' \in BOOLEAN /\ road_first' \in BOOLEAN
  /\ Enter("zebra")
  /\ UNCHANGED <<element_type, stop0, stop, found>> /\ Settings

(* Lines 121-133: more than nine changes along a row that search looks at. *)
ZebraSeen ==
  /\ section = "zebra" /\ ~road_first /\ zebra
  /\ element_type' = "Zebra"
  /\ Return /\ Settings

(* Line 134: the car may drive again; el keeps Zebra. *)
SetGoingNever == UNCHANGED element_type
SetGoing == element_type' = IF el = "Zebra" THEN "Normal" ELSE element_type

ZebraNotSeen ==
  /\ section = "zebra" /\ ~road_first /\ ~zebra
  /\ SetGoing
  /\ RowDone /\ Enter("bottom")
  /\ UNCHANGED <<el, prev_el_normal, stop0, stop, found>> /\ Settings

(* Line 121: a row that begins with road is not looked at, zebra line or   *)
(* not, and search goes on.                                                *)
RowSkipped ==
  /\ section = "zebra" /\ road_first
  /\ RowDone /\ Enter("bottom")
  /\ UNCHANGED <<prev_el_normal, stop0, stop, found>> /\ Unreported /\ Settings

(* Lines 163-226: the bottom row.  The right edge sets r_stop0 twice and   *)
(* never r_stop (214); road up to both edges ends the search.              *)
AllRoad ==
  /\ section = "bottom"
  /\ Return /\ UNCHANGED element_type /\ Settings
FindBottom ==
  /\ section = "bottom"
  /\ stop0' \in [Sides -> BOOLEAN]
  /\ \E s \in Sides : ~stop0'[s]
  /\ stop' = [s \in Sides |-> s = "Left" /\ stop0'["Left"]]
  /\ Enter(IF el \in {Loop(s) : s \in Sides} THEN "loop"
           ELSE IF el = "Cross" THEN "cross_bound"
           ELSE "normal_bound")
  /\ UNCHANGED <<row, prev_el_normal, found>> /\ Unreported /\ Settings

(* What the search along the edges may have found on a side: nothing where *)
(* it was stopped from the start, and no curve that it would have reported.*)
SideFound(s) ==
  stop[s] => segs'[s] = 0 /\ convex'[s] = "flat" /\ even'[s]
FoundOnSides ==
  /\ segs' \in [Sides -> Segs] /\ convex' \in [Sides -> Bends] /\ even' \in [Sides -> BOOLEAN]
  /\ \A s \in Sides : SideFound(s)

(* A side that is lost is given up, above Cross only (297, 410). *)
SidesLost ==
  /\ stop' \in [Sides -> BOOLEAN]
  /\ \A s \in Sides : stop[s] => stop'[s]
  /\ el \notin AboveCross => stop' = stop

(* The end of the search along both edges, at Y_BD_MIN or Y_NORMAL_MIN.    *)
NormalBound ==
  /\ section = "normal_bound"
  /\ FoundOnSides /\ SidesLost
  /\ prev_el_normal => \A s \in Sides : convex'[s] # "outward"
  /\ Enter("analyze")
  /\ UNCHANGED <<prev_el_normal, image>> /\ Unreported /\ Settings

(* Lines 323-326 and 436-439: a curve breaks off the search. *)
NormalBoundCurve ==
  /\ section = "normal_bound" /\ prev_el_normal
  /\ \E s \in Sides :
       /\ ~stop[s]
       /\ FoundOnSides /\ convex'[s] = "outward" /\ convex'[Other(s)] # "outward"
       /\ Report(Curve(s))
  /\ Enter("analyze")
  /\ UNCHANGED <<prev_el_normal, image, stop>> /\ Settings

(* Lines 327-330 and 440-443: the corner of the loop that was announced;   *)
(* the search goes on.                                                     *)
NormalBoundCorner ==
  /\ section = "normal_bound"
  /\ \E s \in Sides :
       /\ ~stop[s] /\ el = LoopBefore(s)
       /\ Report(LoopBefore2(s))
  /\ prev_el_normal' = FALSE
  /\ UNCHANGED <<section, image, stop, found>> /\ Settings

(* Lines 252-277 and 365-390: the upper edge of the road leads across the  *)
(* image, the middle line is drawn to its end.  On the right only where    *)
(* the left edge was road.                                                 *)
NormalBoundAcross ==
  /\ section = "normal_bound"
  /\ ~stop["Left"] \/ (~stop["Right"] /\ stop0["Left"])
  /\ Enter("mid")
  /\ UNCHANGED <<prev_el_normal, image, stop, found>> /\ Unreported /\ Settings

(* The element is only set for the outer loop. *)
CancelGlobalOnly(e) == element_type' = e /\ UNCHANGED el
Cancel(e) == Report(e)

(* Lines 473-571: the loop is driven along its inner corner, or is over.   *)
LoopSeen ==
  /\ section = "loop"
  /\ Enter("mid")
  /\ UNCHANGED <<prev_el_normal, image, stop, found>> /\ Unreported /\ Settings
LoopCancel ==
  /\ section = "loop"
  /\ Cancel("Normal") /\ Enter("normal_bound")
  /\ UNCHANGED <<prev_el_normal, image, stop, found>> /\ Settings

(* Lines 572-644: the far side of the crossing, or its end.                *)
CrossSeen ==
  /\ section = "cross_bound"
  /\ Enter("analyze")
  /\ UNCHANGED <<prev_el_normal, image, stop, found>> /\ Unreported /\ Settings
CrossExit ==
  /\ section = "cross_bound"
  /\ Cancel("Normal") /\ Enter("normal_bound")
  /\ UNCHANGED <<prev_el_normal, image, stop, found>> /\ Settings

(* Three loops have no end of their own, and there are images on which     *)
(* they run for ever.  In the loop to the left, 505 goes round an empty    *)
(* column if it begins above row 3.  Along the crossing, 617 and 622 look  *)
(* for road in a row without any: xl and xr wrap at 256, in the beginning  *)
(* of the next row, and column 187 is never binarised.  The middle line of *)
(* a loop, 688, has no end where y_start is 0.                             *)
EndlessLoop ==
  \/ section = "loop" /\ el = "LoopLeft"
  \/ section = "cross_bound"
  \/ section = "mid" /\ el \in {Loop(s) : s \in Sides}
RunAway ==
  /\ EndlessLoop
  /\ Enter("endless")
  /\ UNCHANGED <<prev_el_normal, image, stop, found>> /\ Unreported /\ Settings
RunOn == section = "endless" /\ UNCHANGED searchVars

-----------------------------------------------------------------------------
(* Lines 646-680: the element. l_pad and r_pad are never set: an edge is   *)
(* stored only where it is not X_MIN or X_MAX.                             *)

LoopBeginsEarly(s) == el \in {LoopBefore(s), LoopBefore2(s)} /\ (even[s] \/ stop0[s])
LoopBegins(s) == el = LoopBefore2(s) /\ (even[s] \/ stop0[s])

AnalyzeLoop ==
  /\ section = "analyze"
  /\ \E s \in Sides : LoopBegins(s) /\ Report(Loop(s))
  /\ Enter("loop")
  /\ UNCHANGED <<prev_el_normal, image, stop, found>> /\ Settings

LoopAheadAnyway(s) == segs[s] = 3 /\ segs[Other(s)] = 1
LoopAhead(s) == param_enable_loop /\ segs[s] = 3 /\ segs[Other(s)] = 1
CrossAhead == \A s \in Sides : segs[s] >= 2

AnalyzeLoopAhead ==
  /\ section = "analyze" /\ el \in UptoNormal
  /\ \E s \in Sides : LoopAhead(s) /\ Report(LoopBefore(s))
  /\ Enter("mid")
  /\ UNCHANGED <<prev_el_normal, image, stop, found>> /\ Settings

AnalyzeNormal ==
  /\ section = "analyze" /\ el \in UptoNormal
  /\ ~\E s \in Sides : LoopAhead(s)
  /\ IF CrossAhead THEN Report("CrossBefore")
     ELSE /\ IF \A s \in Sides : convex[s] = "flat" THEN element_type' = "Normal"
                                                    ELSE UNCHANGED element_type
          /\ UNCHANGED el
  /\ Enter("mid")
  /\ UNCHANGED <<prev_el_normal, image, stop, found>> /\ Settings

(* The crossing begins again where it goes on. *)
CrossBeginsAgain == el \in {"CrossBefore", "Cross"} /\ \A s \in Sides : segs[s] < 2
CrossBegins == el = "CrossBefore" /\ \A s \in Sides : segs[s] < 2

AnalyzeCross ==
  /\ section = "analyze" /\ CrossBegins
  /\ Report("Cross")
  /\ Enter("cross_bound")
  /\ UNCHANGED <<prev_el_normal, image, stop, found>> /\ Settings

AnalyzeNothing ==
  /\ section = "analyze" /\ el \notin UptoNormal
  /\ ~CrossBegins /\ ~\E s \in Sides : LoopBegins(s)
  /\ Enter("mid")
  /\ UNCHANGED <<prev_el_normal, image, stop, found>> /\ Unreported /\ Settings

(* Lines 683-718: the middle line gives the offset, and search returns.    *)
CalculateMidline ==
  /\ section = "mid"
  /\ Return /\ UNCHANGED element_type /\ Settings

(* The parameters are changed by the keys of the same main loop. *)
SwitchLoops ==
  /\ section = "idle"
  /\ param_enable_loop' = ~param_enable_loop
  /\ UNCHANGED <<section, prev_el_normal, image, stop, found, allowed>> /\ Unreported

SearchStep ==
  \/ ZebraSeen \/ ZebraNotSeen \/ RowSkipped \/ AllRoad \/ FindBottom
  \/ NormalBound \/ NormalBoundCurve \/ NormalBoundCorner \/ NormalBoundAcross
  \/ LoopSeen \/ LoopCancel \/ CrossSeen \/ CrossExit \/ RunAway
  \/ AnalyzeLoop \/ AnalyzeLoopAhead \/ AnalyzeNormal \/ AnalyzeCross \/ AnalyzeNothing
  \/ CalculateMidline

SearchNext == StartSearch \/ SearchStep \/ RunOn \/ SwitchLoops

SearchSpec == SearchInit /\ [][SearchNext]_searchVars
(* The main loop executes search. *)
FairSpec == SearchSpec /\ WF_searchVars(SearchStep)

-----------------------------------------------------------------------------
(* Properties. *)

(* search decides by el, the outer loop drives by element_type: the two    *)
(* copies differ at most in which of the plain elements they hold (134,    *)
(* 669 set only one of them), and sections run only for their element.     *)
CopiesAgree ==
  section # "idle" =>
    /\ el = element_type \/ (el \in UptoNormal /\ element_type \in UptoNormal)
    /\ section = "loop" => \E s \in Sides : el = Loop(s)
    /\ section = "cross_bound" => el = "Cross"

(* The car stands at the zebra line (motion_control_new.c:286-289), and it *)
(* stands so when it is switched on: Zebra is the first element.  Once the *)
(* line is gone for good, and again and again a row does not begin with    *)
(* road, it drives and goes on driving, whatever bends the road has.       *)
CarSetsOff ==
  <>[]~zebra /\ []<>(section = "zebra" /\ ~road_first) => <>[](element_type # "Zebra")

(* Menu item param_enable_loop (menu.c:88): no loop is announced, turned   *)
(* into or driven unless loops were enabled when it was announced.         *)
LoopsAllowed == element_type \in AboveCross => allowed

(* The elements come in the order of TrackCycle, at every moment.          *)
Cycle == INSTANCE TrackCycle WITH element <- element_type
CycleSpec == Cycle!Spec

(* The jumps back from the loop and the crossing to the search along the   *)
(* edges, and from the analysis to them, never go round for ever: a search *)
(* ends, or it is in one of the three loops that have no end of their own. *)
SearchEnds == (section # "idle") ~> (section \in {"idle", "endless"})
=============================================================================
