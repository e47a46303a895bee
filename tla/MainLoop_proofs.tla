--------------------------- MODULE MainLoop_proofs ---------------------------
(***************************************************************************)
(* Proofs about what the main loop runs.  About KeyMenu, for any keys that *)
(* are down together, any scans until a press counts and is long, and any  *)
(* parameters: types and limits, and that no press is acted on twice or    *)
(* lost, wherever the scanner comes between the steps of a handler.  About *)
(* TrackElement, for whatever a section finds in the image: the copies of  *)
(* the element, the switch for loops and the order of the elements.  About *)
(* MainLoop: the two together are each of them.                            *)
(***************************************************************************)
EXTENDS MainLoop, TLAPS

(* What the assumptions say of the parameters, by name. *)
LEMMA TableOfParams ==
  /\ Numbers \in Nat /\ Numbers >= 1 /\ MaxLevel \in Nat /\ MaxLevel >= 2
  /\ param_count = Numbers + 1 /\ param_count \in Params
BY KeyMenuAssumption DEF KeyMenuAssumption, param_count, Params

(* A step of a parameter stays within its limits, and row 0 has none.      *)
LEMMA AdjustedType ==
  ASSUME NEW r \in 0 .. param_count, NEW up \in BOOLEAN,
         param \in [Params -> 0 .. MaxLevel], param[param_count] \in {0, 1}
  PROVE  /\ Adjusted(r, up) \in [Params -> 0 .. MaxLevel]
         /\ Adjusted(r, up)[param_count] \in {0, 1}
<1>1. CASE r = 0
  BY <1>1 DEF Adjusted
<1>2. CASE r = param_count
  <2>1. r # 0 /\ 1 - param[r] \in {0, 1} /\ {0, 1} \subseteq 0 .. MaxLevel
    BY <1>2, TableOfParams
  <2>2. Adjusted(r, up) = [param EXCEPT ![r] = 1 - param[r]]
    BY <1>2, <2>1 DEF Adjusted
  <2> QED  BY <1>2, <2>1, <2>2, TableOfParams
<1>3. CASE r # 0 /\ r # param_count
  <2> DEFINE v == IF up THEN IF param[r] < MaxLevel THEN param[r] + 1 ELSE MaxLevel
                  ELSE IF param[r] > 0 THEN param[r] - 1 ELSE 0
  <2>1. r \in Params
    BY <1>3, TableOfParams DEF Params
  <2>2. v \in 0 .. MaxLevel
    BY <2>1, TableOfParams
  <2>3. Adjusted(r, up) = [param EXCEPT ![r] = v]
    BY <1>3 DEF Adjusted
  <2> QED  BY <1>3, <2>1, <2>2, <2>3
<1> QED  BY <1>1, <1>2, <1>3

-----------------------------------------------------------------------------
(* Types. *)

Points == {"page", "pageClear", "row", "rowClear", "adjust", "minus", "plusClear",
           "minusClear", "motorClear"}
Pages == {"image", "debug", "cube", "param"}

LEMMA PagesOfMenu == DOMAIN NextPage = Pages /\ \A p \in Pages : NextPage[p] \in Pages
BY DEF NextPage, Pages

(* The parts of TypeOK, by what changes them. *)
KeysTyped ==
  /\ pressed \in [Keys -> BOOLEAN] /\ key_press_time \in [Keys -> 0 .. LongScans]
  /\ key_state \in [Keys -> States] /\ unserved \subseteq Keys
LoopTyped == seen \in [Keys -> States] /\ pc \in Points /\ phase \in 0 .. 2
MenuTyped ==
  /\ current_page_id \in Pages /\ param_table_selected_row \in 0 .. param_count
  /\ param \in [Params -> 0 .. MaxLevel] /\ param[param_count] \in {0, 1}
  /\ motor_enable_flag \in BOOLEAN

LEMMA PartsOfType == TypeOK <=> KeysTyped /\ LoopTyped /\ MenuTyped
BY PagesOfMenu DEF TypeOK, KeysTyped, LoopTyped, MenuTyped, Points

LEMMA InitTyped == Init => TypeOK
<1> SUFFICES ASSUME Init PROVE TypeOK
  OBVIOUS
<1>1. KeysTyped
  BY KeyMenuAssumption DEF KeyMenuAssumption, Init, KeysTyped, States
<1>2. LoopTyped
  BY DEF Init, LoopTyped, States, Points
<1>3. MenuTyped
  <2>1. \A r \in Params : (IF r <= Numbers THEN 2 ELSE 1) \in 0 .. MaxLevel
    BY TableOfParams
  <2>2. param \in [Params -> 0 .. MaxLevel]
    BY <2>1 DEF Init
  <2>3. param[param_count] = 1
    BY TableOfParams DEF Init
  <2>4. 0 \in 0 .. param_count
    BY TableOfParams
  <2> QED  BY <2>2, <2>3, <2>4 DEF Init, MenuTyped, Pages
<1> QED  BY <1>1, <1>2, <1>3, PartsOfType

(* The scanner gives every key a time and a state. *)
LEMMA ScanTyped ==
  ASSUME KeysTyped, NEW k \in Keys
  PROVE  PressTime(k) \in 0 .. LongScans /\ Scanned(k) \in States
<1>1. key_press_time[k] \in 0 .. LongScans /\ key_state[k] \in States /\ LongScans \in Nat
  BY KeyMenuAssumption DEF KeyMenuAssumption, KeysTyped
<1>2. PressTime(k) \in 0 .. LongScans
  BY <1>1 DEF PressTime
<1>3. Scanned(k) \in States
  BY <1>1 DEF Scanned, States
<1> QED  BY <1>2, <1>3

LEMMA StepTyped == TypeOK /\ [Next]_vars => TypeOK'
<1> SUFFICES ASSUME TypeOK, [Next]_vars PROVE TypeOK'
  OBVIOUS
<1> USE DEF key_clear_state, Cleared, Act, Begun, Ended, NextPass, keys, menu
<1>0. KeysTyped /\ LoopTyped /\ MenuTyped
  BY PartsOfType
<1>1. KeysTyped'
  <2> USE DEF KeysTyped
  <2>1. CASE MoveFinger
    <3> PICK k \in Keys : pressed' = [pressed EXCEPT ![k] = ~pressed[k]]
      BY <2>1 DEF MoveFinger
    <3> QED  BY <1>0, <2>1 DEF MoveFinger
  <2>2. CASE key_scanner
    BY <1>0, <2>2, ScanTyped DEF key_scanner
  <2>3. CASE MainStep
    <3>1. \A k \in Keys : \A ks : Cleared(ks)[k] \in States
      BY <1>0 DEF States
    <3>2. UNCHANGED <<pressed, key_press_time>> /\ unserved' \subseteq unserved
      BY <2>3 DEF MainStep, ChangePage, ChangePageClear, SelectRow, SelectRowClear, ReadPlus,
                  AdjustParam, PlusClear, MinusClear, SwitchMotor, SwitchMotorClear
    <3>3. UNCHANGED key_state \/ \E ks : key_state' = Cleared(ks)
      BY <2>3 DEF MainStep, ChangePage, ChangePageClear, SelectRow, SelectRowClear, ReadPlus,
                  AdjustParam, PlusClear, MinusClear, SwitchMotor, SwitchMotorClear
    <3> QED  BY <1>0, <3>1, <3>2, <3>3
  <2>4. CASE UNCHANGED vars
    BY <1>0, <2>4 DEF vars
  <2> QED  BY <2>1, <2>2, <2>3, <2>4 DEF Next
<1>2. LoopTyped'
  <2> USE DEF LoopTyped
  <2>1. CASE MainStep
    <3>1. pc' \in Points /\ phase' \in 0 .. 2
      BY <1>0, <2>1
      DEF MainStep, ChangePage, ChangePageClear, SelectRow, SelectRowClear, ReadPlus,
          AdjustParam, PlusClear, MinusClear, SwitchMotor, SwitchMotorClear, Points
    <3>2. seen' \in [Keys -> States]
      <4>1. "RELEASE" \in States /\ key_state \in [Keys -> States]
        BY <1>0 DEF States, KeysTyped
      <4>2. CASE UNCHANGED seen
        BY <1>0, <4>2
      <4>3. CASE \E ks : seen' = [k \in Keys |-> IF k \in ks THEN key_state[k] ELSE "RELEASE"]
        BY <4>1, <4>3
      <4>4. CASE seen' = [k \in Keys |-> "RELEASE"]
        BY <4>1, <4>4
      <4>5. CASE \E k \in Keys : seen' = [seen EXCEPT ![k] = key_state[k]]
        BY <1>0, <4>1, <4>5
      <4>6. CASE ChangePage \/ SelectRow \/ SwitchMotor
        BY <4>2, <4>3, <4>6 DEF ChangePage, SelectRow, SwitchMotor
      <4>7. CASE ReadPlus \/ AdjustParam
        BY <4>4, <4>5, <4>7 DEF ReadPlus, AdjustParam, Keys
      <4>8. CASE ChangePageClear \/ SelectRowClear \/ PlusClear \/ MinusClear \/ SwitchMotorClear
        BY <4>4, <4>8 DEF ChangePageClear, SelectRowClear, PlusClear, MinusClear, SwitchMotorClear
      <4> QED  BY <2>1, <4>6, <4>7, <4>8 DEF MainStep
    <3> QED  BY <3>1, <3>2
  <2>2. CASE MoveFinger \/ key_scanner
    BY <1>0, <2>2 DEF MoveFinger, key_scanner
  <2>3. CASE UNCHANGED vars
    BY <1>0, <2>3 DEF vars
  <2> QED  BY <2>1, <2>2, <2>3 DEF Next
<1>3. MenuTyped'
  <2> USE DEF MenuTyped
  <2>1. CASE ChangePage
    BY <1>0, <2>1, PagesOfMenu DEF ChangePage
  <2>2. CASE SelectRow
    <3>1. param_table_selected_row' \in 0 .. param_count
      BY <1>0, <2>2, TableOfParams DEF SelectRow
    <3> QED  BY <1>0, <2>2, <3>1 DEF SelectRow
  <2>3. CASE AdjustParam
    <3>1. UNCHANGED <<current_page_id, param_table_selected_row, motor_enable_flag>>
      BY <2>3 DEF AdjustParam
    <3>2. UNCHANGED param \/ \E up \in BOOLEAN : param' = Adjusted(param_table_selected_row, up)
      BY <2>3 DEF AdjustParam
    <3>3. \A up \in BOOLEAN :
            /\ Adjusted(param_table_selected_row, up) \in [Params -> 0 .. MaxLevel]
            /\ Adjusted(param_table_selected_row, up)[param_count] \in {0, 1}
      BY <1>0, AdjustedType
    <3> QED  BY <1>0, <3>1, <3>2, <3>3
  <2>4. CASE SwitchMotor
    BY <1>0, <2>4 DEF SwitchMotor
  <2>5. CASE UNCHANGED menu
    BY <1>0, <2>5
  <2>6. CASE ChangePageClear \/ SelectRowClear \/ ReadPlus \/ PlusClear \/ MinusClear \/ SwitchMotorClear
    BY <2>5, <2>6
    DEF ChangePageClear, SelectRowClear, ReadPlus, PlusClear, MinusClear, SwitchMotorClear
  <2>7. CASE MoveFinger \/ key_scanner \/ UNCHANGED vars
    BY <2>5, <2>7 DEF MoveFinger, key_scanner, vars
  <2> QED  BY <2>1, <2>2, <2>3, <2>4, <2>6, <2>7 DEF Next, MainStep
<1> QED
  BY <1>1, <1>2, <1>3, PagesOfMenu DEF TypeOK, KeysTyped, LoopTyped, MenuTyped, Points

(* Types; among others, the parameters stay within the limits of their     *)
(* rows (menu.c:300-304) and the switch behind them stays a switch.        *)
THEOREM TypeCorrect == Spec => []TypeOK
BY InitTyped, StepTyped, PTL DEF Spec

-----------------------------------------------------------------------------
(* A short press is acted on once.  A key in state SHORT has a press that  *)
(* no handler has acted on, except between the action of its handler and   *)
(* the clearing; 4 is cleared by both of its handlers.                     *)

Clearing(k) == CASE k = 1 -> {"pageClear"}
                 [] k = 2 -> {"rowClear"}
                 [] k = 3 -> {"plusClear"}
                 [] k = 4 -> {"plusClear", "minusClear", "motorClear"}

OpenPress(k) == key_state[k] = "SHORT" /\ pc \notin Clearing(k) => k \in unserved

PressInv == TypeOK /\ \A k \in Keys : OpenPress(k)

LEMMA PressInit == Init => PressInv
BY InitTyped DEF Init, PressInv, OpenPress

LEMMA PressStep == PressInv /\ [Next]_vars => PressInv'
<1> SUFFICES ASSUME PressInv, [Next]_vars, NEW k \in Keys PROVE OpenPress(k)'
  BY StepTyped DEF PressInv
<1>1. TypeOK /\ OpenPress(k) /\ k \in {1, 2, 3, 4}
  BY DEF PressInv, Keys
<1>2. key_state \in [Keys -> States]
  BY <1>1 DEF TypeOK
<1> USE DEF OpenPress, Clearing
<1>3. CASE MoveFinger
  BY <1>1, <1>3 DEF MoveFinger
<1>4. CASE key_scanner
  <2>1. key_state'[k] = Scanned(k) /\ pc' = pc
    BY <1>4 DEF key_scanner
  <2>2. CASE pressed[k]
    BY <1>1, <1>4, <2>1, <2>2 DEF key_scanner, Scanned
  <2>3. CASE ~pressed[k]
    BY <1>4, <2>1, <2>3 DEF key_scanner, Scanned
  <2> QED  BY <2>2, <2>3
<1> USE DEF keys, Act, key_clear_state, Cleared, NextPass
<1>5. CASE ChangePage
  BY <1>1, <1>5 DEF ChangePage
<1>6. CASE ChangePageClear
  BY <1>1, <1>2, <1>6 DEF ChangePageClear
<1>7. CASE SelectRow
  BY <1>1, <1>7 DEF SelectRow
<1>8. CASE SelectRowClear
  BY <1>1, <1>2, <1>8 DEF SelectRowClear
<1>9. CASE ReadPlus
  BY <1>1, <1>9 DEF ReadPlus
<1>10. CASE AdjustParam
  BY <1>1, <1>10 DEF AdjustParam
<1>11. CASE PlusClear
  BY <1>1, <1>2, <1>11 DEF PlusClear
<1>12. CASE MinusClear
  BY <1>1, <1>2, <1>12 DEF MinusClear
<1>13. CASE SwitchMotor
  BY <1>1, <1>13 DEF SwitchMotor
<1>14. CASE SwitchMotorClear
  BY <1>1, <1>2, <1>14 DEF SwitchMotorClear
<1>15. CASE UNCHANGED vars
  BY <1>1, <1>15 DEF vars
<1> QED
  BY <1>3, <1>4, <1>5, <1>6, <1>7, <1>8, <1>9, <1>10, <1>11, <1>12, <1>13, <1>14, <1>15
  DEF Next, MainStep

(* A handler that sees a short press sees one that has not been acted on:  *)
(* no state of a key outlives the action it caused (main.c:83-92).         *)
THEOREM ShortPressActsOnceCorrect == Spec => ShortPressActsOnce
<1>1. ASSUME PressInv, [Next]_vars
      PROVE  [\A k \in Keys : seen[k] = "RELEASE" /\ seen'[k] = "SHORT" => k \in unserved]_vars
  <2> SUFFICES ASSUME Next, NEW k \in Keys, seen[k] = "RELEASE", seen'[k] = "SHORT"
               PROVE  k \in unserved
    BY <1>1
  <2>1. seen \in [Keys -> States] /\ OpenPress(k) /\ k \in {1, 2, 3, 4}
    BY <1>1 DEF PressInv, TypeOK, Keys
  <2>2. key_state[k] = "SHORT" /\ pc \notin Clearing(k)
    <3> USE DEF Act, key_clear_state, NextPass, Clearing
    <3>1. CASE MoveFinger \/ key_scanner
      BY <3>1 DEF MoveFinger, key_scanner
    <3>2. CASE ChangePage
      BY <2>1, <3>2 DEF ChangePage
    <3>3. CASE SelectRow
      BY <2>1, <3>3 DEF SelectRow
    <3>4. CASE ReadPlus
      BY <2>1, <3>4 DEF ReadPlus
    <3>5. CASE AdjustParam
      BY <2>1, <3>5 DEF AdjustParam
    <3>6. CASE SwitchMotor
      BY <2>1, <3>6 DEF SwitchMotor
    <3>7. CASE ChangePageClear \/ SelectRowClear \/ PlusClear \/ MinusClear \/ SwitchMotorClear
      BY <3>7 DEF ChangePageClear, SelectRowClear, PlusClear, MinusClear, SwitchMotorClear
    <3> QED  BY <3>1, <3>2, <3>3, <3>4, <3>5, <3>6, <3>7 DEF Next, MainStep
  <2> QED  BY <2>1, <2>2 DEF OpenPress
<1> QED  BY PressInit, PressStep, <1>1, PTL DEF Spec, ShortPressActsOnce

-----------------------------------------------------------------------------
(* No press is lost.  From the first handler of a pass that has begun      *)
(* since the last scan, the state of KEY_1 is clear; behind the last one,  *)
(* that of KEY_4 as well, if the page is not that of the parameters.       *)

PassInv ==
  /\ phase = 1 => pc # "page"
  /\ phase = 2 => pc # "pageClear"
  /\ phase # 0 /\ pc # "pageClear" => key_state[1] = "RELEASE"
  /\ pc \in {"minus", "plusClear", "minusClear"} => current_page_id = "param"
  /\ phase = 2 /\ current_page_id # "param" => key_state[4] = "RELEASE"

LEMMA PassInit == Init => PassInv
BY DEF Init, PassInv

LEMMA PassStep == TypeOK /\ PassInv /\ [Next]_vars => PassInv'
<1> SUFFICES ASSUME TypeOK, PassInv, [Next]_vars PROVE PassInv'
  OBVIOUS
<1>1. key_state \in [Keys -> States] /\ 1 \in Keys /\ 4 \in Keys /\ phase \in 0 .. 2
  BY DEF TypeOK, Keys
<1> USE DEF PassInv, keys, menu, Act, key_clear_state, Cleared, NextPass, Begun, Ended
<1>2. CASE MoveFinger
  BY <1>2 DEF MoveFinger
<1>3. CASE key_scanner
  BY <1>3 DEF key_scanner
<1>4. CASE ChangePage
  BY <1>1, <1>4 DEF ChangePage
<1>5. CASE ChangePageClear
  BY <1>1, <1>5 DEF ChangePageClear
<1>6. CASE SelectRow
  BY <1>1, <1>6 DEF SelectRow
<1>7. CASE SelectRowClear
  BY <1>1, <1>7 DEF SelectRowClear
<1>8. CASE ReadPlus
  BY <1>8 DEF ReadPlus
<1>9. CASE AdjustParam
  BY <1>1, <1>9 DEF AdjustParam
<1>10. CASE PlusClear
  BY <1>1, <1>10 DEF PlusClear
<1>11. CASE MinusClear
  BY <1>1, <1>11 DEF MinusClear
<1>12. CASE SwitchMotor
  BY <1>1, <1>12 DEF SwitchMotor, MotorKeyLive
<1>13. CASE SwitchMotorClear
  BY <1>1, <1>13 DEF SwitchMotorClear
<1>14. CASE UNCHANGED vars
  BY <1>14 DEF vars
<1> QED
  BY <1>2, <1>3, <1>4, <1>5, <1>6, <1>7, <1>8, <1>9, <1>10, <1>11, <1>12, <1>13, <1>14
  DEF Next, MainStep

(* A main loop that has passed all keys since the last scan has lost no    *)
(* press of the page key and of the motor key, at any speed of the loop.   *)
THEOREM NoPressLostCorrect == Spec => NoPressLost
<1>1. ASSUME PassInv
      PROVE  [key_scanner /\ phase = 2 =>
                /\ key_state[1] # "SHORT"
                /\ current_page_id # "param" => key_state[4] # "SHORT"]_vars
  <2>1. phase = 2 => /\ key_state[1] # "SHORT"
                     /\ current_page_id # "param" => key_state[4] # "SHORT"
    BY <1>1 DEF PassInv
  <2> QED  BY <2>1
<1> QED  BY TypeCorrect, PassInit, PassStep, <1>1, PTL DEF Spec, NoPressLost

-----------------------------------------------------------------------------
(* The search. *)

(* The names of the elements, spelled out. *)
LEMMA NamesOfElements ==
  /\ Sides = {"Left", "Right"}
  /\ UptoNormal = {"Zebra", "CurveLeft", "CurveRight", "Normal"}
  /\ AboveCross = {"LoopLeftBefore", "LoopRightBefore", "LoopLeftBefore2",
                         "LoopRightBefore2", "LoopLeft", "LoopRight"}
BY DEF Sides, UptoNormal, AboveCross, LoopBefore, LoopBefore2,
       Loop

(* As long as a search has not announced anything itself, prev_el_normal   *)
(* says of the element it works with what it says.                         *)
PrevIsNormal == section \notin {"idle", "mid", "endless"} /\ prev_el_normal => el \in UptoNormal

TrackInv == CopiesAgree /\ LoopsAllowed /\ PrevIsNormal

LEMMA TrackInit == SearchInit => TrackInv
BY NamesOfElements
DEF SearchInit, TrackInv, CopiesAgree, LoopsAllowed, PrevIsNormal

LEMMA TrackStep == TrackInv /\ [SearchNext]_searchVars => TrackInv'
<1> SUFFICES ASSUME TrackInv, [SearchNext]_searchVars PROVE TrackInv'
  OBVIOUS
<1> USE NamesOfElements
    DEF TrackInv, CopiesAgree, LoopsAllowed, PrevIsNormal,
        Report, Enter, Return, RowDone, Unreported, Settings, Announced,
        row, image, found, Curve, LoopBefore, LoopBefore2, Loop
<1>1. CASE StartSearch
  BY <1>1 DEF StartSearch
<1>2. CASE ZebraSeen
  BY <1>2 DEF ZebraSeen
<1>3. CASE ZebraNotSeen
  BY <1>3 DEF ZebraNotSeen, SetGoing
<1>4. CASE RowSkipped
  BY <1>4 DEF RowSkipped
<1>5. CASE AllRoad \/ CalculateMidline
  BY <1>5 DEF AllRoad, CalculateMidline
<1>6. CASE FindBottom
  BY <1>6 DEF FindBottom
<1>7. CASE NormalBound
  BY <1>7 DEF NormalBound
<1>8. CASE NormalBoundAcross
  BY <1>8 DEF NormalBoundAcross
<1>9. CASE NormalBoundCurve
  BY <1>9 DEF NormalBoundCurve
<1>10. CASE NormalBoundCorner
  BY <1>10 DEF NormalBoundCorner
<1>11. CASE LoopSeen
  BY <1>11 DEF LoopSeen
<1>12. CASE CrossSeen
  BY <1>12 DEF CrossSeen
<1>13. CASE RunAway
  BY <1>13 DEF RunAway, EndlessLoop
<1>14. CASE LoopCancel \/ CrossExit
  BY <1>14 DEF LoopCancel, CrossExit, Cancel
<1>15. CASE AnalyzeLoop
  BY <1>15 DEF AnalyzeLoop, LoopBegins
<1>16. CASE AnalyzeLoopAhead
  BY <1>16 DEF AnalyzeLoopAhead, LoopAhead
<1>17. CASE AnalyzeNormal
  BY <1>17 DEF AnalyzeNormal
<1>18. CASE AnalyzeCross
  BY <1>18 DEF AnalyzeCross, CrossBegins
<1>19. CASE AnalyzeNothing
  BY <1>19 DEF AnalyzeNothing
<1>20. CASE SwitchLoops
  BY <1>20 DEF SwitchLoops
<1>21. CASE RunOn \/ UNCHANGED searchVars
  BY <1>21 DEF RunOn, searchVars
<1> QED
  BY <1>1, <1>2, <1>3, <1>4, <1>5, <1>6, <1>7, <1>8, <1>9, <1>10, <1>11, <1>12,
     <1>13, <1>14, <1>15, <1>16, <1>17, <1>18, <1>19, <1>20, <1>21
  DEF SearchNext, SearchStep

(* The two copies of the element differ at most while both are plain       *)
(* (mt_image.c:134, 669), and a section runs only for its element.         *)
THEOREM CopiesAgreeCorrect == SearchSpec => []CopiesAgree
<1>1. TrackInv => CopiesAgree  BY DEF TrackInv
<1> QED  BY TrackInit, TrackStep, <1>1, PTL DEF SearchSpec

(* No loop is announced, turned into or driven whose announcement came     *)
(* while loops were disabled (mt_image.c:659-664, menu.c:88).              *)
THEOREM LoopsAllowedCorrect == SearchSpec => []LoopsAllowed
<1>1. TrackInv => LoopsAllowed  BY DEF TrackInv
<1> QED  BY TrackInit, TrackStep, <1>1, PTL DEF SearchSpec

-----------------------------------------------------------------------------
(* The order of the elements: the search implements TrackCycle. *)

LEMMA CycleStep ==
  ASSUME TrackInv, [SearchNext]_searchVars
  PROVE  element_type' \in Cycle!Follows(element_type) \/ UNCHANGED element_type
<1> USE NamesOfElements
    DEF TrackInv, CopiesAgree, PrevIsNormal, Report, Unreported,
        Cycle!Follows, Cycle!Plain, Cycle!Announced
<1>1. CASE StartSearch
  BY <1>1 DEF StartSearch
<1>2. CASE ZebraSeen
  BY <1>2 DEF ZebraSeen
<1>3. CASE ZebraNotSeen \/ RowSkipped
  BY <1>3 DEF ZebraNotSeen, SetGoing, RowSkipped
<1>4. CASE AllRoad \/ CalculateMidline
  BY <1>4 DEF AllRoad, CalculateMidline
<1>5. CASE FindBottom \/ NormalBound \/ NormalBoundAcross
  BY <1>5 DEF FindBottom, NormalBound, NormalBoundAcross
<1>6. CASE NormalBoundCurve
  BY <1>6 DEF NormalBoundCurve, Curve
<1>7. CASE NormalBoundCorner
  BY <1>7 DEF NormalBoundCorner, LoopBefore, LoopBefore2
<1>8. CASE LoopSeen \/ CrossSeen \/ RunAway
  BY <1>8 DEF LoopSeen, CrossSeen, RunAway
<1>9. CASE LoopCancel \/ CrossExit
  BY <1>9 DEF LoopCancel, CrossExit, Cancel, Loop
<1>10. CASE AnalyzeLoop
  BY <1>10 DEF AnalyzeLoop, LoopBegins, LoopBefore2, Loop
<1>11. CASE AnalyzeLoopAhead
  BY <1>11 DEF AnalyzeLoopAhead, LoopBefore
<1>12. CASE AnalyzeNormal
  BY <1>12 DEF AnalyzeNormal
<1>13. CASE AnalyzeCross
  BY <1>13 DEF AnalyzeCross, CrossBegins
<1>14. CASE AnalyzeNothing
  BY <1>14 DEF AnalyzeNothing
<1>15. CASE SwitchLoops
  BY <1>15 DEF SwitchLoops
<1>16. CASE RunOn \/ UNCHANGED searchVars
  BY <1>16 DEF RunOn, searchVars
<1> QED
  BY <1>1, <1>2, <1>3, <1>4, <1>5, <1>6, <1>7, <1>8, <1>9, <1>10, <1>11, <1>12, <1>13, <1>14,
     <1>15, <1>16
  DEF SearchNext, SearchStep

(* Whatever the images show, and whenever the outer loop looks: a loop is  *)
(* announced, turned into and driven on one side, a crossing is announced  *)
(* before it is driven, and both end in a normal stretch.                  *)
THEOREM SearchImplementsCycle == SearchSpec => CycleSpec
<1>1. SearchInit => element_type = "Zebra"
  BY DEF SearchInit
<1>2. TrackInv /\ [SearchNext]_searchVars
        => [element_type' \in Cycle!Follows(element_type)]_element_type
  BY CycleStep
<1> QED
  BY TrackInit, TrackStep, <1>1, <1>2, PTL DEF SearchSpec, CycleSpec, Cycle!Spec

-----------------------------------------------------------------------------
(* How many sections a search may take.  A jump back, from the analysis to *)
(* the loop or the crossing, costs a stage of the element; a section that  *)
(* goes on without one leads to a later section, and the last one is the   *)
(* end, or a loop within a section that has none.                          *)

StagesLeft(e) ==
  CASE e \in {LoopBefore(s) : s \in Sides} -> 4
    [] e \in {LoopBefore2(s) : s \in Sides} \union {"CrossBefore"} -> 3
    [] e \in {Loop(s) : s \in Sides} \union {"Cross"} -> 2
    [] OTHER -> 1

SectionsLeft(next) ==
  CASE next = "zebra" -> 6
    [] next = "bottom" -> 5
    [] next \in {"loop", "cross_bound"} -> 4
    [] next = "normal_bound" -> 3
    [] next = "analyze" -> 2
    [] next = "mid" -> 1
    [] OTHER -> 0

StepsLeft ==
  SectionsLeft(section) + (IF section \in {"idle", "endless", "mid"} THEN 0 ELSE 3 * StagesLeft(el))

LEMMA StagesOfElements ==
  \A s \in Sides : /\ StagesLeft(LoopBefore(s)) = 4 /\ StagesLeft(LoopBefore2(s)) = 3
                   /\ StagesLeft(Loop(s)) = 2 /\ StagesLeft(Curve(s)) = 1
BY DEF StagesLeft, Sides, LoopBefore, LoopBefore2, Loop, Curve

LEMMA StagesOfOthers ==
  /\ StagesLeft("CrossBefore") = 3 /\ StagesLeft("Cross") = 2 /\ StagesLeft("Normal") = 1
  /\ \A e : StagesLeft(e) \in 1..4
BY DEF StagesLeft, Sides, LoopBefore, LoopBefore2, Loop

LEMMA FewStepsLeft == StepsLeft \in 0..18
<1>1. SectionsLeft(section) \in 0..6
  BY DEF SectionsLeft
<1>2. StagesLeft(el) \in 1..4
  BY StagesOfOthers
<1> QED  BY <1>1, <1>2 DEF StepsLeft

LEMMA StepsGoDown == SearchStep => StepsLeft' < StepsLeft
<1> SUFFICES ASSUME SearchStep PROVE StepsLeft' < StepsLeft
  OBVIOUS
<1>1. StagesLeft(el) \in 1..4 /\ StagesLeft(el') \in 1..4
  BY StagesOfOthers
<1> USE DEF StepsLeft, SectionsLeft, Report, Enter, Unreported
<1>2. CASE ZebraSeen \/ AllRoad \/ CalculateMidline
  <2>1. section' = "idle" /\ section \in {"zebra", "bottom", "mid"}
    BY <1>2 DEF ZebraSeen, AllRoad, CalculateMidline, Return
  <2> QED  BY <1>1, <2>1
<1>3. CASE ZebraNotSeen \/ RowSkipped
  BY <1>1, <1>3 DEF ZebraNotSeen, RowSkipped
<1>4. CASE FindBottom
  BY <1>1, <1>4 DEF FindBottom
<1>5. CASE NormalBound \/ NormalBoundAcross
  BY <1>1, <1>5 DEF NormalBound, NormalBoundAcross
<1>6. CASE NormalBoundCurve
  <2>1. StagesLeft(el') = 1
    BY <1>6, StagesOfElements DEF NormalBoundCurve
  <2> QED  BY <1>1, <1>6, <2>1 DEF NormalBoundCurve
<1>7. CASE NormalBoundCorner
  <2>1. StagesLeft(el) = 4 /\ StagesLeft(el') = 3
    BY <1>7, StagesOfElements DEF NormalBoundCorner
  <2> QED  BY <1>7, <2>1 DEF NormalBoundCorner
<1>8. CASE LoopSeen \/ CrossSeen
  BY <1>1, <1>8 DEF LoopSeen, CrossSeen
<1>9. CASE LoopCancel \/ CrossExit
  <2>1. StagesLeft(el') = 1
    BY <1>9, StagesOfOthers DEF LoopCancel, CrossExit, Cancel
  <2> QED  BY <1>1, <1>9, <2>1 DEF LoopCancel, CrossExit
<1>10. CASE AnalyzeLoop
  <2>1. StagesLeft(el) = 3 /\ StagesLeft(el') = 2
    BY <1>10, StagesOfElements DEF AnalyzeLoop, LoopBegins
  <2> QED  BY <1>10, <2>1 DEF AnalyzeLoop
<1>11. CASE AnalyzeLoopAhead \/ AnalyzeNormal \/ AnalyzeNothing
  BY <1>1, <1>11 DEF AnalyzeLoopAhead, AnalyzeNormal, AnalyzeNothing
<1>12. CASE AnalyzeCross
  <2>1. StagesLeft(el) = 3 /\ StagesLeft(el') = 2
    BY <1>12, StagesOfOthers DEF AnalyzeCross, CrossBegins
  <2> QED  BY <1>12, <2>1 DEF AnalyzeCross
<1>13. CASE RunAway
  BY <1>1, <1>13 DEF RunAway, EndlessLoop
<1> QED
  BY <1>2, <1>3, <1>4, <1>5, <1>6, <1>7, <1>8, <1>9, <1>10, <1>11, <1>12, <1>13 DEF SearchStep

(* The jumps of search (mt_image.c:473-680) never go round: each section   *)
(* leads nearer to the end, and there are at most 18 of them, for whatever *)
(* the sections find.  With steps that are taken as long as there are any, *)
(* this is SearchEnds.                                                     *)
THEOREM SearchIsBounded ==
  SearchSpec => /\ [](StepsLeft \in 0..18)
                /\ [][SearchStep => StepsLeft' < StepsLeft]_searchVars
BY FewStepsLeft, StepsGoDown, PTL DEF SearchSpec

-----------------------------------------------------------------------------
(* The two together.  Every step is one of the keys or one of the search   *)
(* and leaves the other alone, but for the row of the switch: the search   *)
(* sees it change between two calls only, and only ever to its negation.   *)

MainInv == TypeOK /\ SwitchShown

LEMMA MainLoopInit == MainInit => MainInv
<1> SUFFICES ASSUME MainInit PROVE MainInv
  OBVIOUS
<1>1. param_enable_loop = TRUE /\ param[param_count] = 1
  BY TableOfParams DEF MainInit, Init, SearchInit
<1> QED  BY <1>1, InitTyped DEF MainInit, MainInv, SwitchShown, SwitchOf

LEMMA KeysInMainLoop == [MainNext]_<<vars, search>> => [Next]_vars
BY DEF MainNext, Interrupt, ProcessImage, HandleKeys, Next

LEMMA SearchInMainLoop ==
  ASSUME MainInv, [MainNext]_<<vars, search>>
  PROVE  [SearchNext]_searchVars
<1>1. CASE HandleKeys
  <2>1. CASE param'[param_count] = param[param_count]
    <3>1. UNCHANGED param_enable_loop
      BY <1>1, <2>1 DEF HandleKeys, MainInv, SwitchShown, SwitchOf
    <3> QED  BY <1>1, <3>1 DEF HandleKeys, picture, searchVars, row, image, found
  <2>2. CASE param'[param_count] # param[param_count]
    <3>1. TypeOK'
      BY <1>1, StepTyped DEF MainInv, HandleKeys, Next
    <3>2. (param'[param_count] = 1) = ~(param[param_count] = 1)
      BY <2>2, <3>1 DEF MainInv, TypeOK
    <3>3. param_enable_loop' = ~param_enable_loop
      BY <1>1, <3>2 DEF HandleKeys, MainInv, SwitchShown, SwitchOf
    <3>4. SwitchLoops
      BY <1>1, <3>3
      DEF HandleKeys, picture, SwitchLoops, Unreported, row, image, found
    <3> QED  BY <3>4 DEF SearchNext
  <2> QED  BY <2>1, <2>2
<1>2. CASE ProcessImage
  BY <1>2 DEF ProcessImage, SearchNext
<1>3. CASE Interrupt \/ UNCHANGED <<vars, search>>
  BY <1>3 DEF Interrupt, search, picture, searchVars, row, image, found
<1> QED  BY <1>1, <1>2, <1>3 DEF MainNext

LEMMA MainLoopStep == MainInv /\ [MainNext]_<<vars, search>> => MainInv'
<1> SUFFICES ASSUME MainInv, [MainNext]_<<vars, search>> PROVE MainInv'
  OBVIOUS
<1>1. TypeOK'
  BY KeysInMainLoop, StepTyped DEF MainInv
<1>2. SwitchShown'
  <2>1. CASE HandleKeys
    BY <2>1 DEF HandleKeys, SwitchShown, SwitchOf
  <2>2. CASE ProcessImage
    <3>1. UNCHANGED <<param, param_enable_loop>>
      BY <2>2
      DEF ProcessImage, vars, menu, StartSearch, SearchStep, Settings,
          ZebraSeen, ZebraNotSeen, RowSkipped, AllRoad, FindBottom,
          NormalBound, NormalBoundCurve, NormalBoundCorner,
          NormalBoundAcross, LoopSeen, LoopCancel, CrossSeen,
          CrossExit, RunAway, AnalyzeLoop, AnalyzeLoopAhead, AnalyzeNormal,
          AnalyzeCross, AnalyzeNothing, CalculateMidline
    <3> QED  BY <3>1 DEF MainInv, SwitchShown, SwitchOf
  <2>3. CASE Interrupt
    BY <2>3 DEF Interrupt, MoveFinger, key_scanner, menu, search, MainInv, SwitchShown, SwitchOf
  <2>4. CASE UNCHANGED <<vars, search>>
    BY <2>4 DEF vars, menu, search, MainInv, SwitchShown, SwitchOf
  <2> QED  BY <2>1, <2>2, <2>3, <2>4 DEF MainNext
<1> QED  BY <1>1, <1>2 DEF MainInv

(* The main loop is the menu of KeyMenu and the search of TrackElement,    *)
(* with the menu's last row as the search's switch (main.c:63-98).         *)
THEOREM MainLoopImplementsBoth == MainSpec => Spec /\ SearchSpec /\ []SwitchShown
<1>1. MainInit => Init /\ SearchInit
  BY DEF MainInit
<1>2. MainInv => SwitchShown
  BY DEF MainInv
<1>3. MainInv /\ [MainNext]_<<vars, search>> => [SearchNext]_searchVars
  BY SearchInMainLoop
<1> QED
  BY MainLoopInit, MainLoopStep, KeysInMainLoop, <1>1, <1>2, <1>3, PTL
  DEF MainSpec, Spec, SearchSpec
=============================================================================
