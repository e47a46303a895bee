------------------------------- MODULE KeyMenu -------------------------------
(***************************************************************************)
(* The four keys and the menu they drive.  The PIT_CH3 interrupt debounces *)
(* the keys (key_scanner, zf_device_key.c:64-90) every 20 ms and writes    *)
(* key_state; the main loop (main.c:83-92) reads a key's state, acts on it *)
(* and clears it.  The interrupt may come between the three, and a pass of *)
(* the main loop may be shorter or longer than 20 ms: it draws pages and   *)
(* processes images.                                                       *)
(***************************************************************************)
EXTENDS Integers, FiniteSets

CONSTANTS
  Together,     \* bound: sets of keys that are down or waiting at one time
  ShockScans,   \* scans until a press counts: KEY_MAX_SHOCK_PERIOD
  LongScans,    \* scans until a press is long: KEY_LONG_PRESS_PERIOD
  Numbers,      \* numeric parameters in params; one switch follows them
  MaxLevel      \* steps between the limits of a numeric parameter

Keys == 1..4
param_count == Numbers + 1   \* params: 70..130, 60..120 and a switch
Params == 1..param_count

ASSUME KeyMenuAssumption ==
  /\ Together \subseteq SUBSET Keys
  /\ ShockScans \in Nat \ {0} /\ LongScans \in Nat /\ ShockScans < LongScans
  /\ Numbers \in Nat \ {0} /\ MaxLevel \in Nat /\ MaxLevel >= 2

VARIABLES
  pressed,                   \* the level of each key
  key_press_time, key_state, \* key_press_time in scans
  pc, seen,                  \* main loop: next program point; key states it has read
  current_page_id,
  param_table_selected_row,
  param,                     \* value of each parameter, in steps above its minimum
  motor_enable_flag,
  phase,                     \* 1: a pass began since the last scan, 2: and ended
  unserved                   \* history: keys with a short press not acted on yet

keys == <<pressed, key_press_time, key_state>>
menu == <<current_page_id, param_table_selected_row, param, motor_enable_flag>>
vars == <<keys, pc, seen, menu, phase, unserved>>

States == {"RELEASE", "SHORT", "LONG"}

Init ==
  /\ pressed = [k \in Keys |-> FALSE]
  /\ key_press_time = [k \in Keys |-> 0] /\ key_state = [k \in Keys |-> "RELEASE"]
  /\ pc = "page" /\ seen = [k \in Keys |-> "RELEASE"]
  /\ current_page_id = "debug"                    \* main.c:55
  /\ param_table_selected_row = 0                 \* menu.c:31
  /\ param = [r \in Params |-> IF r <= Numbers THEN 2 ELSE 1]   \* menu.c:80-82
  /\ motor_enable_flag = FALSE
  /\ phase = 0 /\ unserved = {}

-----------------------------------------------------------------------------
(* The fingers and the scanner. *)

Busy == {k \in Keys : pressed[k] \/ key_press_time[k] > 0 \/ key_state[k] # "RELEASE"}

MoveFinger ==
  \E k \in Keys :
    /\ \E ks \in Together : Busy \cup {k} \subseteq ks
    /\ pressed' = [pressed EXCEPT ![k] = ~@]
    /\ UNCHANGED <<key_press_time, key_state, pc, seen, menu, phase, unserved>>

(* Times beyond a long press are all alike. *)
PressTime(k) ==
  IF ~pressed[k] THEN 0
  ELSE IF key_press_time[k] < LongScans THEN key_press_time[k] + 1 ELSE LongScans

ShortPress(k) ==
  key_state[k] # "LONG" /\ key_press_time[k] \in ShockScans..LongScans - 1

(* A key that is held keeps the state it has, a key that is up gets one.   *)
Scanned(k) ==
  IF pressed[k] THEN IF PressTime(k) >= LongScans THEN "LONG" ELSE key_state[k]
  ELSE IF ShortPress(k) THEN "SHORT" ELSE "RELEASE"

key_scanner ==
  /\ phase' = 0
  /\ key_press_time' = [k \in Keys |-> PressTime(k)]
  /\ key_state' = [k \in Keys |-> Scanned(k)]
  /\ unserved' = unserved \cup {k \in Keys : ~pressed[k] /\ ShortPress(k)}
  /\ UNCHANGED <<pressed, pc, seen, menu>>

-----------------------------------------------------------------------------
(* The main loop.  Every handler reads, acts, and then clears the state.   *)

ClearNothing(ks) == key_state
Cleared(ks) == [k \in Keys |-> IF k \in ks THEN "RELEASE" ELSE key_state[k]]

Act(ks, next) ==
  /\ unserved' = unserved \ ks
  /\ seen' = [k \in Keys |-> IF k \in ks THEN key_state[k] ELSE "RELEASE"]
  /\ pc' = next

key_clear_state(ks, from, next) ==
  /\ pc = from
  /\ pc' = next
  /\ key_state' = Cleared(ks)
  /\ seen' = [k \in Keys |-> "RELEASE"]

Begun == IF phase = 0 THEN 1 ELSE phase
Ended == IF phase = 1 THEN 2 ELSE phase

NextPage == [image |-> "debug", debug |-> "cube", cube |-> "param", param |-> "image"]

ChangePage ==
  /\ pc = "page"
  /\ phase' = Begun
  /\ IF key_state[1] = "RELEASE"
     THEN pc' = "row" /\ UNCHANGED <<current_page_id, seen, unserved>>
     ELSE Act({1}, "pageClear") /\ current_page_id' = NextPage[current_page_id]
  /\ UNCHANGED <<keys, param_table_selected_row, param, motor_enable_flag>>

ChangePageClear ==
  /\ key_clear_state({1}, "pageClear", "row")
  /\ UNCHANGED <<pressed, key_press_time, menu, phase, unserved>>

SelectRow ==                 \* the selected row of the cube table is only drawn
  /\ pc = "row"
  /\ IF key_state[2] = "RELEASE" \/ current_page_id \notin {"cube", "param"}
     THEN pc' = "adjust" /\ UNCHANGED <<param_table_selected_row, seen, unserved>>
     ELSE /\ Act({2}, "rowClear")
          /\ param_table_selected_row' =
               IF current_page_id # "param" THEN param_table_selected_row
               ELSE IF param_table_selected_row = param_count THEN 1
               ELSE param_table_selected_row + 1
  /\ UNCHANGED <<keys, current_page_id, param, motor_enable_flag, phase>>

SelectRowClear ==
  /\ key_clear_state({2}, "rowClear", "adjust")
  /\ UNCHANGED <<pressed, key_press_time, menu, phase, unserved>>

MotorKeyOnDebugOnly == current_page_id = "debug"
MotorKeyLive == current_page_id # "param"

AdjustedUnclamped(r, up) ==
  IF r = 0 THEN param ELSE [param EXCEPT ![r] = IF up THEN @ + 1 ELSE @ - 1]

(* key_adjust_param(KEY_3, KEY_4); row 0 names params[-1], some other      *)
(* variable: no parameter changes.                                         *)
Adjusted(r, up) ==
  IF r = 0 THEN param
  ELSE IF r = param_count THEN [param EXCEPT ![r] = 1 - @]
  ELSE [param EXCEPT ![r] = IF up THEN IF @ < MaxLevel THEN @ + 1 ELSE MaxLevel
                            ELSE IF @ > 0 THEN @ - 1 ELSE 0]

NextPass == pc' = "page" /\ phase' = Ended

ReadPlus ==                  \* key_adjust_param reads KEY_3, then KEY_4
  /\ pc = "adjust" /\ current_page_id = "param"
  /\ seen' = [seen EXCEPT ![3] = key_state[3]]
  /\ pc' = "minus"
  /\ UNCHANGED <<keys, menu, phase, unserved>>

AdjustParam ==
  /\ pc = "minus"
  /\ LET plus == seen[3] # "RELEASE"
         minus == key_state[4] # "RELEASE"
     IN IF plus = minus
        THEN NextPass /\ seen' = [k \in Keys |-> "RELEASE"] /\ UNCHANGED <<param, unserved>>
        ELSE /\ seen' = [seen EXCEPT ![4] = key_state[4]]
             /\ unserved' = unserved \ (IF plus THEN {3} ELSE {4})
             /\ param' = Adjusted(param_table_selected_row, plus)
             /\ pc' = "plusClear"
             /\ UNCHANGED phase
  /\ UNCHANGED <<keys, current_page_id, param_table_selected_row, motor_enable_flag>>

PlusClear ==
  /\ key_clear_state({3}, "plusClear", "minusClear")
  /\ UNCHANGED <<pressed, key_press_time, menu, phase, unserved>>

MinusClear ==
  /\ key_clear_state({4}, "minusClear", "page")
  /\ phase' = Ended
  /\ UNCHANGED <<pressed, key_press_time, menu, unserved>>

SwitchMotor ==               \* key_switch_motor(KEY_4)
  /\ pc = "adjust" /\ current_page_id # "param"
  /\ IF key_state[4] = "RELEASE" \/ ~MotorKeyLive
     THEN NextPass /\ UNCHANGED <<motor_enable_flag, param, seen, unserved>>
     ELSE /\ Act({4}, "motorClear")
          /\ motor_enable_flag' = ~motor_enable_flag
          /\ UNCHANGED <<param, phase>>
  /\ UNCHANGED <<keys, current_page_id, param_table_selected_row>>

SwitchMotorClear ==
  /\ key_clear_state({4}, "motorClear", "page")
  /\ phase' = Ended
  /\ UNCHANGED <<pressed, key_press_time, menu, unserved>>

MainStep ==
  \/ ChangePage \/ ChangePageClear
  \/ SelectRow \/ SelectRowClear
  \/ ReadPlus \/ AdjustParam \/ PlusClear \/ MinusClear
  \/ SwitchMotor \/ SwitchMotorClear

Next == MoveFinger \/ key_scanner \/ MainStep

Spec == Init /\ [][Next]_vars

-----------------------------------------------------------------------------
(* Properties. *)

(* Types; the selected row is one of the table or none, and a parameter    *)
(* stays within its limits (menu.c:300-304).                               *)
TypeOK ==
  /\ pressed \in [Keys -> BOOLEAN]
  /\ key_press_time \in [Keys -> 0..LongScans] /\ key_state \in [Keys -> States]
  /\ seen \in [Keys -> States]
  /\ pc \in {"page", "pageClear", "row", "rowClear", "adjust", "minus", "plusClear",
             "minusClear", "motorClear"}
  /\ current_page_id \in DOMAIN NextPage
  /\ param_table_selected_row \in 0..param_count
  /\ param \in [Params -> 0..MaxLevel] /\ param[param_count] \in {0, 1}
  /\ motor_enable_flag \in BOOLEAN
  /\ phase \in 0..2 /\ unserved \subseteq Keys

(* A short press is acted on once: no key state outlives the action it     *)
(* caused, wherever the scanner comes in between.                          *)
ShortPressActsOnce ==
  [][\A k \in Keys : seen[k] = "RELEASE" /\ seen'[k] = "SHORT" => k \in unserved]_vars

(* A main loop that has passed all keys since the last scan has lost no    *)
(* press of the page key and of the motor key.                             *)
NoPressLost ==
  [][key_scanner /\ phase = 2 =>
                    /\ key_state[1] # "SHORT"
                    /\ current_page_id # "param" => key_state[4] # "SHORT"]_vars
=============================================================================
