----------------------------- MODULE MotionMode -----------------------------
(***************************************************************************)
(* motion_mode_calc (motion_control_new.c:384-484), the mode machine that  *)
(* the main loop runs: follow the line, take position before a cube,       *)
(* identify it, go round it, push it off the track, come back.             *)
(*                                                                         *)
(* The main loop is interrupted anywhere by the handlers that write what   *)
(* it reads: the camera link (cube_info), the classifier link              *)
(* (current_cube_face_info), the gyroscope (angle_z) and the grayscale     *)
(* sensor.  Each variable they write is read in a step of its own; pc      *)
(* names the read that comes next.  What a reading says is kept as far as  *)
(* the code asks: x_center and p_count as signs, 0 for "within the         *)
(* tolerance"; angles in quarter turns, so that "within 5 degrees" is      *)
(* equality.  last_motion_mode is written and never read: left out.        *)
(***************************************************************************)
EXTENDS Integers, FiniteSets

CONSTANTS
  Readings,      \* what the camera board may report
  Faces,         \* what the classifier may report
  Headings,      \* bound: headings of the car, in quarter turns
  IdentifyWait,  \* IMAGE_IDENTIFY_WAIT_TIME in ticks of the clock
  ListSize       \* CUBE_INFO_PAGE_LIST_SIZE

States == {"outside", "inside"}
Signs == {-1, 0, 1}
ClassIds == 0..15
Digits == 0..255

ASSUME MotionModeAssumption ==
  /\ Readings \subseteq [state : States, x_center : Signs, p_count : Signs]
  /\ Faces \subseteq [class : ClassIds, number : Digits]
  /\ Headings \subseteq Int /\ 0 \in Headings
  /\ IdentifyWait \in Nat \ {0} /\ ListSize \in Nat

VARIABLES
  motion_mode, pc,
  cube_info, current_cube_face_info, angle_z, grayscale_data,  \* set by interrupts
  image_identify_wait_flag, waited,   \* waited: now - image_identify_wait_start_time
  cube_push_dir, class_read,          \* class_read: first operand of a call in progress
  target_setted_flag,                 \* motion_control_target_angle_z_setted_flag
  target_gyro_angle_z, line_gyro_angle_z,
  cube_info_list_next_index,
  dwell,                              \* history: time since CUBE_IDENTIFY was entered
  recorded,                           \* history: the face last given to cube_info_add
  approach                            \* history: headings from which the target may come

control == <<motion_mode, pc>>
sensors == <<cube_info, current_cube_face_info, angle_z, grayscale_data>>
identify == <<image_identify_wait_flag, waited, class_read, cube_push_dir,
              cube_info_list_next_index>>
turn == <<target_setted_flag, target_gyro_angle_z, line_gyro_angle_z>>
history == <<dwell, recorded, approach>>
vars == <<control, sensors, identify, turn, history>>

Modes == {"LINE_FOLLOW", "CUBE_DISTANCE_POSITION", "CUBE_IDENTIFY", "CUBE_ANGLE_POSITION",
          "CUBE_PUSH", "LINE_POSITION_BACK", "LINE_ANGLE_BACK"}
Points == {"loop", "x_center", "p_count", "wait", "addClass", "addNumber",
           "dirClass", "dirNumber", "turn"}

-----------------------------------------------------------------------------
(* get_cube_push_dir (OpenART.c:107-126).  Its parameter `number` hides    *)
(* the class `number` of the enumeration, so line 110 compares the class   *)
(* with the digit.                                                         *)

headphones == 1
keyboard == 2
mobile_phone == 4
monitor == 5
mouse == 6
NumberClass == 8          \* `number` in the enumeration
printer == 11
speaker == 14

Peripherals == {mouse, keyboard, monitor, headphones, speaker, printer, mobile_phone}
get_cube_push_dir(class, number) ==
  IF class = number
  THEN IF number % 2 # 0 THEN "LEFT" ELSE "RIGHT"
  ELSE IF class \in Peripherals THEN "LEFT" ELSE "RIGHT"

QuarterTurn(dir) == IF dir = "LEFT" THEN -1 ELSE 1

-----------------------------------------------------------------------------
(* The main loop. *)

Init ==
  /\ motion_mode = "LINE_FOLLOW" /\ pc = "loop"
  /\ cube_info = [state |-> "outside", x_center |-> -1, p_count |-> 1]
  /\ current_cube_face_info = [class |-> 0, number |-> 0]
  /\ angle_z = 0 /\ grayscale_data \in {"IN", "OUT"}
  /\ image_identify_wait_flag = FALSE /\ waited = 0
  /\ class_read = 0 /\ cube_push_dir = "LEFT" /\ cube_info_list_next_index = 0
  /\ target_setted_flag = FALSE
  /\ target_gyro_angle_z = 0 /\ line_gyro_angle_z = 0
  /\ dwell = 0 /\ recorded = current_cube_face_info
  /\ approach = {}

Inside == cube_info.state = "inside"
At(mode, point) == motion_mode = mode /\ pc = point
Goto(point) == pc' = point /\ UNCHANGED motion_mode
SwitchTo(mode) == motion_mode' = mode /\ pc' = "loop"

FollowLine ==
  /\ At("LINE_FOLLOW", "loop")
  /\ IF Inside THEN SwitchTo("CUBE_DISTANCE_POSITION") ELSE UNCHANGED control
  /\ UNCHANGED <<sensors, identify, turn, history>>

CubeLostIgnored == FALSE
CubeLost == ~Inside

(* Three reads of cube_info: the state, x_center, p_count. *)
ReadDistanceState ==
  /\ At("CUBE_DISTANCE_POSITION", "loop")
  /\ IF CubeLost THEN SwitchTo("LINE_FOLLOW") ELSE Goto("x_center")
  /\ UNCHANGED <<sensors, identify, turn, history>>

ReadXCenter ==
  /\ At("CUBE_DISTANCE_POSITION", "x_center")
  /\ Goto(IF cube_info.x_center = 0 THEN "p_count" ELSE "loop")
  /\ UNCHANGED <<sensors, identify, turn, history>>

ReadPCount ==
  /\ At("CUBE_DISTANCE_POSITION", "p_count")
  /\ IF cube_info.p_count = 0
     THEN SwitchTo("CUBE_IDENTIFY") /\ dwell' = 0
     ELSE Goto("loop") /\ UNCHANGED dwell
  /\ UNCHANGED <<sensors, identify, turn, recorded, approach>>

LossKeepsFlag == image_identify_wait_flag
FlagOnLoss == FALSE

ReadIdentifyState ==
  /\ At("CUBE_IDENTIFY", "loop")
  /\ IF Inside
     THEN Goto("wait") /\ UNCHANGED image_identify_wait_flag
     ELSE SwitchTo("LINE_FOLLOW") /\ image_identify_wait_flag' = FlagOnLoss
  /\ UNCHANGED <<sensors, waited, class_read, cube_push_dir, cube_info_list_next_index,
                 turn, history>>

WaitStartsAnyway == TRUE
WaitStarts == ~image_identify_wait_flag

StartWait ==
  /\ At("CUBE_IDENTIFY", "wait")
  /\ WaitStarts
  /\ image_identify_wait_flag' = TRUE /\ waited' = 0
  /\ Goto("loop")
  /\ UNCHANGED <<sensors, class_read, cube_push_dir, cube_info_list_next_index, turn, history>>

LookAtClock ==
  /\ At("CUBE_IDENTIFY", "wait")
  /\ ~WaitStarts
  /\ Goto(IF waited >= IdentifyWait THEN "addClass" ELSE "loop")
  /\ UNCHANGED <<sensors, identify, turn, history>>

(* The operands of cube_info_add and, once more, of get_cube_push_dir.     *)
ReadClass ==
  /\ motion_mode = "CUBE_IDENTIFY"
  /\ \/ pc = "addClass" /\ Goto("addNumber")
     \/ pc = "dirClass" /\ Goto("dirNumber")
  /\ class_read' = current_cube_face_info.class
  /\ UNCHANGED <<sensors, image_identify_wait_flag, waited, cube_push_dir,
                 cube_info_list_next_index, turn, history>>

ListNeverFull == FALSE
ListFull == cube_info_list_next_index >= ListSize

cube_info_add ==
  /\ At("CUBE_IDENTIFY", "addNumber")
  /\ recorded' = [class |-> class_read, number |-> current_cube_face_info.number]
  /\ cube_info_list_next_index' =
       IF ListFull THEN cube_info_list_next_index ELSE cube_info_list_next_index + 1
  /\ Goto("dirClass")
  /\ UNCHANGED <<sensors, image_identify_wait_flag, waited, class_read, cube_push_dir, turn,
                 dwell, approach>>

ChoosePushDir ==
  /\ At("CUBE_IDENTIFY", "dirNumber")
  /\ cube_push_dir' = get_cube_push_dir(class_read, current_cube_face_info.number)
  /\ image_identify_wait_flag' = FALSE
  /\ SwitchTo("CUBE_ANGLE_POSITION")
  /\ approach' = {angle_z}
  /\ UNCHANGED <<sensors, waited, class_read, cube_info_list_next_index, turn,
                 dwell, recorded>>

RecordLineAngle ==                    \* on every pass, not on the first alone
  /\ At("CUBE_ANGLE_POSITION", "loop")
  /\ line_gyro_angle_z' = angle_z
  /\ Goto("turn")
  /\ UNCHANGED <<sensors, identify, target_setted_flag, target_gyro_angle_z, history>>

SetTarget ==
  /\ At("CUBE_ANGLE_POSITION", "turn")
  /\ ~target_setted_flag
  /\ target_setted_flag' = TRUE
  /\ target_gyro_angle_z' = line_gyro_angle_z + QuarterTurn(cube_push_dir)
  /\ Goto("loop")
  /\ UNCHANGED <<sensors, identify, line_gyro_angle_z, history>>

ArrivalKeepsFlag == TRUE
FlagOnArrival == FALSE

CompareWithTarget ==
  /\ At("CUBE_ANGLE_POSITION", "turn")
  /\ target_setted_flag
  /\ IF target_gyro_angle_z = angle_z
     THEN SwitchTo("CUBE_PUSH") /\ target_setted_flag' = FlagOnArrival
     ELSE Goto("loop") /\ UNCHANGED target_setted_flag
  /\ UNCHANGED <<sensors, identify, target_gyro_angle_z, line_gyro_angle_z, history>>

PushCube ==
  /\ At("CUBE_PUSH", "loop")
  /\ IF grayscale_data = "OUT" THEN SwitchTo("LINE_POSITION_BACK") ELSE UNCHANGED control
  /\ UNCHANGED <<sensors, identify, turn, history>>

BackOntoTrack ==
  /\ At("LINE_POSITION_BACK", "loop")
  /\ IF grayscale_data = "IN" THEN SwitchTo("LINE_ANGLE_BACK") ELSE UNCHANGED control
  /\ UNCHANGED <<sensors, identify, turn, history>>

TurnToLine ==
  /\ At("LINE_ANGLE_BACK", "loop")
  /\ IF angle_z = line_gyro_angle_z THEN SwitchTo("LINE_FOLLOW") ELSE UNCHANGED control
  /\ UNCHANGED <<sensors, identify, turn, history>>

MainStep ==
  \/ FollowLine
  \/ ReadDistanceState \/ ReadXCenter \/ ReadPCount
  \/ ReadIdentifyState \/ StartWait \/ LookAtClock
  \/ ReadClass \/ cube_info_add \/ ChoosePushDir
  \/ RecordLineAngle \/ SetTarget \/ CompareWithTarget
  \/ PushCube \/ BackOntoTrack \/ TurnToLine

-----------------------------------------------------------------------------
(* The interrupts, between any two steps of the main loop. *)

SeeCube ==                            \* mcx_cube_data_handle_pit_call
  /\ cube_info' \in Readings
  /\ UNCHANGED <<control, current_cube_face_info, angle_z, grayscale_data, identify, turn,
                 history>>

SeeFace ==                            \* art_cube_data_handle_pit_call
  /\ current_cube_face_info' \in Faces
  /\ UNCHANGED <<control, cube_info, angle_z, grayscale_data, identify, turn, history>>

Turn ==                               \* the car turns, gyroscope_pit_callback sees it
  /\ \E s \in {-1, 1} : angle_z' = angle_z + s
  /\ angle_z' \in Headings
  /\ approach' = IF motion_mode = "CUBE_ANGLE_POSITION" /\ ~target_setted_flag
                 THEN approach \cup {angle_z'} ELSE approach
  /\ UNCHANGED <<control, cube_info, current_cube_face_info, grayscale_data, identify, turn,
                 dwell, recorded>>

SeeGround ==                          \* grayscale_read
  /\ grayscale_data' \in {"IN", "OUT"} \ {grayscale_data}
  /\ UNCHANGED <<control, cube_info, current_cube_face_info, angle_z, identify, turn, history>>

Later(t) == IF t < IdentifyWait THEN t + 1 ELSE t     \* longer times are all alike

Clock ==                              \* GPT_TIM_1 counts on
  /\ waited' = IF image_identify_wait_flag THEN Later(waited) ELSE waited
  /\ dwell' = IF motion_mode = "CUBE_IDENTIFY" THEN Later(dwell) ELSE dwell
  /\ UNCHANGED <<control, sensors, image_identify_wait_flag, class_read, cube_push_dir,
                 cube_info_list_next_index, turn, recorded, approach>>

Interrupt == SeeCube \/ SeeFace \/ Turn \/ SeeGround

Next == MainStep \/ Interrupt \/ Clock

Spec == Init /\ [][Next]_vars

(* The main loop runs for ever and the clock counts for ever. *)
FairSpec == Spec /\ WF_vars(MainStep) /\ WF_vars(Clock)

-----------------------------------------------------------------------------
(* Properties. *)

FaceSet == [class : ClassIds, number : Digits]

(* Types; in particular each mode has its own program points. *)
TypeOK ==
  /\ motion_mode \in Modes /\ pc \in Points
  /\ cube_info \in [state : States, x_center : Signs, p_count : Signs]
  /\ current_cube_face_info \in FaceSet
  /\ angle_z \in Headings /\ grayscale_data \in {"IN", "OUT"}
  /\ image_identify_wait_flag \in BOOLEAN /\ waited \in 0..IdentifyWait
  /\ cube_push_dir \in {"LEFT", "RIGHT"} /\ class_read \in ClassIds
  /\ target_setted_flag \in BOOLEAN
  /\ target_gyro_angle_z \in Int /\ line_gyro_angle_z \in Headings
  /\ cube_info_list_next_index \in 0..ListSize
  /\ dwell \in 0..IdentifyWait /\ recorded \in FaceSet
  /\ approach \subseteq Headings

(* A face is recorded only after the car has been in CUBE_IDENTIFY for the *)
(* full waiting time, also when the cube was lost and seen again and the   *)
(* wait began before that.                                                 *)
IdentifyWaitsFull ==
  pc \in {"addClass", "addNumber", "dirClass", "dirNumber"} => dwell = IdentifyWait

(* The car pushes at a right angle to a heading it had in this approach,   *)
(* on the side of this cube's push direction: no target is left over from  *)
(* the cube before.                                                        *)
FromThisApproach(t) == \E h \in approach : t = h + QuarterTurn(cube_push_dir)
AlignedToOwnTarget == motion_mode = "CUBE_PUSH" => FromThisApproach(target_gyro_angle_z)

(* The identification always ends, whatever the camera reports. *)
IdentifyEnds == motion_mode = "CUBE_IDENTIFY" ~> motion_mode # "CUBE_IDENTIFY"

(* A cube that is gone for good before it was identified sends the car     *)
(* back to the line.                                                       *)
LostCubeGivesUp ==
  motion_mode = "CUBE_DISTANCE_POSITION" ~>
    motion_mode # "CUBE_DISTANCE_POSITION" \/ Inside

(* motion_control_new.c:434 "first records the angle of the track": the    *)
(* angle to which the car turns back is one it had when it began to turn.  *)
LineAngleIsTracks == motion_mode = "LINE_ANGLE_BACK" => line_gyro_angle_z \in approach
=============================================================================
