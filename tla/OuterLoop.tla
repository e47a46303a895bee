----------------------------- MODULE OuterLoop -----------------------------
(***************************************************************************)
(* motor_rotation_translation_pid_calc_apply (motion_control_new.c:        *)
(* 273-354), the outermost control loop, run by the PIT_CH1 interrupt      *)
(* every 8 ms, composed with the mode machine of MotionMode and with a car *)
(* that follows the outputs.  The interrupt reads motion_mode and the      *)
(* angles that the main loop writes, at any moment of a pass, and leaves   *)
(* an output alone where the mode assigns none.  Outputs are kept as       *)
(* signs: forward and left in the code's sense, rotation in the direction  *)
(* of growing angle_z.                                                     *)
(***************************************************************************)
EXTENDS MotionMode

VARIABLES
  forward, left, rotation,  \* the outputs of the three outer controllers
  steered                   \* the loop ran since the last turn or clock tick

outputs == <<forward, left, rotation>>
allVars == <<vars, outputs, steered>>

Sign(n) == IF n > 0 THEN 1 ELSE IF n < 0 THEN -1 ELSE 0
(* The sign of an offset that the mode machine only knows to be small. *)
SignOf(s) == IF s = 0 THEN Signs ELSE {s}

LoopInit ==
  /\ Init
  /\ forward = 0 /\ left = 0 /\ rotation = 0
  /\ steered = FALSE

-----------------------------------------------------------------------------
(* The outer loop, by mode. *)

SteerLine ==                  \* the offset of the track may be anything
  /\ motion_mode = "LINE_FOLLOW"
  /\ forward' \in {0, 1}      \* 0 at the zebra line
  /\ left' = 0
  /\ rotation' \in Signs

SteerDistance ==
  /\ motion_mode = "CUBE_DISTANCE_POSITION"
  /\ forward' \in SignOf(cube_info.p_count)
  /\ left' \in SignOf(cube_info.x_center)
  /\ rotation' = 0

IdentifyKeepsOutputs == UNCHANGED outputs
IdentifyOutputs == forward' = 0 /\ left' = 0 /\ rotation' = 0

SteerIdentify ==
  /\ motion_mode = "CUBE_IDENTIFY"
  /\ IdentifyOutputs

(* Going round the cube: sideways, and turning, towards the target. *)
SteerAngle ==
  /\ motion_mode = "CUBE_ANGLE_POSITION"
  /\ forward' = 0
  /\ left' = IF target_gyro_angle_z > angle_z THEN 1 ELSE -1
  /\ rotation' = Sign(target_gyro_angle_z - angle_z)

SteerPush ==
  /\ motion_mode = "CUBE_PUSH"
  /\ forward' = 1 /\ left' = 0
  /\ IF Inside THEN rotation' \in SignOf(cube_info.x_center) ELSE UNCHANGED rotation

BackForward == 0
BackOutput == -1
SteerPositionBack ==
  /\ motion_mode = "LINE_POSITION_BACK"
  /\ forward' = BackOutput
  /\ UNCHANGED <<left, rotation>>

SteerAngleBack ==
  /\ motion_mode = "LINE_ANGLE_BACK"
  /\ rotation' = Sign(line_gyro_angle_z - angle_z)
  /\ UNCHANGED <<forward, left>>

motor_rotation_translation_pid_calc_apply ==
  /\ \/ SteerLine \/ SteerDistance \/ SteerIdentify \/ SteerAngle
     \/ SteerPush \/ SteerPositionBack \/ SteerAngleBack
  /\ steered' = TRUE
  /\ UNCHANGED vars

-----------------------------------------------------------------------------
(* The car.  A quarter turn and a tick of the identification clock take    *)
(* far longer than 8 ms, so the loop runs in between.                      *)

Untouched == UNCHANGED <<outputs, steered>>

CarTurns ==
  /\ steered /\ rotation # 0
  /\ Turn /\ angle_z' = angle_z + rotation
  /\ steered' = FALSE
  /\ UNCHANGED outputs

(* Pushing drives the car off the track and backing drives it onto it;     *)
(* while it goes round a cube the sensor may see anything.                 *)
DriveOff == forward = 1 /\ motion_mode = "CUBE_PUSH" /\ grayscale_data = "IN" /\ SeeGround
DriveOn == forward = -1 /\ motion_mode = "LINE_POSITION_BACK" /\ grayscale_data = "OUT" /\ SeeGround
GoRound == motion_mode = "CUBE_ANGLE_POSITION" /\ SeeGround

ClockTicks == motion_mode = "CUBE_IDENTIFY" /\ steered /\ Clock /\ steered' = FALSE /\ UNCHANGED outputs

LoopNext ==
  \/ motor_rotation_translation_pid_calc_apply
  \/ CarTurns \/ ClockTicks
  \/ MainStep /\ Untouched
  \/ SeeCube /\ Untouched
  \/ SeeFace /\ Untouched
  \/ DriveOff /\ Untouched
  \/ DriveOn /\ Untouched
  \/ GoRound /\ Untouched

LoopSpec == LoopInit /\ [][LoopNext]_allVars

(* The timer interrupt and the main loop run for ever, the car obeys. *)
FairLoopSpec ==
  /\ LoopSpec
  /\ WF_allVars(motor_rotation_translation_pid_calc_apply)
  /\ WF_allVars(MainStep /\ Untouched)
  /\ WF_allVars(CarTurns)
  /\ WF_allVars(DriveOff /\ Untouched) /\ WF_allVars(DriveOn /\ Untouched)

-----------------------------------------------------------------------------
(* Properties. *)

LoopTypeOK ==
  /\ TypeOK
  /\ forward \in Signs /\ left \in Signs /\ rotation \in Signs
  /\ steered \in BOOLEAN

(* The face is read while the outer loop holds the car still: the wait     *)
(* outlasts the outputs that the positioning left behind.                  *)
StandsStillToIdentify == pc = "addClass" => forward = 0 /\ left = 0 /\ rotation = 0

(* Once the car knows how to go round a cube, it gets back to the line:    *)
(* no mode waits for something that its own outputs do not bring about.    *)
EpisodeEnds ==
  motion_mode = "CUBE_ANGLE_POSITION" /\ target_setted_flag
      /\ target_gyro_angle_z \in Headings ~>
    motion_mode = "LINE_FOLLOW"
=============================================================================
