-------------------------- MODULE OuterLoop_proofs --------------------------
(***************************************************************************)
(* Proofs about MotionMode and about OuterLoop, which composes it with the *)
(* control loop and the car, for all readings, faces, headings, waiting    *)
(* times and list sizes.  Of the mode machine: its types, that a face is   *)
(* recorded only after the full waiting time, and that the car pushes      *)
(* along a target of the approach it is in.  Of the closed loop: that it   *)
(* is the mode machine, and that the car stands still when a face is read. *)
(***************************************************************************)
EXTENDS OuterLoop, TLAPS

-----------------------------------------------------------------------------
(* The mode machine: types. *)

(* A push direction is left or right, whatever is recognised. *)
LEMMA PushDirType ==
  ASSUME NEW c, NEW n PROVE get_cube_push_dir(c, n) \in {"LEFT", "RIGHT"}
  BY DEF get_cube_push_dir

(* The car starts with well-typed variables. *)
LEMMA InitTypeOK == Init => TypeOK
<1> SUFFICES ASSUME Init PROVE TypeOK
  OBVIOUS
<1>1. current_cube_face_info \in FaceSet /\ recorded \in FaceSet
  BY DEF Init, FaceSet, ClassIds, Digits
<1>2. cube_info \in [state : States, x_center : Signs, p_count : Signs]
  BY DEF Init, States, Signs
<1>3. /\ motion_mode \in Modes /\ pc \in Points
      /\ grayscale_data \in {"IN", "OUT"} /\ cube_push_dir \in {"LEFT", "RIGHT"}
  BY DEF Init, Modes, Points
<1>4. /\ angle_z \in Headings /\ line_gyro_angle_z \in Headings
      /\ target_gyro_angle_z \in Int /\ approach \subseteq Headings
  BY MotionModeAssumption DEF MotionModeAssumption, Init
<1>5. /\ waited \in 0..IdentifyWait /\ dwell \in 0..IdentifyWait
      /\ cube_info_list_next_index \in 0..ListSize /\ class_read \in ClassIds
  BY MotionModeAssumption DEF MotionModeAssumption, Init, ClassIds
<1>6. /\ image_identify_wait_flag \in BOOLEAN /\ target_setted_flag \in BOOLEAN
  BY DEF Init
<1> QED
  BY <1>1, <1>2, <1>3, <1>4, <1>5, <1>6 DEF TypeOK

(* The main loop keeps the types; only CompareWithTarget and the reads of  *)
(* the sensors need more than the assignments themselves.                  *)
LEMMA MainTypeOK == TypeOK /\ MainStep => TypeOK'
<1> SUFFICES ASSUME TypeOK, MainStep PROVE TypeOK'
  OBVIOUS
<1> USE MotionModeAssumption
    DEF MotionModeAssumption, TypeOK, Modes, Points, States, Signs, ClassIds, Digits, FaceSet,
        sensors, identify, turn, history, control, Goto, SwitchTo, At
<1>1. CASE FollowLine
  BY <1>1 DEF FollowLine
<1>2. CASE ReadDistanceState
  BY <1>2 DEF ReadDistanceState
<1>3. CASE ReadXCenter
  BY <1>3 DEF ReadXCenter
<1>4. CASE ReadPCount
  BY <1>4 DEF ReadPCount
<1>5. CASE ReadIdentifyState
  BY <1>5 DEF ReadIdentifyState, FlagOnLoss
<1>6. CASE StartWait
  BY <1>6 DEF StartWait
<1>7. CASE LookAtClock
  BY <1>7 DEF LookAtClock
<1>8. CASE ReadClass
  BY <1>8 DEF ReadClass
<1>9. CASE cube_info_add
  BY <1>9 DEF cube_info_add, ListFull
<1>10. CASE ChoosePushDir
  BY <1>10, PushDirType DEF ChoosePushDir
<1>11. CASE RecordLineAngle
  BY <1>11 DEF RecordLineAngle
<1>12. CASE SetTarget
  BY <1>12 DEF SetTarget, QuarterTurn
<1>13. CASE CompareWithTarget
  BY <1>13 DEF CompareWithTarget, FlagOnArrival
<1>14. CASE PushCube
  BY <1>14 DEF PushCube
<1>15. CASE BackOntoTrack
  BY <1>15 DEF BackOntoTrack
<1>16. CASE TurnToLine
  BY <1>16 DEF TurnToLine
<1> QED
  BY <1>1, <1>2, <1>3, <1>4, <1>5, <1>6, <1>7, <1>8, <1>9, <1>10, <1>11, <1>12, <1>13, <1>14,
     <1>15, <1>16 DEF MainStep

(* So do the interrupts and the clock. *)
LEMMA InterruptTypeOK == TypeOK /\ (Interrupt \/ Clock) => TypeOK'
<1> SUFFICES ASSUME TypeOK, Interrupt \/ Clock PROVE TypeOK'
  OBVIOUS
<1> USE MotionModeAssumption
    DEF MotionModeAssumption, TypeOK, Modes, Points, States, Signs, ClassIds, Digits, FaceSet,
        sensors, identify, turn, history, control
<1>1. CASE SeeCube
  BY <1>1 DEF SeeCube
<1>2. CASE SeeFace
  BY <1>2 DEF SeeFace
<1>3. CASE Turn
  BY <1>3 DEF Turn
<1>4. CASE SeeGround
  BY <1>4 DEF SeeGround
<1>5. CASE Clock
  BY <1>5 DEF Clock, Later
<1> QED
  BY <1>1, <1>2, <1>3, <1>4, <1>5 DEF Interrupt

(* Every step keeps the types. *)
LEMMA TypeStep == TypeOK /\ [Next]_vars => TypeOK'
<1> SUFFICES ASSUME TypeOK, [Next]_vars PROVE TypeOK'
  OBVIOUS
<1>1. CASE Next
  BY <1>1, MainTypeOK, InterruptTypeOK DEF Next
<1>2. CASE UNCHANGED vars
  BY <1>2 DEF TypeOK, vars, control, sensors, identify, turn, history
<1> QED
  BY <1>1, <1>2

(* The variables of the mode machine keep their types in every behaviour,  *)
(* with the list of cubes within its size (menu.c:142).                    *)
THEOREM TypeCorrect == Spec => []TypeOK
  BY InitTypeOK, TypeStep, PTL DEF Spec

-----------------------------------------------------------------------------
(* The waiting time.  The wait that is being measured began in the present *)
(* stay in CUBE_IDENTIFY, so it is never longer than the stay.             *)

Recording == {"addClass", "addNumber", "dirClass", "dirNumber"}

WaitInv ==
  /\ pc \in Recording \cup {"wait"} => motion_mode = "CUBE_IDENTIFY"
  /\ image_identify_wait_flag => motion_mode = "CUBE_IDENTIFY" /\ waited <= dwell
  /\ pc \in Recording => dwell = IdentifyWait

(* Every step preserves it: the flag is reset on both ways out of the mode *)
(* and the clock advances both times together.                             *)
LEMMA WaitStep == TypeOK /\ WaitInv /\ [Next]_vars => WaitInv'
<1> SUFFICES ASSUME TypeOK, WaitInv, [Next]_vars PROVE WaitInv'
  OBVIOUS
<1> USE MotionModeAssumption
    DEF MotionModeAssumption, TypeOK, WaitInv, Recording, sensors, identify, turn, history,
        control, Goto, SwitchTo, At
<1>1. CASE ReadPCount
  BY <1>1 DEF ReadPCount
<1>2. CASE ReadIdentifyState
  BY <1>2 DEF ReadIdentifyState, FlagOnLoss
<1>3. CASE StartWait
  BY <1>3 DEF StartWait
<1>4. CASE LookAtClock
  BY <1>4 DEF LookAtClock, WaitStarts
<1>5. CASE ReadClass \/ cube_info_add
  BY <1>5 DEF ReadClass, cube_info_add
<1>6. CASE ChoosePushDir
  BY <1>6 DEF ChoosePushDir
<1>7. CASE FollowLine \/ ReadDistanceState \/ ReadXCenter
  BY <1>7 DEF FollowLine, ReadDistanceState, ReadXCenter
<1>8. CASE RecordLineAngle \/ SetTarget \/ CompareWithTarget
  BY <1>8 DEF RecordLineAngle, SetTarget, CompareWithTarget
<1>9. CASE PushCube \/ BackOntoTrack \/ TurnToLine
  BY <1>9 DEF PushCube, BackOntoTrack, TurnToLine
<1>10. CASE Interrupt
  BY <1>10 DEF Interrupt, SeeCube, SeeFace, Turn, SeeGround
<1>11. CASE Clock
  BY <1>11 DEF Clock, Later
<1>12. CASE UNCHANGED vars
  BY <1>12 DEF vars
<1> QED
  BY <1>1, <1>2, <1>3, <1>4, <1>5, <1>6, <1>7, <1>8, <1>9, <1>10, <1>11, <1>12
  DEF Next, MainStep

(* A face is recorded only after the car has been in CUBE_IDENTIFY for the *)
(* full waiting time (motion_control_new.c:411-430).                       *)
THEOREM IdentifyWaitsFullCorrect == Spec => []IdentifyWaitsFull
<1>1. Init => WaitInv
  BY DEF Init, WaitInv, Recording
<1>2. WaitInv => IdentifyWaitsFull
  BY DEF WaitInv, IdentifyWaitsFull, Recording
<1> QED
  BY <1>1, <1>2, WaitStep, TypeCorrect, PTL DEF Spec

-----------------------------------------------------------------------------
(* How long the identification may take: the waiting time, and then the    *)
(* points that the main loop has before it.                                *)

TimeLeft == IF image_identify_wait_flag THEN IdentifyWait - waited ELSE IdentifyWait + 1

PointsLeft ==
  CASE pc = "loop" -> 6 [] pc = "wait" -> 5 [] pc = "addClass" -> 4
    [] pc = "addNumber" -> 3 [] pc = "dirClass" -> 2 [] pc = "dirNumber" -> 1 [] OTHER -> 0

Identifying == motion_mode = "CUBE_IDENTIFY" /\ motion_mode' = "CUBE_IDENTIFY"
WaitRuns == image_identify_wait_flag /\ TimeLeft > 0

LEMMA IdentifyMainStep ==
  ASSUME TypeOK, Identifying, MainStep
  PROVE  /\ TimeLeft' <= TimeLeft
         /\ ~WaitRuns => TimeLeft' < TimeLeft \/ PointsLeft' < PointsLeft
<1>1. waited \in Nat /\ waited <= IdentifyWait /\ IdentifyWait \in Nat
  BY MotionModeAssumption DEF MotionModeAssumption, TypeOK
<1> USE DEF Identifying, TimeLeft, PointsLeft, WaitRuns, identify, Goto, SwitchTo, At
<1>2. CASE ReadIdentifyState
  BY <1>1, <1>2 DEF ReadIdentifyState
<1>3. CASE StartWait
  BY <1>1, <1>3 DEF StartWait, WaitStarts
<1>4. CASE LookAtClock
  BY <1>1, <1>4 DEF LookAtClock, WaitStarts
<1>5. CASE ReadClass \/ cube_info_add
  BY <1>1, <1>5 DEF ReadClass, cube_info_add
<1> QED
  BY <1>2, <1>3, <1>4, <1>5
  DEF MainStep, FollowLine, ReadDistanceState, ReadXCenter, ReadPCount, ChoosePushDir,
      RecordLineAngle, SetTarget, CompareWithTarget, PushCube, BackOntoTrack, TurnToLine

LEMMA IdentifyInterrupt ==
  ASSUME TypeOK, Interrupt \/ Clock
  PROVE  /\ TimeLeft' <= TimeLeft /\ PointsLeft' = PointsLeft
         /\ Clock /\ WaitRuns => TimeLeft' < TimeLeft
<1>1. waited \in Nat /\ waited <= IdentifyWait /\ IdentifyWait \in Nat
  BY MotionModeAssumption DEF MotionModeAssumption, TypeOK
<1>2. pc' = pc /\ UNCHANGED image_identify_wait_flag
  BY DEF Interrupt, SeeCube, SeeFace, Turn, SeeGround, Clock, control, identify
<1>3. PointsLeft' = PointsLeft
  BY <1>2 DEF PointsLeft
<1>4. CASE Interrupt
  <2>1. UNCHANGED waited
    BY <1>4 DEF Interrupt, SeeCube, SeeFace, Turn, SeeGround, identify
  <2>2. ~Clock \/ ~WaitRuns
    BY <1>1, <2>1 DEF Clock, Later, WaitRuns, TimeLeft
  <2> QED  BY <1>1, <1>2, <1>3, <2>1, <2>2 DEF TimeLeft
<1>5. CASE Clock
  BY <1>1, <1>2, <1>3, <1>5 DEF Clock, Later, WaitRuns, TimeLeft
<1> QED  BY <1>4, <1>5

(* As long as the car stays in CUBE_IDENTIFY (motion_control_new.c:411-    *)
(* 430), whatever the camera reports: the time left never grows; while the *)
(* wait runs each tick of the clock takes from it, and before and after    *)
(* each step of the main loop brings the end nearer, which no interrupt    *)
(* puts off.  With a clock and a main loop that go on, this is             *)
(* IdentifyEnds.                                                           *)
THEOREM IdentifyIsBounded ==
  Spec => [][Identifying =>
               /\ TimeLeft' <= TimeLeft
               /\ Clock /\ WaitRuns => TimeLeft' < TimeLeft
               /\ MainStep /\ ~WaitRuns => TimeLeft' < TimeLeft \/ PointsLeft' < PointsLeft
               /\ Interrupt \/ Clock => PointsLeft' = PointsLeft]_vars
<1> DEFINE Progress ==
      Identifying =>
        /\ TimeLeft' <= TimeLeft
        /\ Clock /\ WaitRuns => TimeLeft' < TimeLeft
        /\ MainStep /\ ~WaitRuns => TimeLeft' < TimeLeft \/ PointsLeft' < PointsLeft
        /\ Interrupt \/ Clock => PointsLeft' = PointsLeft
<1>1. TypeOK /\ [Next]_vars => [Progress]_vars
  <2> SUFFICES ASSUME TypeOK, Next, Identifying PROVE Progress
    OBVIOUS
  <2>1. ASSUME MainStep
        PROVE  /\ TimeLeft' <= TimeLeft
               /\ ~WaitRuns => TimeLeft' < TimeLeft \/ PointsLeft' < PointsLeft
    BY <2>1, IdentifyMainStep
  <2>2. ASSUME Interrupt \/ Clock
        PROVE  /\ TimeLeft' <= TimeLeft /\ PointsLeft' = PointsLeft
               /\ Clock /\ WaitRuns => TimeLeft' < TimeLeft
    BY <2>2, IdentifyInterrupt
  <2> QED  BY <2>1, <2>2 DEF Next
<1> QED  BY <1>1, TypeCorrect, PTL DEF Spec

-----------------------------------------------------------------------------
(* The target.  A target that is set belongs to the approach in progress:  *)
(* CompareWithTarget, the only way out of the mode, takes the flag back.   *)

TargetInv ==
  /\ pc = "turn" => motion_mode = "CUBE_ANGLE_POSITION"
  /\ target_setted_flag => motion_mode = "CUBE_ANGLE_POSITION"
  /\ target_setted_flag \/ motion_mode = "CUBE_PUSH" => FromThisApproach(target_gyro_angle_z)
  /\ motion_mode = "CUBE_ANGLE_POSITION" /\ ~target_setted_flag =>
       /\ angle_z \in approach
       /\ pc = "turn" => line_gyro_angle_z \in approach

(* Every step preserves it. *)
LEMMA TargetStep == TypeOK /\ TargetInv /\ [Next]_vars => TargetInv'
<1> SUFFICES ASSUME TypeOK, TargetInv, [Next]_vars PROVE TargetInv'
  OBVIOUS
<1> USE DEF TypeOK, TargetInv, FromThisApproach, sensors, identify, turn, history,
            control, Goto, SwitchTo, At
<1>1. CASE ChoosePushDir
  BY <1>1 DEF ChoosePushDir
<1>2. CASE RecordLineAngle
  BY <1>2 DEF RecordLineAngle
<1>3. CASE SetTarget
  BY <1>3 DEF SetTarget
<1>4. CASE CompareWithTarget
  BY <1>4 DEF CompareWithTarget, FlagOnArrival
<1>5. CASE Turn
  BY <1>5 DEF Turn
<1>6. CASE FollowLine \/ ReadDistanceState \/ ReadXCenter \/ ReadPCount
  BY <1>6 DEF FollowLine, ReadDistanceState, ReadXCenter, ReadPCount
<1>7. CASE ReadIdentifyState \/ StartWait \/ LookAtClock \/ ReadClass \/ cube_info_add
  BY <1>7 DEF ReadIdentifyState, StartWait, LookAtClock, ReadClass, cube_info_add
<1>8. CASE PushCube \/ BackOntoTrack \/ TurnToLine
  BY <1>8 DEF PushCube, BackOntoTrack, TurnToLine
<1>9. CASE SeeCube \/ SeeFace \/ SeeGround \/ Clock
  BY <1>9 DEF SeeCube, SeeFace, SeeGround, Clock
<1>10. CASE UNCHANGED vars
  BY <1>10 DEF vars
<1> QED
  BY <1>1, <1>2, <1>3, <1>4, <1>5, <1>6, <1>7, <1>8, <1>9, <1>10 DEF Next, MainStep, Interrupt

(* The car pushes at a right angle to a heading of this approach, on this  *)
(* cube's side (motion_control_new.c:433-454).                             *)
THEOREM AlignedToOwnTargetCorrect == Spec => []AlignedToOwnTarget
<1>1. Init => TargetInv
  BY DEF Init, TargetInv
<1>2. TargetInv => AlignedToOwnTarget
  BY DEF TargetInv, AlignedToOwnTarget
<1> QED
  BY <1>1, <1>2, TargetStep, TypeCorrect, PTL DEF Spec

-----------------------------------------------------------------------------
(* The loop and the car restrict the mode machine, they add nothing to it. *)

(* A step of the closed loop is a step of the mode machine or none. *)
LEMMA LoopStepIsStep == ASSUME [LoopNext]_allVars PROVE [Next]_vars
<1>1. CASE motor_rotation_translation_pid_calc_apply
  BY <1>1 DEF motor_rotation_translation_pid_calc_apply
<1>2. CASE CarTurns
  BY <1>2 DEF CarTurns, Next, Interrupt
<1>3. CASE ClockTicks
  BY <1>3 DEF ClockTicks, Next
<1>4. CASE MainStep \/ SeeCube \/ SeeFace
  BY <1>4 DEF Next, Interrupt
<1>5. CASE DriveOff \/ DriveOn \/ GoRound
  BY <1>5 DEF DriveOff, DriveOn, GoRound, Next, Interrupt
<1>6. CASE UNCHANGED allVars
  BY <1>6 DEF allVars
<1> QED BY <1>1, <1>2, <1>3, <1>4, <1>5, <1>6 DEF LoopNext

(* motion_control_new.c:273-354 and 381-480 together: what the theorems of *)
(* MotionMode say of the mode machine holds in the closed loop.            *)
THEOREM LoopImplementsModes == LoopSpec => Spec
<1>1. LoopInit => Init
  BY DEF LoopInit
<1>2. [LoopNext]_allVars => [Next]_vars
  BY LoopStepIsStep
<1> QED BY <1>1, <1>2, PTL DEF LoopSpec, Spec

-----------------------------------------------------------------------------
(* Types of the loop and the car. *)

LEMMA SignType == ASSUME NEW n \in Int PROVE Sign(n) \in Signs
BY DEF Sign, Signs

LEMMA SignOfType == ASSUME NEW s \in Signs, NEW t \in SignOf(s) PROVE t \in Signs
BY DEF SignOf, Signs

LEMMA SteerType ==
  ASSUME LoopTypeOK, motor_rotation_translation_pid_calc_apply
  PROVE  forward' \in Signs /\ left' \in Signs /\ rotation' \in Signs
<1>1. /\ cube_info.p_count \in Signs /\ cube_info.x_center \in Signs
      /\ angle_z \in Int /\ target_gyro_angle_z \in Int /\ line_gyro_angle_z \in Int
  BY MotionModeAssumption DEF MotionModeAssumption, LoopTypeOK, TypeOK
<1>2. forward \in Signs /\ left \in Signs /\ rotation \in Signs
  BY DEF LoopTypeOK
<1>3. CASE SteerLine \/ SteerIdentify
  BY <1>3 DEF SteerLine, SteerIdentify, IdentifyOutputs, Signs
<1>4. CASE SteerDistance
  BY <1>4, <1>1, SignOfType DEF SteerDistance, Signs
<1>5. CASE SteerAngle
  <2>1. forward' \in Signs /\ left' \in Signs
    BY <1>5 DEF SteerAngle, Signs
  <2>2. target_gyro_angle_z - angle_z \in Int
    BY <1>1
  <2> QED BY <2>1, <2>2, <1>5, SignType DEF SteerAngle
<1>6. CASE SteerPush
  <2>1. forward' \in Signs /\ left' \in Signs
    BY <1>6 DEF SteerPush, Signs
  <2>2. CASE Inside
    BY <2>1, <2>2, <1>6, <1>1, SignOfType DEF SteerPush
  <2>3. CASE ~Inside
    BY <2>1, <2>3, <1>6, <1>2 DEF SteerPush
  <2> QED BY <2>2, <2>3
<1>7. CASE SteerPositionBack
  BY <1>7, <1>2 DEF SteerPositionBack, BackOutput, Signs
<1>8. CASE SteerAngleBack
  <2>1. line_gyro_angle_z - angle_z \in Int
    BY <1>1
  <2> QED BY <2>1, <1>8, <1>2, SignType DEF SteerAngleBack
<1> QED BY <1>3, <1>4, <1>5, <1>6, <1>7, <1>8 DEF motor_rotation_translation_pid_calc_apply

LEMMA LoopTypeStep == ASSUME LoopTypeOK, [LoopNext]_allVars PROVE LoopTypeOK'
<1>1. TypeOK'
  BY TypeStep, LoopStepIsStep DEF LoopTypeOK
<1>2. CASE motor_rotation_translation_pid_calc_apply
  <2>1. steered' \in BOOLEAN
    BY <1>2 DEF motor_rotation_translation_pid_calc_apply
  <2> QED BY <1>1, <1>2, <2>1, SteerType DEF LoopTypeOK
<1>3. CASE UNCHANGED outputs /\ (steered' = FALSE \/ UNCHANGED steered)
  BY <1>1, <1>3 DEF outputs, LoopTypeOK
<1>4. CASE CarTurns \/ ClockTicks
  BY <1>3, <1>4 DEF CarTurns, ClockTicks
<1>5. CASE Untouched \/ UNCHANGED allVars
  BY <1>3, <1>5 DEF Untouched, allVars
<1> QED BY <1>2, <1>4, <1>5 DEF LoopNext

(* The outputs of the three outer controllers always have a sign, whatever *)
(* a mode leaves them at.                                                  *)
THEOREM LoopTypeCorrect == LoopSpec => []LoopTypeOK
<1>1. LoopInit => LoopTypeOK
  BY InitTypeOK DEF LoopInit, LoopTypeOK, Signs
<1> QED BY <1>1, LoopTypeStep, PTL DEF LoopSpec

-----------------------------------------------------------------------------
(* The car before the cube.  A tick of the clock comes after a run of the  *)
(* loop; the run before the first tick of the wait may have been one of    *)
(* the mode before, the run before the second was not.                     *)

Still == forward = 0 /\ left = 0 /\ rotation = 0

StillInv ==
  /\ image_identify_wait_flag /\ waited >= 1 /\ steered => Still
  /\ image_identify_wait_flag /\ waited >= 2 => Still
  /\ pc \in Recording => Still

(* The mode machine keeps it when it leaves the outputs alone: the face is *)
(* read behind the full wait.                                              *)
LEMMA StillMain ==
  ASSUME IdentifyWait >= 2, LoopTypeOK, WaitInv, StillInv, MainStep, Untouched
  PROVE  StillInv'
<1> USE MotionModeAssumption
    DEF MotionModeAssumption, LoopTypeOK, TypeOK, WaitInv, StillInv, Still, Recording,
        Untouched, outputs, identify, At, Goto, SwitchTo, control
<1>1. CASE StartWait
  BY <1>1 DEF StartWait
<1>2. CASE LookAtClock
  BY <1>2 DEF LookAtClock, WaitStarts
<1>3. CASE ReadIdentifyState
  BY <1>3 DEF ReadIdentifyState, FlagOnLoss
<1>4. CASE ReadClass \/ cube_info_add \/ ChoosePushDir
  BY <1>4 DEF ReadClass, cube_info_add, ChoosePushDir
<1>5. CASE FollowLine \/ ReadDistanceState \/ ReadXCenter \/ ReadPCount
  BY <1>5 DEF FollowLine, ReadDistanceState, ReadXCenter, ReadPCount
<1>6. CASE RecordLineAngle \/ SetTarget \/ CompareWithTarget
  BY <1>6 DEF RecordLineAngle, SetTarget, CompareWithTarget
<1>7. CASE PushCube \/ BackOntoTrack \/ TurnToLine
  BY <1>7 DEF PushCube, BackOntoTrack, TurnToLine
<1> QED BY <1>1, <1>2, <1>3, <1>4, <1>5, <1>6, <1>7 DEF MainStep

LEMMA StillStep ==
  ASSUME IdentifyWait >= 2, LoopTypeOK, WaitInv, StillInv, [LoopNext]_allVars
  PROVE  StillInv'
<1>1. CASE motor_rotation_translation_pid_calc_apply
  <2>1. UNCHANGED <<motion_mode, pc, image_identify_wait_flag, waited>>
    BY <1>1 DEF motor_rotation_translation_pid_calc_apply, vars, control, identify
  <2>2. CASE motion_mode = "CUBE_IDENTIFY"
    <3>1. Still'
      BY <1>1, <2>2 DEF motor_rotation_translation_pid_calc_apply, SteerLine, SteerDistance,
           SteerIdentify, IdentifyOutputs, SteerAngle, SteerPush, SteerPositionBack,
           SteerAngleBack, Still
    <3> QED BY <3>1 DEF StillInv
  <2>3. CASE motion_mode # "CUBE_IDENTIFY"
    BY <2>1, <2>3 DEF StillInv, WaitInv
  <2> QED BY <2>2, <2>3
<1>2. CASE ClockTicks
  <2>1. /\ UNCHANGED <<pc, image_identify_wait_flag, outputs>> /\ steered /\ ~steered'
        /\ waited' = IF image_identify_wait_flag THEN Later(waited) ELSE waited
    BY <1>2 DEF ClockTicks, Clock, control
  <2>2. waited \in Nat /\ (waited' >= 2 /\ image_identify_wait_flag => waited >= 1)
    BY <2>1, MotionModeAssumption DEF Later, LoopTypeOK, TypeOK, MotionModeAssumption
  <2> QED BY <2>1, <2>2 DEF StillInv, Still, outputs
<1>3. CASE CarTurns
  BY <1>3 DEF CarTurns, Turn, control, identify, StillInv, Still, outputs
<1>4. CASE MainStep /\ Untouched
  BY <1>4, StillMain
<1>5. CASE (SeeCube \/ SeeFace \/ DriveOff \/ DriveOn \/ GoRound) /\ Untouched
  BY <1>5 DEF SeeCube, SeeFace, DriveOff, DriveOn, GoRound, SeeGround, control, identify,
              Untouched, outputs, StillInv, Still
<1>6. CASE UNCHANGED allVars
  BY <1>6 DEF allVars, vars, control, identify, outputs, StillInv, Still
<1> QED BY <1>1, <1>2, <1>3, <1>4, <1>5, <1>6 DEF LoopNext

(* motion_control_new.c:305-310 against 418-430: for every wait of at      *)
(* least two ticks, the face is read by a car that stands still, although  *)
(* the mode changes between any two runs of the loop.                      *)
THEOREM StandsStillToIdentifyCorrect ==
  ASSUME IdentifyWait >= 2 PROVE LoopSpec => []StandsStillToIdentify
<1> DEFINE IInv == LoopTypeOK /\ WaitInv /\ StillInv
<1>1. LoopInit => IInv
  BY InitTypeOK DEF LoopInit, Init, LoopTypeOK, Signs, WaitInv, StillInv, Recording
<1>2. IInv /\ [LoopNext]_allVars => IInv'
  <2> SUFFICES ASSUME IInv, [LoopNext]_allVars PROVE IInv'
    OBVIOUS
  <2>1. LoopTypeOK'
    BY LoopTypeStep
  <2>2. WaitInv'
    BY LoopStepIsStep, WaitStep DEF LoopTypeOK
  <2>3. StillInv'
    BY StillStep
  <2> QED BY <2>1, <2>2, <2>3
<1>3. IInv => StandsStillToIdentify
  BY DEF StillInv, Still, Recording, StandsStillToIdentify
<1> QED BY <1>1, <1>2, <1>3, PTL DEF LoopSpec
=============================================================================
