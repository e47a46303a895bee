------------------------------- MODULE StartUp -------------------------------
(***************************************************************************)
(* The start of the car (main.c:24-63), around the handshake with the cube *)
(* detector: main starts the gyroscope's interrupt, waits two seconds in   *)
(* which that interrupt is to measure its offset (gyroscope.c:30-45),      *)
(* starts the interrupts of the control loops, wakes the detector and      *)
(* enters its loop.  Nothing but the length of the wait ties the offset to *)
(* what follows; a reset of the car starts all of it again.                *)
(***************************************************************************)
EXTENDS McxHandshake

CONSTANTS
  OffsetWait,           \* the delay of main.c:35, in periods of PIT_CH0
  OffsetSamples,        \* samples of the offset, 1000 in gyroscope.c
  MaxMissed             \* bound: interrupts of PIT_CH0 that are missed in it

(* The delay is 2000 periods, the offset takes 1000 of them.               *)
ASSUME StartUpAssumption ==
  /\ OffsetWait \in Nat /\ OffsetSamples \in Nat \ {0} /\ MaxMissed \in Nat
  /\ OffsetSamples + MaxMissed <= OffsetWait

VARIABLES
  stage,                \* "settle" (to main.c:33), "offset" (34, 35),
                        \* "handshake" (36-44) or "main" (45-)
  elapsed, missed,      \* of the delay, and interrupts missed in it
  gyroscope_offset_test_count, gyroscope_offset_test_finish,
  summed                \* history: samples in gyro_z_offset

delay == <<elapsed, missed>>
gyroscope == <<gyroscope_offset_test_count, gyroscope_offset_test_finish, summed>>
bootVars == <<vars, stage, delay, gyroscope>>

BootInit ==
  /\ Init
  /\ stage = "settle" /\ elapsed = 0 /\ missed = 0
  /\ gyroscope_offset_test_count = 0 /\ gyroscope_offset_test_finish = FALSE
  /\ summed = 0

-----------------------------------------------------------------------------
(* The gyroscope. *)

(* A sample of the offset, or with the last one the offset itself. *)
OffsetSample ==
  LET count == gyroscope_offset_test_count + 1
  IN  /\ ~gyroscope_offset_test_finish
      /\ summed' = summed + 1
      /\ gyroscope_offset_test_count' = IF count = OffsetSamples THEN 0 ELSE count
      /\ gyroscope_offset_test_finish' = (count = OffsetSamples)

(* With the offset known, a sample turns the heading (MotionMode's Turn). *)
HeadingSample == gyroscope_offset_test_finish /\ UNCHANGED gyroscope

gyroscope_pit_callback == OffsetSample \/ HeadingSample

-----------------------------------------------------------------------------
(* main. *)

WaitHalf == 2 * elapsed >= OffsetWait     \* a mutant
WaitOver == elapsed = OffsetWait

Settle ==
  /\ stage = "settle"
  /\ stage' = "offset"
  /\ UNCHANGED <<vars, delay, gyroscope>>

(* A period of the delay, with its interrupt or without. *)
Period ==
  /\ stage = "offset" /\ ~WaitOver
  /\ elapsed' = elapsed + 1
  /\ \/ gyroscope_pit_callback /\ UNCHANGED missed
     \/ missed < MaxMissed /\ missed' = missed + 1 /\ UNCHANGED gyroscope
  /\ UNCHANGED <<vars, stage>>

(* The serial port is initialised here: a byte that came before is gone,   *)
(* and what was on the way to the board has arrived.                       *)
StartLoops ==
  /\ stage = "offset" /\ WaitOver /\ ~toBoard
  /\ stage' = "handshake"
  /\ toCar' = FALSE
  /\ UNCHANGED <<carVars, boardVars, toBoard, lost, lostAnswer, resets, delay, gyroscope>>

EnterMain ==
  /\ stage = "handshake" /\ ~Waiting
  /\ stage' = "main"
  /\ UNCHANGED <<vars, delay, gyroscope>>

GyroTick ==
  /\ stage \in {"handshake", "main"}
  /\ gyroscope_pit_callback
  /\ UNCHANGED <<vars, stage, delay>>

Handshake ==
  /\ stage = "handshake"
  /\ CarGiveUp \/ CarSend \/ CarQuery
  /\ UNCHANGED <<stage, delay, gyroscope>>

Reset ==
  /\ CarReset
  /\ stage' = "settle" /\ elapsed' = 0 /\ missed' = 0
  /\ gyroscope_offset_test_count' = 0 /\ gyroscope_offset_test_finish' = FALSE
  /\ summed' = 0

(* The board and the wires do not know of the car's stages. *)
Outside ==
  /\ BoardBoot \/ BoardReceive \/ BoardAnswer \/ LoseByte
  /\ UNCHANGED <<stage, delay, gyroscope>>

BootNext ==
  \/ Settle \/ Period \/ StartLoops \/ EnterMain \/ GyroTick
  \/ Handshake \/ Reset \/ Outside

BootSpec == BootInit /\ [][BootNext]_bootVars

(* Main and the board's program run; what was sent arrives. *)
BootFairSpec ==
  /\ BootSpec
  /\ WF_bootVars(Settle) /\ WF_bootVars(Period)
  /\ WF_bootVars(StartLoops) /\ WF_bootVars(EnterMain) /\ WF_bootVars(Handshake)
  /\ WF_bootVars(BoardReceive /\ UNCHANGED <<stage, delay, gyroscope>>)
  /\ WF_bootVars(BoardAnswer /\ UNCHANGED <<stage, delay, gyroscope>>)

-----------------------------------------------------------------------------
(* Properties. *)

(* Types of the start, the handshake's among them. *)
StartUpTypeOK ==
  /\ TypeOK
  /\ stage \in {"settle", "offset", "handshake", "main"}
  /\ elapsed \in 0..OffsetWait /\ missed \in 0..MaxMissed
  /\ gyroscope_offset_test_count \in 0..OffsetSamples - 1
  /\ gyroscope_offset_test_finish \in BOOLEAN
  /\ summed \in 0..OffsetSamples

(* When the control loops run (main.c:42 and later, the handshake among    *)
(* it), the offset is finished and the mean of all its samples, all of     *)
(* them taken before: the heading starts from a car that stood still, also *)
(* after a reset and with interrupts missed.                               *)
LoopsHaveOffset ==
  stage \in {"handshake", "main"} =>
    gyroscope_offset_test_finish /\ summed = OffsetSamples

(* The car always enters its main loop, with the detector or without, and  *)
(* after each reset again.                                                 *)
BootEnds == stage # "main" ~> stage = "main"
=============================================================================
