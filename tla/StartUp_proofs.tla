---------------------------- MODULE StartUp_proofs ----------------------------
(***************************************************************************)
(* Proofs about StartUp, for every time-out, buffer size, delay, number of *)
(* samples, and whatever is lost, missed or reset.                         *)
(***************************************************************************)
EXTENDS StartUp, TLAPS

(* MCX_Vision.c:44 makes time_out half of now, rounded up: before the      *)
(* subtraction it is the half of the round before.                         *)
ClockInv ==
  /\ car = "send" => time_out <= TimeOut /\ 2 * time_out <= now /\ now <= 2 * time_out + 1
  /\ car = "delay" => time_out <= TimeOut
  /\ car \in {"delay", "failed"} => now <= 2 * time_out /\ 2 * time_out <= now + 1
  /\ car = "failed" => time_out = TimeOut + 1
  /\ stage \in {"settle", "offset"} => car = "send"

(* As long as the car was not reset: a round ends when what it sent has    *)
(* been seen to, so that the board answers in the round of its first byte. *)
RoundInv ==
  resets = 0 =>
    /\ car \in {"send", "failed"} => ~toBoard
    /\ board = "waiting" /\ (toBoard \/ car # "delay") => index = 0
    /\ board = "waiting" /\ index # 0 => wakeLast
    /\ toCar => car = "delay"
    /\ car = "ready" => board = "running"
    /\ board = "running" /\ ~lostAnswer => toCar \/ car = "ready"

(* A round that a waiting board lets pass costs a byte, but for the round  *)
(* in which the board came up.                                             *)
LateInv ==
  /\ board = "off" => bootTime = Never
  /\ board = "waiting" /\ resets = 0 =>
       /\ now <= bootTime + lost + 1
       /\ car = "delay" /\ ~toBoard /\ index = 0 => now <= bootTime + lost

(* What is read by the car was sent by a board that works. *)
AnswerInv == (toCar => board = "running") /\ ReadyMeansRunning

(* Each period of the delay gives a sample or is one of the missed ones.   *)
OffsetInv ==
  /\ ~gyroscope_offset_test_finish =>
       /\ summed = gyroscope_offset_test_count
       /\ summed + missed = elapsed
  /\ gyroscope_offset_test_finish => summed = OffsetSamples
  /\ stage = "settle" => elapsed = 0
  /\ stage \in {"handshake", "main"} => gyroscope_offset_test_finish

FlagsOK ==
  /\ wakeLast \in BOOLEAN /\ toBoard \in BOOLEAN /\ toCar \in BOOLEAN
  /\ lostAnswer \in BOOLEAN /\ gyroscope_offset_test_finish \in BOOLEAN

CountersOK ==
  /\ car \in {"send", "delay", "ready", "failed"}
  /\ board \in {"off", "waiting", "running"}
  /\ now \in 0..Never /\ time_out \in 0..TimeOut + 1 /\ bootTime \in 0..Never
  /\ index \in 0..ReadBufferSize /\ lost \in 0..MaxLost /\ resets \in 0..MaxResets

DelayOK ==
  /\ stage \in {"settle", "offset", "handshake", "main"}
  /\ elapsed \in 0..OffsetWait /\ missed \in 0..MaxMissed
  /\ gyroscope_offset_test_count \in 0..OffsetSamples - 1 /\ summed \in 0..OffsetSamples

IInv == FlagsOK /\ CountersOK /\ DelayOK /\ ClockInv /\ RoundInv /\ LateInv /\ AnswerInv /\ OffsetInv

USE HandshakeAssumption, StartUpAssumption
DEF HandshakeAssumption, StartUpAssumption, Never, Waiting, carVars, boardVars, wires, delay, gyroscope

LEMMA InitInv == BootInit => IInv
<1> SUFFICES ASSUME BootInit PROVE IInv
  OBVIOUS
<1> USE DEF BootInit, Init
<1>0. FlagsOK
  BY DEF FlagsOK
<1>1. CountersOK /\ DelayOK
  BY DEF CountersOK, DelayOK
<1>2. ClockInv
  BY DEF ClockInv
<1>3. RoundInv
  BY DEF RoundInv
<1>4. LateInv /\ AnswerInv
  BY DEF LateInv, AnswerInv, ReadyMeansRunning
<1>5. OffsetInv
  BY DEF OffsetInv
<1> QED
  BY <1>0, <1>1, <1>2, <1>3, <1>4, <1>5 DEF IInv

HandInv == CountersOK /\ ClockInv /\ RoundInv /\ LateInv /\ AnswerInv

(* What the car does in mcx_init_wait keeps the handshake's parts. *)
LEMMA CarStep ==
  ASSUME IInv, stage = "handshake", CarGiveUp \/ CarSend \/ CarQuery, stage' = stage
  PROVE  HandInv'
<1> USE DEF IInv, CountersOK
<1>0. car = "send" => NextTimeOut \in Nat /\ NextTimeOut <= TimeOut + 1
  BY DEF ClockInv, NextTimeOut
<1>1. CASE CarGiveUp
  <2>1. (CountersOK /\ ClockInv)'
    BY <1>0, <1>1 DEF CarGiveUp, ClockInv, NextTimeOut
  <2>2. (RoundInv /\ LateInv /\ AnswerInv)'
    BY <1>1 DEF CarGiveUp, RoundInv, LateInv, AnswerInv, ReadyMeansRunning
  <2> QED BY <2>1, <2>2 DEF HandInv
<1>2. CASE CarSend
  <2>1. (CountersOK /\ ClockInv)'
    BY <1>0, <1>2 DEF CarSend, ClockInv, NextTimeOut
  <2>2. (RoundInv /\ LateInv /\ AnswerInv)'
    BY <1>2 DEF CarSend, RoundInv, LateInv, AnswerInv, ReadyMeansRunning
  <2> QED BY <2>1, <2>2 DEF HandInv
<1>3. CASE CarQuery
  <2>1. (CountersOK /\ ClockInv)'
    BY <1>3 DEF CarQuery, ClockInv, WakeByteRead
  <2>2. (RoundInv /\ AnswerInv)'
    BY <1>3 DEF CarQuery, WakeByteRead, DelayOver, RoundInv, AnswerInv, ReadyMeansRunning
  <2>3. LateInv'
    BY <1>3 DEF CarQuery, WakeByteRead, DelayOver, RoundInv, LateInv, AnswerInv
  <2> QED BY <2>1, <2>2, <2>3 DEF HandInv
<1> QED BY <1>1, <1>2, <1>3

(* The board and the wires keep them at any stage. *)
LEMMA OutsideStep ==
  ASSUME IInv, BoardBoot \/ BoardReceive \/ BoardAnswer \/ LoseByte, stage' = stage
  PROVE  HandInv'
<1> USE DEF IInv, HandInv
<1>1. CASE BoardBoot
  <2>1. (CountersOK /\ ClockInv)'
    BY <1>1 DEF BoardBoot, CountersOK, ClockInv
  <2>2. (RoundInv /\ LateInv /\ AnswerInv)'
    BY <1>1 DEF BoardBoot, CountersOK, RoundInv, LateInv, AnswerInv, ReadyMeansRunning
  <2> QED BY <2>1, <2>2
<1>2. CASE BoardReceive
  <2>1. (CountersOK /\ ClockInv)'
    BY <1>2 DEF BoardReceive, Fits, CountersOK, ClockInv
  <2>2. (RoundInv /\ LateInv /\ AnswerInv)'
    BY <1>2 DEF BoardReceive, Fits, CountersOK, RoundInv, LateInv, AnswerInv, ReadyMeansRunning
  <2> QED BY <2>1, <2>2
<1>3. CASE BoardAnswer
  <2>1. (CountersOK /\ ClockInv)'
    BY <1>3 DEF BoardAnswer, CountersOK, ClockInv
  <2>2. (RoundInv /\ LateInv /\ AnswerInv)'
    BY <1>3 DEF BoardAnswer, CountersOK, RoundInv, LateInv, AnswerInv, ReadyMeansRunning
  <2> QED BY <2>1, <2>2
<1>4. CASE LoseByte
  <2>1. (CountersOK /\ ClockInv)'
    BY <1>4 DEF LoseByte, CountersOK, ClockInv
  <2>2. (RoundInv /\ LateInv /\ AnswerInv)'
    BY <1>4 DEF LoseByte, CountersOK, RoundInv, LateInv, AnswerInv, ReadyMeansRunning
  <2> QED BY <2>1, <2>2
<1> QED BY <1>1, <1>2, <1>3, <1>4

(* A period with its interrupt keeps the count of the samples. *)
LEMMA SampleStep ==
  ASSUME IInv, gyroscope_pit_callback
  PROVE  /\ gyroscope_offset_test_count' \in 0..OffsetSamples - 1
         /\ summed' \in 0..OffsetSamples
         /\ ~gyroscope_offset_test_finish => summed' = summed + 1
         /\ ~gyroscope_offset_test_finish' =>
              ~gyroscope_offset_test_finish /\ summed' = gyroscope_offset_test_count'
         /\ gyroscope_offset_test_finish' => summed' = OffsetSamples
         /\ gyroscope_offset_test_finish => gyroscope_offset_test_finish'
<1>1. CASE OffsetSample
  <2>1. gyroscope_offset_test_count \in Nat /\ summed = gyroscope_offset_test_count
        /\ gyroscope_offset_test_count < OffsetSamples
    BY <1>1 DEF IInv, DelayOK, OffsetInv, OffsetSample
  <2>2. CASE gyroscope_offset_test_count + 1 = OffsetSamples
    <3>1. gyroscope_offset_test_finish'
      BY <1>1, <2>2 DEF OffsetSample
    <3> QED BY <1>1, <2>1, <2>2, <3>1 DEF OffsetSample
  <2>3. CASE gyroscope_offset_test_count + 1 # OffsetSamples
    <3>1. ~gyroscope_offset_test_finish' /\ ~gyroscope_offset_test_finish
      BY <1>1, <2>3 DEF OffsetSample
    <3> QED BY <1>1, <2>1, <2>3, <3>1 DEF OffsetSample
  <2> QED BY <2>2, <2>3
<1>2. CASE HeadingSample
  BY <1>2 DEF IInv, DelayOK, OffsetInv, HeadingSample
<1> QED BY <1>1, <1>2 DEF gyroscope_pit_callback

(* Every variable that is a flag stays one. *)
LEMMA FlagsStep == ASSUME FlagsOK, BootNext PROVE FlagsOK'
<1> USE DEF FlagsOK
<1>1. CASE Settle \/ EnterMain
  BY <1>1 DEF Settle, EnterMain, vars
<1>2. CASE Period \/ GyroTick
  BY <1>2 DEF Period, GyroTick, gyroscope_pit_callback, OffsetSample, HeadingSample, vars
<1>3. CASE StartLoops
  BY <1>3 DEF StartLoops
<1>4. CASE Handshake
  BY <1>4 DEF Handshake, CarGiveUp, CarSend, CarQuery
<1>5. CASE Reset
  BY <1>5 DEF Reset, CarReset
<1>6. CASE Outside
  BY <1>6 DEF Outside, BoardBoot, BoardReceive, BoardAnswer, LoseByte
<1> QED BY <1>1, <1>2, <1>3, <1>4, <1>5, <1>6 DEF BootNext

LEMMA BootStep == IInv /\ [BootNext]_bootVars => IInv'
<1> SUFFICES ASSUME IInv, [BootNext]_bootVars PROVE IInv'
  OBVIOUS
<1>0. FlagsOK'
  BY FlagsStep DEF IInv, bootVars, vars, FlagsOK
<1>1. ASSUME UNCHANGED vars, stage' \in {"settle", "offset"} => stage \in {"settle", "offset"}
      PROVE  HandInv'
  BY <1>1 DEF vars, IInv, HandInv, CountersOK, ClockInv, RoundInv, LateInv, AnswerInv, ReadyMeansRunning
<1>2. CASE Settle
  BY <1>0, <1>1, <1>2 DEF Settle, IInv, HandInv, DelayOK, OffsetInv
<1>3. CASE EnterMain
  BY <1>0, <1>1, <1>3 DEF EnterMain, IInv, HandInv, DelayOK, OffsetInv
<1>4. CASE Period
  <2>1. HandInv'
    BY <1>1, <1>4 DEF Period
  <2>2. (DelayOK /\ OffsetInv)'
    <3>1. CASE gyroscope_pit_callback /\ UNCHANGED missed
      BY <1>4, <3>1, SampleStep DEF Period, WaitOver, IInv, DelayOK, OffsetInv
    <3>2. CASE missed < MaxMissed /\ missed' = missed + 1 /\ UNCHANGED gyroscope
      BY <1>4, <3>2 DEF Period, WaitOver, IInv, DelayOK, OffsetInv
    <3> QED BY <1>4, <3>1, <3>2 DEF Period
  <2> QED BY <1>0, <2>1, <2>2 DEF IInv, HandInv
<1>5. CASE StartLoops
  <2>1. HandInv'
    BY <1>5 DEF StartLoops, IInv, HandInv, CountersOK, ClockInv, RoundInv, LateInv,
                AnswerInv, ReadyMeansRunning
  <2>2. gyroscope_offset_test_finish
    BY <1>5 DEF StartLoops, WaitOver, IInv, DelayOK, OffsetInv
  <2>3. (DelayOK /\ OffsetInv)'
    BY <1>5, <2>2 DEF StartLoops, IInv, DelayOK, OffsetInv
  <2> QED BY <1>0, <2>1, <2>3 DEF IInv, HandInv
<1>6. CASE GyroTick
  <2>1. HandInv'
    BY <1>1, <1>6 DEF GyroTick
  <2>2. (DelayOK /\ OffsetInv)'
    BY <1>6, SampleStep DEF GyroTick, IInv, DelayOK, OffsetInv
  <2> QED BY <1>0, <2>1, <2>2 DEF IInv, HandInv
<1>7. CASE Handshake
  BY <1>0, <1>7, CarStep DEF Handshake, IInv, HandInv, DelayOK, OffsetInv
<1>8. CASE Reset
  <2>1. HandInv'
    BY <1>8 DEF Reset, CarReset, IInv, HandInv, CountersOK, ClockInv, RoundInv, LateInv,
                AnswerInv, ReadyMeansRunning
  <2>2. (DelayOK /\ OffsetInv)'
    BY <1>8 DEF Reset, IInv, DelayOK, OffsetInv
  <2> QED BY <1>0, <2>1, <2>2 DEF IInv, HandInv
<1>9. CASE Outside
  BY <1>0, <1>9, OutsideStep DEF Outside, IInv, HandInv, DelayOK, OffsetInv
<1>10. CASE UNCHANGED bootVars
  <2>1. HandInv'
    BY <1>1, <1>10 DEF bootVars, IInv, DelayOK
  <2> QED BY <1>0, <1>10, <2>1 DEF bootVars, IInv, HandInv, DelayOK, OffsetInv
<1> QED
  BY <1>2, <1>3, <1>4, <1>5, <1>6, <1>7, <1>8, <1>9, <1>10 DEF BootNext

LEMMA BootInvariant == BootSpec => []IInv
BY InitInv, BootStep, PTL DEF BootSpec

(* The start and the handshake keep their types: the clock of the wait     *)
(* never reaches its bound, the board's index stays in its buffer.         *)
THEOREM TypeCorrect == BootSpec => []StartUpTypeOK
<1>1. IInv => StartUpTypeOK
  BY DEF IInv, FlagsOK, CountersOK, DelayOK, StartUpTypeOK, TypeOK
<1> QED BY <1>1, BootInvariant, PTL

(* Without a reset, the car gives up only on a board that came up too late *)
(* for it or whose answer was lost (MCX_Vision.c:44-48), although the      *)
(* time-out subtracts a moving value.                                      *)
THEOREM GivesUpOnLateBoardCorrect == BootSpec => []GivesUpOnLateBoard
<1>1. IInv => GivesUpOnLateBoard
  BY DEF IInv, CountersOK, ClockInv, RoundInv, LateInv, GivesUpOnLateBoard
<1> QED BY <1>1, BootInvariant, PTL

(* The answer of the board comes from a running board, and a board that    *)
(* answered has a car that is ready or an answer on its way: whatever the  *)
(* time-out, both sides agree on how the handshake ended.                  *)
THEOREM BothAgreeCorrect == BootSpec => []BothAgree
<1>1. IInv => BothAgree
  BY DEF IInv, AnswerInv, RoundInv, NoHalfOpen, BothAgree
<1> QED BY <1>1, BootInvariant, PTL

(* The control loops start with the offset of a car at rest (main.c:34-42, *)
(* gyroscope.c:30-45), whichever interrupts are missed, if the delay is    *)
(* long enough for the samples and the missed ones.                        *)
THEOREM LoopsHaveOffsetCorrect == BootSpec => []LoopsHaveOffset
<1>1. IInv => LoopsHaveOffset
  BY DEF IInv, OffsetInv, LoopsHaveOffset
<1> QED BY <1>1, BootInvariant, PTL

-----------------------------------------------------------------------------
(* How long a start may take. *)

(* The rounds of the wait: as time_out is half of now, it passes TimeOut   *)
(* when now has passed twice TimeOut.                                      *)
RoundsInv == now <= 2 * TimeOut + 1 /\ (car = "failed" => now = 2 * TimeOut + 1)

LEMMA RoundsStep == IInv /\ RoundsInv /\ [BootNext]_bootVars => RoundsInv'
<1> SUFFICES ASSUME IInv, RoundsInv, [BootNext]_bootVars PROVE RoundsInv'
  OBVIOUS
<1> USE DEF RoundsInv
<1>1. CASE Handshake
  <2>1. now \in Nat /\ time_out \in Nat
    BY DEF IInv, CountersOK
  <2>2. CASE CarGiveUp
    BY <2>1, <2>2 DEF CarGiveUp, NextTimeOut, IInv, ClockInv
  <2>3. CASE CarSend
    BY <2>3 DEF CarSend
  <2>4. CASE CarQuery
    BY <2>1, <2>4 DEF CarQuery, IInv, ClockInv
  <2> QED BY <1>1, <2>2, <2>3, <2>4 DEF Handshake
<1>2. CASE Reset
  BY <1>2 DEF Reset, CarReset
<1>3. CASE Settle \/ Period \/ StartLoops \/ EnterMain \/ GyroTick \/ UNCHANGED bootVars
  BY <1>3 DEF Settle, Period, StartLoops, EnterMain, GyroTick, bootVars, vars
<1>4. CASE Outside
  BY <1>4 DEF Outside, BoardBoot, BoardReceive, BoardAnswer, LoseByte
<1> QED BY <1>1, <1>2, <1>3, <1>4 DEF BootNext

(* The time-out of mcx_init_wait (MCX_Vision.c:44) is twice what it says,  *)
(* for every value: the car gives up after exactly 2 * TimeOut + 1 rounds, *)
(* never sooner, and never waits longer.                                   *)
THEOREM TimeOutIsTwiceCorrect ==
  BootSpec => [](now <= 2 * TimeOut + 1 /\ (car = "failed" => now = 2 * TimeOut + 1))
<1>1. BootInit => RoundsInv
  BY DEF BootInit, Init, RoundsInv
<1> QED BY <1>1, RoundsStep, BootInvariant, PTL DEF BootSpec, RoundsInv

(* What main has before it: the periods of its delay, two steps for each   *)
(* round of the handshake, and its four stages.                            *)
RoundStepsLeft ==
  CASE car = "send" -> 2 * (2 * TimeOut + 1 - now) + 2
    [] car = "delay" -> 2 * (2 * TimeOut + 1 - now) + 1
    [] OTHER -> 0

StepsLeft ==
  CASE stage = "settle" -> OffsetWait + 4 * TimeOut + 7
    [] stage = "offset" -> (OffsetWait - elapsed) + 4 * TimeOut + 6
    [] stage = "handshake" -> RoundStepsLeft + 1
    [] OTHER -> 0

MainGoesOn == Settle \/ Period \/ StartLoops \/ Handshake \/ EnterMain

LEMMA RoundStepsType ==
  IInv /\ RoundsInv => RoundStepsLeft \in 0..4 * TimeOut + 4
BY DEF IInv, CountersOK, RoundsInv, RoundStepsLeft

LEMMA StepsType ==
  IInv /\ RoundsInv => StepsLeft \in 0..OffsetWait + 4 * TimeOut + 7
BY RoundStepsType DEF IInv, DelayOK, StepsLeft

LEMMA MainStepsDown ==
  ASSUME IInv, RoundsInv, MainGoesOn
  PROVE  StepsLeft' < StepsLeft
<1>1. elapsed \in Nat /\ now \in Nat /\ time_out \in Nat /\ elapsed <= OffsetWait
  BY DEF IInv, DelayOK, CountersOK
<1>2. RoundStepsLeft \in 0..4 * TimeOut + 4
  BY RoundStepsType
<1>3. CASE Settle
  BY <1>1, <1>3 DEF Settle, StepsLeft
<1>4. CASE Period
  BY <1>1, <1>4 DEF Period, StepsLeft
<1>5. CASE StartLoops
  <2>1. RoundStepsLeft' = RoundStepsLeft
    BY <1>5 DEF StartLoops, RoundStepsLeft
  <2> QED BY <1>1, <1>2, <1>5, <2>1 DEF StartLoops, WaitOver, StepsLeft
<1>6. CASE Handshake
  <2>1. RoundStepsLeft' < RoundStepsLeft
    <3> USE DEF RoundStepsLeft, RoundsInv
    <3>1. CASE CarGiveUp
      BY <1>1, <3>1 DEF CarGiveUp
    <3>2. CASE CarSend
      BY <1>1, <3>2 DEF CarSend
    <3>3. CASE CarQuery
      BY <1>1, <3>3 DEF CarQuery
    <3> QED BY <1>6, <3>1, <3>2, <3>3 DEF Handshake
  <2>2. RoundStepsLeft' \in Nat
    <3>1. IInv' /\ RoundsInv'
      BY <1>6, RoundsStep, BootStep DEF BootNext
    <3> QED BY <3>1 DEF IInv, CountersOK, RoundsInv, RoundStepsLeft
  <2> QED BY <1>2, <1>6, <2>1, <2>2 DEF Handshake, StepsLeft
<1>7. CASE EnterMain
  BY <1>2, <1>7 DEF EnterMain, StepsLeft
<1> QED BY <1>3, <1>4, <1>5, <1>6, <1>7 DEF MainGoesOn

LEMMA OthersKeepSteps == GyroTick \/ Outside => StepsLeft' = StepsLeft
BY DEF GyroTick, Outside, BoardBoot, BoardReceive, BoardAnswer, LoseByte, vars,
       StepsLeft, RoundStepsLeft

(* From any reset on, main enters its loop (main.c:63) after a number of   *)
(* steps that the delay and the time-out bound; neither the board nor the  *)
(* wires nor the gyroscope can put that off.  With a main that goes on,    *)
(* this is BootEnds.                                                       *)
THEOREM StartIsBounded ==
  BootSpec => /\ [](StepsLeft \in 0..OffsetWait + 4 * TimeOut + 7)
              /\ [][/\ MainGoesOn => StepsLeft' < StepsLeft
                    /\ GyroTick \/ Outside => StepsLeft' = StepsLeft]_bootVars
<1>1. BootSpec => []RoundsInv
  BY TimeOutIsTwiceCorrect, PTL DEF RoundsInv
<1>2. IInv /\ RoundsInv /\ [BootNext]_bootVars
        => [/\ MainGoesOn => StepsLeft' < StepsLeft
            /\ GyroTick \/ Outside => StepsLeft' = StepsLeft]_bootVars
  BY MainStepsDown, OthersKeepSteps
<1> QED BY <1>1, <1>2, StepsType, BootInvariant, PTL DEF BootSpec
=============================================================================
