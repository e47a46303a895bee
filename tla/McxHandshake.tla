---------------------------- MODULE McxHandshake ----------------------------
(***************************************************************************)
(* Waking the cube detector.  The car (mcx_init_wait, MCX_Vision.c:33-67)  *)
(* sends a wake byte every 10 ms until it reads one back or gives up; the  *)
(* board (rt1064_uart_init_wait, MCXVision rt1064_uart.c:34-48) waits for  *)
(* a wake byte without a limit, answers it once and starts to work.        *)
(* Time is counted in rounds of the car's loop, 10 ms each: a byte takes   *)
(* about 1 ms at 9600 baud and the board polls without pause, so bytes and *)
(* answers arrive within the round.  StartUp puts these steps into the     *)
(* start of the car.                                                       *)
(***************************************************************************)
EXTENDS Naturals

CONSTANTS
  TimeOut,        \* MCX_UART_INIT_TIME_OUT_MS in rounds
  ReadBufferSize, \* RT1064_UART_READ_BUFFER_SIZE of the board
  MaxLost,        \* bound: bytes lost on the wire
  MaxResets       \* bound: resets of the car alone

ASSUME HandshakeAssumption ==
  /\ TimeOut \in Nat \ {0} /\ ReadBufferSize \in Nat \ {0}
  /\ MaxLost \in Nat /\ MaxResets \in Nat

Never == 2 * TimeOut + 3      \* bound of now, later than the car ever waits

VARIABLES
  car,            \* "send", "delay" (both in mcx_init_wait), "ready", "failed"
  now,            \* GPT_TIM_1 since timer_start
  time_out,       \* the variable of that name
  board,          \* "off", "waiting" (rt1064_uart_init_wait), "running"
  index, wakeLast,\* board: read_buffer_index; is the byte before it the wake byte
  toBoard, toCar, \* wake bytes on the wires
  lost, lostAnswer, \* history: bytes lost, answers among them
  bootTime,       \* history: when the board began to wait
  resets

carVars == <<car, now, time_out>>
boardVars == <<board, index, wakeLast, bootTime>>
wires == <<toBoard, toCar, lost, lostAnswer>>
vars == <<carVars, boardVars, wires, resets>>

Waiting == car \in {"send", "delay"}

Init ==
  /\ car = "send" /\ now = 0 /\ time_out = 0
  /\ board = "off" /\ index = 0 /\ wakeLast = FALSE /\ bootTime = Never
  /\ toBoard = FALSE /\ toCar = FALSE
  /\ lost = 0 /\ lostAnswer = FALSE /\ resets = 0

-----------------------------------------------------------------------------
(* The car. *)

TimeOutSum == time_out + now          \* mutants of the line below
TimeOutRestarted == 0
(* MCX_Vision.c:44 subtracts the previous difference, not the start time. *)
NextTimeOut == now - time_out

(* Top of the loop: give up, or send the wake byte and begin the delay. *)
CarGiveUp ==
  /\ car = "send"
  /\ NextTimeOut > TimeOut
  /\ car' = "failed" /\ time_out' = NextTimeOut
  /\ UNCHANGED <<now, boardVars, wires, resets>>

CarSend ==
  /\ car = "send"
  /\ NextTimeOut <= TimeOut
  /\ car' = "delay" /\ time_out' = NextTimeOut
  /\ toBoard' = TRUE
  /\ UNCHANGED <<now, boardVars, toCar, lost, lostAnswer, resets>>

(* The 10 ms are over when the byte has arrived and the board, if it       *)
(* waits, has had the time to answer.                                      *)
DelayOver == ~toBoard /\ ~(board = "waiting" /\ index # 0 /\ wakeLast)

AnyByteWakes == TRUE
WakeByteRead == toCar

(* End of the delay: query the receive register. *)
CarQuery ==
  /\ car = "delay" /\ now < Never
  /\ DelayOver
  /\ now' = now + 1
  /\ car' = IF WakeByteRead THEN "ready" ELSE "send"
  /\ toCar' = FALSE
  /\ UNCHANGED <<time_out, boardVars, toBoard, lost, lostAnswer, resets>>

(* The car alone is switched off and on. *)
CarReset ==
  /\ resets < MaxResets
  /\ resets' = resets + 1
  /\ car' = "send" /\ now' = 0 /\ time_out' = 0
  /\ toCar' = FALSE
  /\ UNCHANGED <<boardVars, toBoard, lost, lostAnswer>>

-----------------------------------------------------------------------------
(* The board. *)

BoardBoot ==
  /\ board = "off"
  /\ board' = "waiting"
  /\ index' = 0 /\ wakeLast' = FALSE
  /\ bootTime' = IF Waiting THEN now ELSE Never
  /\ UNCHANGED <<carVars, wires, resets>>

Fits(i) == i < ReadBufferSize

(* rt1064_uart_receive_callback: a full buffer drops the byte and starts   *)
(* over; an unpowered board hears nothing.                                 *)
BoardReceive ==
  /\ toBoard
  /\ toBoard' = FALSE
  /\ IF board = "off" THEN UNCHANGED <<index, wakeLast>>
     ELSE IF Fits(index)
     THEN index' = index + 1 /\ wakeLast' = TRUE
     ELSE index' = 0 /\ UNCHANGED wakeLast
  /\ UNCHANGED <<carVars, board, bootTime, toCar, lost, lostAnswer, resets>>

BoardAnswer ==
  /\ board = "waiting" /\ index # 0 /\ wakeLast
  /\ board' = "running"
  /\ toCar' = TRUE
  /\ UNCHANGED <<carVars, index, wakeLast, bootTime, toBoard, lost, lostAnswer, resets>>

LoseByte ==
  /\ lost < MaxLost
  /\ lost' = lost + 1
  /\ \/ toBoard /\ toBoard' = FALSE /\ UNCHANGED <<toCar, lostAnswer>>
     \/ toCar /\ toCar' = FALSE /\ lostAnswer' = TRUE /\ UNCHANGED toBoard
  /\ UNCHANGED <<carVars, boardVars, resets>>

-----------------------------------------------------------------------------
(* Properties. *)

TypeOK ==
  /\ car \in {"send", "delay", "ready", "failed"}
  /\ now \in 0..Never /\ time_out \in 0..TimeOut + 1
  /\ board \in {"off", "waiting", "running"}
  /\ index \in 0..ReadBufferSize /\ wakeLast \in BOOLEAN
  /\ toBoard \in BOOLEAN /\ toCar \in BOOLEAN
  /\ lost \in 0..MaxLost /\ lostAnswer \in BOOLEAN
  /\ bootTime \in 0..Never /\ resets \in 0..MaxResets

(* The car takes the detector for ready only when the detector works.      *)
ReadyMeansRunning == car = "ready" => board = "running"

(* A car that was never reset gives up only on a board that came up after  *)
(* the time-out, or within it by no more rounds than bytes were lost, or   *)
(* whose only answer was lost: the board answers once.                     *)
GivesUpOnLateBoard ==
  car = "failed" /\ resets = 0 => lostAnswer \/ bootTime + lost > TimeOut

(* No board works for a car that has given up, unless the answer was lost  *)
(* or the car was reset.                                                   *)
NoHalfOpen == car = "failed" /\ ~lostAnswer /\ resets = 0 => board # "running"

(* mcx_init_wait and rt1064_uart_init_wait end in the same way: both sides *)
(* leave the handshake together.                                           *)
BothAgree == ReadyMeansRunning /\ NoHalfOpen
=============================================================================
