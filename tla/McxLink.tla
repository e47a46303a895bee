------------------------------- MODULE McxLink -------------------------------
(***************************************************************************)
(* The serial link from the MCX cube detector to the car:                  *)
(*   - the sender, rt1064_uart_send_cube_info (MCXVision rt1064_uart.c);   *)
(*   - the receive interrupt, mcx_receive_data_callback, which collects a  *)
(*     frame in mcx_uart_fifo;                                             *)
(*   - the 20 ms PIT_CH3 tick, mcx_cube_data_handle_pit_call, which parses *)
(*     a complete frame into cube_info.                                    *)
(* Both handlers are interrupts of one priority, so each is one step.      *)
(* A frame is a HEAD byte, characters, a TAIL byte.  A character is the    *)
(* pair of the frame it was sent in and its position there: all that the   *)
(* properties need of it.  The link carries no sequence number and no      *)
(* checksum, so the code never reads the pair, the properties do.          *)
(***************************************************************************)
EXTENDS Naturals, Sequences

CONSTANTS
  SendLength,    \* characters that rt1064_uart_send_cube_info formats
  DataLength,    \* characters the car expects: MCX_DATA_LENGTH - 1
  BufferLength,  \* MCX_READ_BUFFER_LEN
  FieldEnd,      \* FieldEnd[k]: position of the last character of field k
  BytesPerTick,  \* most bytes the wire carries between two PIT_CH3 ticks
  InitLag,       \* most bytes sent before the car sees the board's wake byte
  MaxFrames,     \* bound: frames sent
  MaxFaults      \* bound: bytes lost or garbled

ASSUME McxLinkAssumption ==
  /\ SendLength \in Nat \ {0} /\ DataLength \in Nat \ {0}
  /\ BufferLength \in Nat /\ DataLength <= BufferLength
  /\ BytesPerTick \in Nat \ {0} /\ InitLag \in Nat
  /\ MaxFrames \in Nat /\ MaxFaults \in Nat
  /\ FieldEnd \in Seq(1..DataLength)
  /\ \A k \in 2..Len(FieldEnd) : FieldEnd[k-1] < FieldEnd[k]

VARIABLES
  frame, pos,                 \* sender: frame in progress, next byte of it
  mcx_init_flag,              \* set by mcx_init_wait
  mcx_uart_fifo,              \* the characters held, oldest first
  mcx_data_recv_finish_flag,  \* a frame waits for the tick
  cube_info,                  \* field -> the frames its value was made from
  gap,                        \* bytes since the last PIT_CH3 tick
  faults, faultFrame          \* history: bytes spoilt, frame of the last one

sender == <<frame, pos>>
receiver == <<mcx_init_flag, mcx_uart_fifo, mcx_data_recv_finish_flag, cube_info>>
vars == <<sender, receiver, gap, faults, faultFrame>>

-----------------------------------------------------------------------------
(* Bytes and frames. *)

Fields == 1..Len(FieldEnd)
FieldStart(k) == IF k = 1 THEN 1 ELSE FieldEnd[k-1] + 1
Char(f, p) == [frame |-> f, pos |-> p]
Illegible == Char(0, 0)       \* a character the format of sscanf does not match
CharSet == [frame : Nat, pos : Nat]

HeadByte == [kind |-> "head", char |-> Illegible]
TailByte == [kind |-> "tail", char |-> Illegible]
CharByte(c) == [kind |-> "char", char |-> c]

(* The byte that the sender puts on the wire next: MCX_BUFFER_HEAD, the    *)
(* formatted characters, MCX_BUFFER_TAIL.                                  *)
CurrentByte ==
  IF pos = 0 THEN HeadByte
  ELSE IF pos = SendLength + 1 THEN TailByte ELSE CharByte(Char(frame, pos))

(* sscanf assigns field after field and stops at the first character that  *)
(* its format does not match; the fields after it keep their old value.    *)
Matched(buf, k) == \A i \in 1..FieldEnd[k] : buf[i].pos = i
NoLengthField(buf) == {k \in Fields \ {Len(FieldEnd)} : Matched(buf, k)}
FieldsAssigned(buf) == {k \in Fields : Matched(buf, k)}
ParseFrame(buf) ==
  [k \in Fields |-> IF k \in FieldsAssigned(buf)
                    THEN {buf[i].frame : i \in FieldStart(k)..FieldEnd[k]}
                    ELSE cube_info[k]]

-----------------------------------------------------------------------------
(* The receive interrupt. *)

Receptive == mcx_init_flag /\ ~mcx_data_recv_finish_flag

FifoWriteUnchecked(c) == mcx_uart_fifo' = Append(mcx_uart_fifo, c)
fifo_write(c) ==              \* a full fifo rejects the byte, the result is ignored
  mcx_uart_fifo' = IF Len(mcx_uart_fifo) < BufferLength
                   THEN Append(mcx_uart_fifo, c) ELSE mcx_uart_fifo

IgnoreByte ==
  /\ ~Receptive
  /\ UNCHANGED <<mcx_uart_fifo, mcx_data_recv_finish_flag>>

HeadKeepsFifo(b) ==
  /\ Receptive /\ b.kind = "head"
  /\ UNCHANGED <<mcx_uart_fifo, mcx_data_recv_finish_flag>>
ReceiveHead(b) ==
  /\ Receptive /\ b.kind = "head"
  /\ mcx_uart_fifo' = <<>>
  /\ UNCHANGED mcx_data_recv_finish_flag

ReceiveTail(b) ==             \* a wrong length is refused, the fifo is kept
  /\ Receptive /\ b.kind = "tail"
  /\ mcx_data_recv_finish_flag' = (Len(mcx_uart_fifo) = DataLength)
  /\ UNCHANGED mcx_uart_fifo

ReceiveChar(b) ==
  /\ Receptive /\ b.kind = "char"
  /\ fifo_write(b.char)
  /\ UNCHANGED mcx_data_recv_finish_flag

mcx_receive_data_callback(b) ==
  /\ IgnoreByte \/ ReceiveHead(b) \/ ReceiveTail(b) \/ ReceiveChar(b)
  /\ UNCHANGED <<mcx_init_flag, cube_info>>

-----------------------------------------------------------------------------
(* Steps. *)

Init ==
  /\ frame = 1 /\ pos = 0
  /\ mcx_init_flag = FALSE
  /\ mcx_uart_fifo = <<>>
  /\ mcx_data_recv_finish_flag = FALSE
  /\ cube_info = [k \in Fields |-> {}]
  /\ gap = 0
  /\ faults = 0 /\ faultFrame = 0

(* The wire moves on by one byte.  The handshake lets the board start      *)
(* sending a little before the car has seen its answer: InitLag.           *)
NextByte ==
  /\ frame <= MaxFrames
  /\ mcx_init_flag \/ (frame = 1 /\ pos < InitLag)
  /\ gap < BytesPerTick
  /\ gap' = gap + 1
  /\ IF pos = SendLength + 1
     THEN frame' = frame + 1 /\ pos' = 0
     ELSE frame' = frame /\ pos' = pos + 1

(* mcx_init_wait has read the wake byte: empty fifo, receiver on. *)
InitDone ==
  /\ ~mcx_init_flag
  /\ mcx_init_flag' = TRUE
  /\ mcx_uart_fifo' = <<>>
  /\ UNCHANGED <<sender, mcx_data_recv_finish_flag, cube_info, gap, faults, faultFrame>>

SendByte ==
  /\ NextByte
  /\ mcx_receive_data_callback(CurrentByte)
  /\ UNCHANGED <<faults, faultFrame>>

Spoil ==
  /\ faults < MaxFaults
  /\ faults' = faults + 1
  /\ faultFrame' = frame

(* Noise on the line: the byte never arrives, or arrives as another one.   *)
LoseByte ==
  /\ NextByte
  /\ Spoil
  /\ UNCHANGED receiver

GarbleByte ==
  /\ NextByte
  /\ Spoil
  /\ \E b \in {HeadByte, TailByte, CharByte(Illegible), CharByte(Char(0, pos))} :
       mcx_receive_data_callback(b)

(* One PIT_CH3 tick of mcx_cube_data_handle_pit_call. *)
TickIdle ==
  /\ ~(mcx_init_flag /\ mcx_data_recv_finish_flag)
  /\ gap' = 0
  /\ UNCHANGED <<sender, receiver, faults, faultFrame>>

LengthOffByOne(n) == n = DataLength + 1
LengthExpected(n) == n = DataLength

TickFrame ==
  /\ mcx_init_flag /\ mcx_data_recv_finish_flag
  /\ gap' = 0
  /\ mcx_data_recv_finish_flag' = FALSE
  /\ IF LengthExpected(Len(mcx_uart_fifo))
     THEN /\ cube_info' = ParseFrame(mcx_uart_fifo)
          /\ mcx_uart_fifo' = <<>>              \* FIFO_READ_AND_CLEAN
     ELSE UNCHANGED <<cube_info, mcx_uart_fifo>>
  /\ UNCHANGED <<sender, mcx_init_flag, faults, faultFrame>>

Tick == TickIdle \/ TickFrame

Next == InitDone \/ SendByte \/ LoseByte \/ GarbleByte \/ Tick

Spec == Init /\ [][Next]_vars

(* The board sends for ever, the timer ticks for ever, the handshake ends. *)
Fairness ==
  /\ WF_vars(InitDone)
  /\ WF_vars(SendByte)
  /\ WF_vars(Tick)

FairSpec == Spec /\ Fairness

-----------------------------------------------------------------------------
(* Properties. *)

IsWhole(buf, f) ==
  /\ Len(buf) = DataLength
  /\ \A i \in 1..DataLength : buf[i] = Char(f, i)

Shown(f) == cube_info = [k \in Fields |-> {f}]

(* Types, with the fifo within its buffer (MCX_Vision.c:22-24). *)
TypeOK ==
  /\ frame \in 1..MaxFrames + 1 /\ pos \in 0..SendLength + 1
  /\ mcx_init_flag \in BOOLEAN
  /\ mcx_uart_fifo \in Seq(CharSet) /\ Len(mcx_uart_fifo) <= BufferLength
  /\ mcx_data_recv_finish_flag \in BOOLEAN
  /\ cube_info \in [Fields -> SUBSET Nat]
  /\ gap \in 0..BytesPerTick
  /\ faults \in 0..MaxFaults /\ faultFrame \in 0..MaxFrames

(* On a line without faults, what waits for the tick is one frame from its *)
(* first to its last character, never the tail of one joined to the start  *)
(* of the next, even though the interrupt drops bytes while a frame waits. *)
FrameIntact ==
  faults = 0 /\ mcx_data_recv_finish_flag => \E f \in 1..frame - 1 : IsWhole(mcx_uart_fifo, f)

(* The newest frame that the car shows, or holds complete for the tick. *)
Newest(f) ==
  \/ f = 0
  \/ Shown(f)
  \/ mcx_data_recv_finish_flag /\ IsWhole(mcx_uart_fifo, f)

(* The bytes dropped while a frame waits cost at most one frame: when the  *)
(* board works on a frame, the car has or shows one of the two before it.  *)
(* However the line was disturbed, the second frame after the last         *)
(* disturbed one finds the receiver synchronised again.                    *)
ResyncAfterFault ==
  frame > faultFrame + 2 => \E f \in faultFrame + 1 .. frame : frame <= f + 2 /\ Newest(f)

(* Noise never makes the interrupt announce a frame of another length. *)
AnnouncedLength ==
  mcx_data_recv_finish_flag => Len(mcx_uart_fifo) = DataLength

(* Every frame but the last is shown in the end, or a newer one is, unless *)
(* it or a later one was disturbed.                                        *)
FramesGetThrough ==
  \A f \in 1..MaxFrames - 1 :
    frame > f ~> (\E g \in f..MaxFrames : Shown(g)) \/ faultFrame >= f

(* The link implements the register that motion control reads: as long as  *)
(* the line is quiet, cube_info is never a mixture of two readings and     *)
(* never goes back to an older one.                                        *)
Register == INSTANCE CubeRegister
  WITH sent <- IF pos = 0 THEN frame - 1 ELSE frame, disturbed <- faults > 0
RegisterSpec == Register!Spec

(* MCX_Vision.c:72 "data can be received now": once the handshake is over  *)
(* and the board sends, cube_info is updated.                              *)
DataIsReceived == <>(\E f \in 1..MaxFrames : Shown(f))
=============================================================================
