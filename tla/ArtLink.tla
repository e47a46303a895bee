------------------------------- MODULE ArtLink -------------------------------
(***************************************************************************)
(* The serial link from the OpenART classifier to the car:                 *)
(*   - the sender, send_frame (OpenART/demo/main.py), which rests 0.1 s    *)
(*     after '[' and before ']' and never waits for the car;               *)
(*   - the receive interrupt, art_receive_data_callback, which stores      *)
(*     every byte first and looks at it afterwards;                        *)
(*   - the PIT_CH3 tick, art_cube_data_handle_pit_call, which terminates   *)
(*     the text and parses it into current_cube_face_info.                 *)
(* The model starts when main enables the receive interrupt (main.c:48);   *)
(* art_init_flag is set by then.  The classifier has long been sending, so *)
(* the car comes in anywhere in a frame.                                   *)
(***************************************************************************)
EXTENDS Naturals, Sequences, FiniteSets

CONSTANTS
  SendLength,    \* characters of "o:00,p:0.00,n:00,p:0.00"
  BufferLength,  \* ART_READ_BUFFER_LEN
  FieldEnd,      \* FieldEnd[k]: position of the last character of field k
  BytesPerTick,  \* most bytes the wire carries between two PIT_CH3 ticks
  Rests,         \* positions of the bytes that send_frame sends after a rest
  MaxFrames,     \* bound: frames sent
  MaxLost        \* bound: bytes lost on the wire

ASSUME ArtLinkAssumption ==
  /\ SendLength \in Nat \ {0}
  /\ BufferLength \in Nat /\ SendLength + 2 <= BufferLength
  /\ BytesPerTick \in Nat \ {0}
  /\ Rests \subseteq 0..SendLength + 1
  /\ MaxFrames \in Nat \ {0} /\ MaxLost \in Nat
  /\ FieldEnd \in Seq(1..SendLength)
  /\ \A k \in 2..Len(FieldEnd) : FieldEnd[k-1] < FieldEnd[k]

VARIABLES
  frame, pos,                 \* sender: frame in progress, next byte of it
  art_uart_fifo_buffer,       \* 0..BufferLength-1 -> byte
  art_uart_fifo_index,        \* where the next byte goes
  art_data_recv_finish_flag,  \* a text waits for the tick
  face,                       \* field -> the frames its value was made from
  valid,                      \* current_cube_face_info.valid
  gap,                        \* bytes since the last PIT_CH3 tick
  lost, lostFrame,            \* history: bytes lost, last frame not heard in full
  outside                     \* history: a byte written outside the buffer

sender == <<frame, pos>>
receiver == <<art_uart_fifo_buffer, art_uart_fifo_index, art_data_recv_finish_flag>>
result == <<face, valid>>
vars == <<sender, receiver, result, gap, lost, lostFrame, outside>>

-----------------------------------------------------------------------------
(* Bytes and frames.  A character is known by its frame and its position.  *)

Fields == 1..Len(FieldEnd)
FieldStart(k) == IF k = 1 THEN 1 ELSE FieldEnd[k-1] + 1
Char(f, p) == [kind |-> "char", frame |-> f, pos |-> p]
Mark(kind) == [kind |-> kind, frame |-> 0, pos |-> 0]
Nul == Mark("nul")

CurrentByte ==
  IF pos = 0 THEN Mark("head")
  ELSE IF pos = SendLength + 1 THEN Mark("tail") ELSE Char(frame, pos)

(* sscanf stops at the first byte that is not the one its format asks for. *)
FieldsAssigned(buf) ==
  {k \in Fields : \A i \in 1..FieldEnd[k] : buf[i-1].kind = "char" /\ buf[i-1].pos = i}
ParseText(buf) ==
  [k \in Fields |-> IF k \in FieldsAssigned(buf)
                    THEN {buf[i-1].frame : i \in FieldStart(k)..FieldEnd[k]}
                    ELSE face[k]]

-----------------------------------------------------------------------------
(* The receive interrupt. *)

(* The byte is stored at the index before anything is known of it.  An     *)
(* index that reaches the end starts over and the byte is not looked at.   *)
OverrunTooLate(i) == i + 1 > BufferLength
Overrun(i) == i + 1 >= BufferLength

Store(b) ==
  art_uart_fifo_buffer' = [art_uart_fifo_buffer EXCEPT ![art_uart_fifo_index] = b]

ReceiveAtEnd(b) ==
  /\ Overrun(art_uart_fifo_index)
  /\ Store(b)
  /\ art_uart_fifo_index' = 0
  /\ UNCHANGED art_data_recv_finish_flag

HeadAlwaysResets(b) ==
  /\ ~Overrun(art_uart_fifo_index)
  /\ art_data_recv_finish_flag
  /\ Store(b)
  /\ art_uart_fifo_index' = IF b.kind = "head" THEN 0 ELSE art_uart_fifo_index + 1
  /\ UNCHANGED art_data_recv_finish_flag
ReceiveBehind(b) ==              \* a text waits: stored, not looked at
  /\ ~Overrun(art_uart_fifo_index)
  /\ art_data_recv_finish_flag
  /\ Store(b)
  /\ art_uart_fifo_index' = art_uart_fifo_index + 1
  /\ UNCHANGED art_data_recv_finish_flag

ReceiveByte(b) ==
  /\ ~Overrun(art_uart_fifo_index)
  /\ ~art_data_recv_finish_flag
  /\ Store(b)
  /\ art_data_recv_finish_flag' = (b.kind = "tail")
  /\ art_uart_fifo_index' = IF b.kind = "head" THEN 0 ELSE art_uart_fifo_index + 1

art_receive_data_callback(b) == ReceiveAtEnd(b) \/ ReceiveBehind(b) \/ ReceiveByte(b)

-----------------------------------------------------------------------------
(* Steps. *)

Init ==
  /\ frame = 1 /\ pos \in 0..SendLength + 1
  /\ art_uart_fifo_buffer = [i \in 0..BufferLength-1 |-> Nul]
  /\ art_uart_fifo_index = 0
  /\ art_data_recv_finish_flag = FALSE
  /\ face = [k \in Fields |-> {}] /\ valid = FALSE
  /\ gap = 0 /\ lost = 0 /\ lostFrame = (IF pos = 0 THEN 0 ELSE 1) /\ outside = FALSE

NoRest == TRUE
Rested == pos \in Rests => gap = 0        \* 0.1 s are five ticks

NextByte ==
  /\ frame <= MaxFrames
  /\ Rested
  /\ gap < BytesPerTick
  /\ gap' = gap + 1
  /\ IF pos = SendLength + 1
     THEN frame' = frame + 1 /\ pos' = 0
     ELSE frame' = frame /\ pos' = pos + 1

SendByte ==
  /\ NextByte
  /\ art_receive_data_callback(CurrentByte)
  /\ UNCHANGED <<result, lost, lostFrame, outside>>

LoseByte ==
  /\ NextByte
  /\ lost < MaxLost
  /\ lost' = lost + 1 /\ lostFrame' = frame
  /\ UNCHANGED <<receiver, result, outside>>

TickIdle ==
  /\ ~art_data_recv_finish_flag
  /\ gap' = 0
  /\ UNCHANGED <<sender, receiver, result, lost, lostFrame, outside>>

FlagNotReset == TRUE
FlagAfterText == FALSE

(* The '\0' goes over the last byte, before the buffer if the index is 0.  *)
Terminated ==
  [i \in 0..BufferLength-1 |->
     IF i + 1 = art_uart_fifo_index THEN Nul ELSE art_uart_fifo_buffer[i]]

TickText ==
  /\ art_data_recv_finish_flag
  /\ gap' = 0
  /\ art_uart_fifo_buffer' = Terminated
  /\ outside' = (outside \/ art_uart_fifo_index = 0)
  /\ face' = ParseText(Terminated)
  /\ valid' = TRUE
  /\ art_uart_fifo_index' = 0
  /\ art_data_recv_finish_flag' = FlagAfterText
  /\ UNCHANGED <<sender, lost, lostFrame>>

Next == SendByte \/ LoseByte \/ TickIdle \/ TickText

Spec == Init /\ [][Next]_vars

-----------------------------------------------------------------------------
(* Properties. *)

ByteSet == [kind : {"head", "tail", "char", "nul"}, frame : Nat, pos : Nat]

(* Types; the index is always inside the buffer (OpenART.c:66-70). *)
TypeOK ==
  /\ frame \in 1..MaxFrames + 1 /\ pos \in 0..SendLength + 1
  /\ art_uart_fifo_buffer \in [0..BufferLength-1 -> ByteSet]
  /\ art_uart_fifo_index \in 0..BufferLength-1
  /\ art_data_recv_finish_flag \in BOOLEAN
  /\ face \in [Fields -> SUBSET Nat] /\ valid \in BOOLEAN
  /\ gap \in 0..BytesPerTick
  /\ lost \in 0..MaxLost /\ lostFrame \in 0..MaxFrames /\ outside \in BOOLEAN

Shown(f) == face = [k \in Fields |-> {f}]

(* The link implements the register that motion control reads, although    *)
(* the interrupt keeps storing bytes behind a text that waits: until a     *)
(* byte is lost the face is that of one frame, newer with every change.    *)
Register == INSTANCE CubeRegister
  WITH cube_info <- face, sent <- frame - 1, disturbed <- lost > 0
RegisterSpec == Register!Spec

(* The bytes that arrive while a text waits cost no frame, even the '['    *)
(* that the interrupt then overlooks; and the frames after the last one    *)
(* that the car did not hear in full all get through again.                *)
NoneSkipped == frame > lostFrame + 2 => Shown(frame - 1) \/ Shown(frame - 2)

(* OpenART.c:94-95: on a line without losses the terminator goes into the  *)
(* buffer; the index is never 0 when a text waits.                         *)
TerminatorInBuffer == lost = 0 => ~outside
=============================================================================
