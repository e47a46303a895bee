--------------------------- MODULE ArtLink_proofs ---------------------------
(***************************************************************************)
(* Proofs about ArtLink, for every length of text, buffer and tick: the    *)
(* index stays in the buffer whatever is lost; no frame is skipped but for *)
(* a loss; without losses the terminator stays in the buffer and the face  *)
(* shown implements CubeRegister.                                          *)
(***************************************************************************)
EXTENDS ArtLink, TLAPS

USE ArtLinkAssumption DEF ArtLinkAssumption

-----------------------------------------------------------------------------
(* Types. *)

LEMMA ByteType ==
  ASSUME frame \in Nat, pos \in Nat
  PROVE  CurrentByte \in ByteSet
BY DEF CurrentByte, Mark, Char, ByteSet

LEMMA CallbackType ==
  ASSUME TypeOK, NEW b \in ByteSet, art_receive_data_callback(b)
  PROVE  /\ art_uart_fifo_buffer' \in [0..BufferLength-1 -> ByteSet]
         /\ art_uart_fifo_index' \in 0..BufferLength-1
         /\ art_data_recv_finish_flag' \in BOOLEAN
<1> USE DEF TypeOK, Store, Overrun
<1>1. CASE ReceiveAtEnd(b)
  BY <1>1 DEF ReceiveAtEnd
<1>2. CASE ReceiveBehind(b)
  BY <1>2 DEF ReceiveBehind
<1>3. CASE ReceiveByte(b)
  <2>1. art_data_recv_finish_flag' \in BOOLEAN
    BY <1>3 DEF ReceiveByte
  <2>2. /\ art_uart_fifo_buffer' \in [0..BufferLength-1 -> ByteSet]
        /\ art_uart_fifo_index' \in 0..BufferLength-1
    BY <1>3 DEF ReceiveByte
  <2> QED BY <2>1, <2>2
<1> QED BY <1>1, <1>2, <1>3 DEF art_receive_data_callback

LEMMA NextByteType ==
  ASSUME TypeOK, NextByte
  PROVE  /\ frame' \in 1..MaxFrames + 1 /\ pos' \in 0..SendLength + 1
         /\ gap' \in 0..BytesPerTick /\ frame \in 0..MaxFrames
BY DEF TypeOK, NextByte

(* What sscanf leaves: sets of frames, for every field. *)
LEMMA ParseType ==
  ASSUME TypeOK, NEW buf \in [0..BufferLength-1 -> ByteSet]
  PROVE  ParseText(buf) \in [Fields -> SUBSET Nat]
<1> SUFFICES ASSUME NEW k \in Fields
             PROVE  {buf[i-1].frame : i \in FieldStart(k)..FieldEnd[k]} \subseteq Nat
  BY DEF ParseText, TypeOK
<1>1. k \in 1..Len(FieldEnd) /\ FieldEnd[k] \in 1..SendLength
  BY DEF Fields
<1>2. FieldStart(k) \in Nat /\ FieldStart(k) >= 1
  <2>1. CASE k = 1
    BY <2>1 DEF FieldStart
  <2>2. CASE k # 1
    <3>1. k-1 \in 1..Len(FieldEnd)
      BY <2>2, <1>1
    <3>2. FieldEnd[k-1] \in 1..SendLength
      BY <3>1
    <3> QED BY <2>2, <3>2 DEF FieldStart
  <2> QED BY <2>1, <2>2
<1>3. ASSUME NEW i \in FieldStart(k)..FieldEnd[k] PROVE buf[i-1].frame \in Nat
  <2>1. i-1 \in 0..BufferLength-1
    BY <1>1, <1>2
  <2> QED BY <2>1 DEF ByteSet
<1> QED BY <1>3

LEMMA InitTypeOK == Init => TypeOK
<1> SUFFICES ASSUME Init PROVE TypeOK
  OBVIOUS
<1>1. art_uart_fifo_buffer \in [0..BufferLength-1 -> ByteSet]
  BY DEF Init, Nul, Mark, ByteSet
<1>2. face \in [Fields -> SUBSET Nat]
  BY DEF Init
<1>3. /\ frame \in 1..MaxFrames + 1 /\ lostFrame \in 0..MaxFrames /\ pos \in 0..SendLength + 1
      /\ art_uart_fifo_index \in 0..BufferLength-1 /\ gap \in 0..BytesPerTick /\ lost \in 0..MaxLost
  BY DEF Init
<1>4. /\ art_data_recv_finish_flag \in BOOLEAN /\ valid \in BOOLEAN /\ outside \in BOOLEAN
  BY DEF Init
<1> QED BY <1>1, <1>2, <1>3, <1>4 DEF TypeOK

LEMMA TypeStep == ASSUME TypeOK, [Next]_vars PROVE TypeOK'
<1>1. CASE SendByte
  <2>1. CurrentByte \in ByteSet
    BY ByteType DEF TypeOK
  <2>2. art_receive_data_callback(CurrentByte)
    BY <1>1 DEF SendByte
  <2>3. /\ art_uart_fifo_buffer' \in [0..BufferLength-1 -> ByteSet]
        /\ art_uart_fifo_index' \in 0..BufferLength-1
        /\ art_data_recv_finish_flag' \in BOOLEAN
    BY <2>1, <2>2, CallbackType
  <2> QED BY <1>1, <2>3, NextByteType DEF SendByte, result, TypeOK
<1>2. CASE LoseByte
  <2>1. NextByte /\ lost' \in 0..MaxLost /\ lostFrame' = frame
        /\ UNCHANGED <<receiver, result, outside>>
    BY <1>2 DEF LoseByte, TypeOK
  <2> QED BY <2>1, NextByteType DEF receiver, result, TypeOK
<1>3. CASE TickIdle
  BY <1>3 DEF TickIdle, sender, receiver, result, TypeOK
<1>4. CASE TickText
  <2>1. Terminated \in [0..BufferLength-1 -> ByteSet]
    BY DEF TypeOK, Terminated, Nul, Mark, ByteSet
  <2>2. face' \in [Fields -> SUBSET Nat]
    BY <1>4, <2>1, ParseType DEF TickText
  <2>3. valid' \in BOOLEAN /\ art_data_recv_finish_flag' \in BOOLEAN /\ outside' \in BOOLEAN
    BY <1>4 DEF TickText, FlagAfterText, TypeOK
  <2>4. /\ art_uart_fifo_buffer' = Terminated /\ art_uart_fifo_index' = 0 /\ gap' = 0
        /\ UNCHANGED <<frame, pos, lost, lostFrame>>
    BY <1>4 DEF TickText, sender
  <2> QED BY <2>1, <2>2, <2>3, <2>4 DEF TypeOK
<1>5. CASE UNCHANGED vars
  BY <1>5 DEF vars, sender, receiver, result, TypeOK
<1> QED BY <1>1, <1>2, <1>3, <1>4, <1>5 DEF Next

(* Whatever is lost, art_uart_fifo_index stays inside the buffer           *)
(* (OpenART.c:66-70), although it is used before it is looked at.          *)
THEOREM TypeCorrect == Spec => []TypeOK
<1>1. Init => TypeOK
  BY InitTypeOK
<1>2. TypeOK /\ [Next]_vars => TypeOK'
  BY TypeStep
<1> QED BY <1>1, <1>2, PTL DEF Spec

-----------------------------------------------------------------------------
(* A sender that rests after the '[' (main.py:66-70): the tick looks at a  *)
(* text before the first character of the next one comes.                  *)

RestAfterHead == 1 \in Rests

(* The characters of frame f are where sscanf looks for them. *)
HasWhole(f) == \A i \in 1..SendLength : art_uart_fifo_buffer[i-1] = Char(f, i)

(* The text of the last frame waits: behind it the interrupt has stored    *)
(* ']' and at most the next '['.                                           *)
Waits ==
  /\ HasWhole(frame - 1)
  /\ \/ pos = 0 /\ art_uart_fifo_index = SendLength + 1
     \/ pos = 1 /\ SendLength + 2 < BufferLength /\ art_uart_fifo_index = SendLength + 2
     \/ pos = 1 /\ SendLength + 2 = BufferLength /\ art_uart_fifo_index = 0

(* The frame in progress is collected from its '['. *)
Collected ==
  /\ ~art_data_recv_finish_flag /\ art_uart_fifo_index = pos - 1
  /\ \A i \in 1..SendLength : i < pos => art_uart_fifo_buffer[i-1] = Char(frame, i)

(* The face is that of the n-th frame before the one in progress. *)
ShownBack(n) == face = [k \in Fields |-> {frame - n}]

FlagAfterTick == art_data_recv_finish_flag => gap > 0

(* What the car knows of the frames after the last one it did not hear in  *)
(* full.                                                                   *)
Heard ==
  /\ frame > lostFrame /\ pos >= 2 => Collected
  /\ frame > lostFrame /\ pos = 1 /\ ~art_data_recv_finish_flag => art_uart_fifo_index = 0
  /\ frame > lostFrame + 1 => IF art_data_recv_finish_flag THEN Waits ELSE ShownBack(1)
  /\ frame > lostFrame + 2 /\ art_data_recv_finish_flag => ShownBack(2)

(* sscanf makes the whole face from a whole text. *)
LEMMA WholeTextShown ==
  ASSUME TypeOK, TickText, NEW f \in Nat, HasWhole(f),
         art_uart_fifo_index = 0 \/ art_uart_fifo_index > SendLength
  PROVE  face' = [k \in Fields |-> {f}]
<1>1. ASSUME NEW i \in 1..SendLength PROVE Terminated[i-1] = Char(f, i)
  <2>1. i-1 \in 0..BufferLength-1 /\ i-1+1 # art_uart_fifo_index
    BY DEF TypeOK
  <2>2. Terminated[i-1] = art_uart_fifo_buffer[i-1]
    BY <2>1 DEF Terminated
  <2> QED BY <2>2 DEF HasWhole
<1>2. ASSUME NEW k \in Fields
      PROVE  /\ k \in FieldsAssigned(Terminated)
             /\ {Terminated[i-1].frame : i \in FieldStart(k)..FieldEnd[k]} = {f}
  <2>1. k \in 1..Len(FieldEnd) /\ FieldEnd[k] \in 1..SendLength
    BY DEF Fields
  <2>2. FieldStart(k) \in 1..FieldEnd[k]
    <3>1. CASE k = 1
      BY <3>1, <2>1 DEF FieldStart
    <3>2. CASE k # 1
      <4>1. k-1 \in 1..Len(FieldEnd) /\ k \in 2..Len(FieldEnd)
        BY <3>2, <2>1
      <4>2. FieldEnd[k-1] \in 1..SendLength /\ FieldEnd[k-1] < FieldEnd[k]
        BY <4>1
      <4> QED BY <3>2, <4>2, <2>1 DEF FieldStart
    <3> QED BY <3>1, <3>2
  <2>3. \A i \in 1..FieldEnd[k] : Terminated[i-1] = Char(f, i)
    BY <1>1, <2>1
  <2>4. \A i \in 1..FieldEnd[k] :
          Terminated[i-1].kind = "char" /\ Terminated[i-1].pos = i /\ Terminated[i-1].frame = f
    <3> SUFFICES ASSUME NEW i \in 1..FieldEnd[k]
                 PROVE  LET c == Terminated[i-1]
                        IN  c.kind = "char" /\ c.pos = i /\ c.frame = f
      OBVIOUS
    <3>1. Terminated[i-1] = [kind |-> "char", frame |-> f, pos |-> i]
      BY <2>3 DEF Char
    <3> QED BY <3>1
  <2>5. k \in FieldsAssigned(Terminated)
    BY <2>4 DEF FieldsAssigned
  <2>6. FieldEnd[k] \in FieldStart(k)..FieldEnd[k]
    BY <2>1, <2>2
  <2>7. {Terminated[i-1].frame : i \in FieldStart(k)..FieldEnd[k]} = {f}
    <3>1. \A i \in FieldStart(k)..FieldEnd[k] : Terminated[i-1].frame = f
      BY <2>1, <2>2, <2>4
    <3> QED BY <3>1, <2>6
  <2> QED BY <2>5, <2>7
<1>3. face' = ParseText(Terminated)
  BY DEF TickText
<1>4. ParseText(Terminated) = [k \in Fields |-> {f}]
  BY <1>2 DEF ParseText
<1> QED BY <1>3, <1>4

LEMMA HeardInit == Init => Heard /\ FlagAfterTick
BY DEF Init, Heard, FlagAfterTick

(* A byte that is heard. *)
LEMMA HeardSend ==
  ASSUME RestAfterHead, TypeOK, FlagAfterTick, Heard, SendByte
  PROVE  Heard'
<1>1. /\ frame \in Nat /\ lostFrame \in Nat /\ pos \in 0..SendLength + 1 /\ gap \in Nat
      /\ art_uart_fifo_index \in 0..BufferLength-1
      /\ art_uart_fifo_buffer \in [0..BufferLength-1 -> ByteSet]
      /\ art_data_recv_finish_flag \in BOOLEAN
  BY DEF TypeOK
<1>2. /\ UNCHANGED <<face, lostFrame>>
      /\ art_receive_data_callback(CurrentByte)
  BY DEF SendByte, result
<1>3. CASE pos = SendLength + 1
  <2>1. frame' = frame + 1 /\ pos' = 0
    BY <1>3, <1>1 DEF SendByte, NextByte
  <2>2. CASE frame > lostFrame
    <3>1. Collected
      BY <2>2, <1>3 DEF Heard
    <3>2. ReceiveByte(Mark("tail"))
      BY <3>1, <1>2, <1>3, <1>1 DEF Collected, CurrentByte, art_receive_data_callback, ReceiveAtEnd,
                                    ReceiveBehind, Overrun
    <3>3. /\ art_uart_fifo_index' = SendLength + 1
          /\ art_uart_fifo_buffer' = [art_uart_fifo_buffer EXCEPT ![SendLength] = Mark("tail")]
      <4>1. Mark("tail").kind = "tail"
        BY DEF Mark
      <4> QED BY <4>1, <3>1, <3>2, <1>3, <1>1 DEF Collected, ReceiveByte, Store
    <3>9. art_data_recv_finish_flag'
      <4>1. Mark("tail").kind = "tail"
        BY DEF Mark
      <4> QED BY <4>1, <3>2, Zenon DEF ReceiveByte
    <3>4. ASSUME NEW i \in 1..SendLength PROVE art_uart_fifo_buffer'[i-1] = Char(frame, i)
      <4>1. i-1 # SendLength /\ i-1 \in 0..BufferLength-1 /\ i < pos
        BY <1>3
      <4> QED BY <4>1, <3>1, <3>3, <1>1 DEF Collected
    <3>5. frame' - 1 = frame /\ frame' - 2 = frame - 1
      BY <2>1, <1>1
    <3>6. Waits'
      BY <3>3, <3>4, <3>5, <2>1 DEF Waits, HasWhole
    <3>7. frame > lostFrame + 1 => ShownBack(1)
      BY <3>1 DEF Heard, Collected
    <3>8. frame' > lostFrame' + 2 => ShownBack(2)'
      BY <3>5, <3>7, <2>1, <1>1, <1>2 DEF ShownBack
    <3> QED BY <3>6, <3>8, <3>9, <2>1 DEF Heard
  <2>3. CASE ~(frame > lostFrame)
    BY <2>1, <2>3, <1>1, <1>2 DEF Heard
  <2> QED BY <2>2, <2>3
<1>4. CASE pos = 0
  <2>1. frame' = frame /\ pos' = 1
    BY <1>4, <1>1 DEF SendByte, NextByte
  <2>2. art_receive_data_callback(Mark("head"))
    BY <1>2, <1>4 DEF CurrentByte
  <2>3. CASE art_data_recv_finish_flag
    <3>1. art_data_recv_finish_flag' /\ Store(Mark("head"))
      BY <2>2, <2>3 DEF art_receive_data_callback, ReceiveAtEnd, ReceiveBehind, ReceiveByte
    <3>2. ASSUME frame > lostFrame + 1 PROVE Waits'
      <4>1. HasWhole(frame - 1) /\ art_uart_fifo_index = SendLength + 1
        BY <3>2, <2>3, <1>4 DEF Heard, Waits
      <4>2. \/ SendLength + 2 < BufferLength /\ art_uart_fifo_index' = SendLength + 2
            \/ SendLength + 2 = BufferLength /\ art_uart_fifo_index' = 0
        <5>1. CASE ReceiveAtEnd(Mark("head"))
          BY <5>1, <4>1 DEF ReceiveAtEnd, Overrun
        <5>2. CASE ReceiveBehind(Mark("head"))
          BY <5>2, <4>1 DEF ReceiveBehind, Overrun
        <5> QED BY <5>1, <5>2, <2>2, <2>3 DEF art_receive_data_callback, ReceiveByte
      <4>3. ASSUME NEW i \in 1..SendLength PROVE art_uart_fifo_buffer'[i-1] = Char(frame - 1, i)
        <5>1. i-1 # SendLength + 1 /\ i-1 \in 0..BufferLength-1
          OBVIOUS
        <5> QED BY <5>1, <4>1, <3>1, <1>1 DEF Store, HasWhole
      <4> QED BY <4>2, <4>3, <2>1 DEF Waits, HasWhole
    <3> QED BY <3>1, <3>2, <2>1, <2>3, <1>1, <1>2 DEF Heard, ShownBack
  <2>4. CASE ~art_data_recv_finish_flag
    <3>1. ~art_data_recv_finish_flag' /\ art_uart_fifo_index' = 0
      <4>1. Mark("head").kind = "head" /\ ~(Mark("head").kind = "tail")
        BY DEF Mark
      <4>2. CASE ReceiveAtEnd(Mark("head"))
        BY <4>2, <2>4, Zenon DEF ReceiveAtEnd
      <4>3. CASE ReceiveByte(Mark("head"))
        BY <4>1, <4>3, Zenon DEF ReceiveByte
      <4> QED BY <4>2, <4>3, <2>2, <2>4, Zenon DEF art_receive_data_callback, ReceiveBehind
    <3> QED BY <3>1, <2>1, <2>4, <1>1, <1>2 DEF Heard, ShownBack
  <2> QED BY <2>3, <2>4
<1>5. CASE pos \in 1..SendLength
  <2>1. frame' = frame /\ pos' = pos + 1
    BY <1>5, <1>1 DEF SendByte, NextByte
  <2>2. CASE frame > lostFrame
    <3>1. ~art_data_recv_finish_flag /\ art_uart_fifo_index = pos - 1
      <4>1. CASE pos = 1
        <5>1. gap = 0
          BY <4>1 DEF SendByte, NextByte, Rested, RestAfterHead
        <5> QED BY <5>1, <4>1, <2>2 DEF FlagAfterTick, Heard
      <4>2. CASE pos >= 2
        BY <4>2, <2>2 DEF Heard, Collected
      <4> QED BY <4>1, <4>2, <1>5
    <3>2. ASSUME NEW i \in 1..SendLength, i < pos PROVE art_uart_fifo_buffer[i-1] = Char(frame, i)
      BY <3>2, <2>2, <1>5 DEF Heard, Collected
    <3>3. ReceiveByte(Char(frame, pos))
      BY <3>1, <1>1, <1>2, <1>5 DEF CurrentByte, art_receive_data_callback, ReceiveAtEnd, ReceiveBehind,
                                    Overrun
    <3>4. /\ ~art_data_recv_finish_flag' /\ art_uart_fifo_index' = pos
          /\ art_uart_fifo_buffer' = [art_uart_fifo_buffer EXCEPT ![pos - 1] = Char(frame, pos)]
      BY <3>1, <3>3, <1>1, <1>5 DEF ReceiveByte, Store, Char
    <3>5. ASSUME NEW i \in 1..SendLength, i < pos + 1
          PROVE  art_uart_fifo_buffer'[i-1] = Char(frame, i)
      <4>1. CASE i = pos
        BY <4>1, <3>4, <1>1
      <4>2. CASE i < pos
        BY <4>2, <3>2, <3>4, <1>1, <1>5
      <4> QED BY <4>1, <4>2, <3>5, <1>5
    <3>6. Collected'
      BY <3>4, <3>5, <2>1, <1>1 DEF Collected
    <3>7. frame > lostFrame + 1 => ShownBack(1)'
      BY <3>1, <2>1, <1>2 DEF Heard, ShownBack
    <3> QED BY <3>4, <3>6, <3>7, <2>1, <1>1, <1>2, <1>5 DEF Heard
  <2>3. CASE ~(frame > lostFrame)
    BY <2>1, <2>3, <1>1, <1>2 DEF Heard
  <2> QED BY <2>2, <2>3
<1> QED BY <1>1, <1>3, <1>4, <1>5

(* A byte that is lost: the frame in progress no longer counts. *)
LEMMA HeardLose == ASSUME TypeOK, LoseByte PROVE Heard'
<1>1. /\ frame \in Nat /\ lostFrame' = frame
      /\ frame' = frame \/ (frame' = frame + 1 /\ pos' = 0)
  BY DEF TypeOK, LoseByte, NextByte
<1> QED BY <1>1 DEF Heard

(* The tick: a text that waits becomes the face. *)
LEMMA HeardTick ==
  ASSUME TypeOK, Heard, TickText
  PROVE  Heard'
<1>1. /\ frame \in Nat /\ lostFrame \in Nat
      /\ art_data_recv_finish_flag /\ ~art_data_recv_finish_flag'
      /\ UNCHANGED <<frame, pos, lostFrame>> /\ art_uart_fifo_index' = 0
  BY DEF TypeOK, TickText, FlagAfterText, sender
<1>2. ~(frame > lostFrame /\ pos >= 2)
  BY <1>1 DEF Heard, Collected
<1>3. ASSUME frame > lostFrame + 1 PROVE ShownBack(1)'
  <2>1. HasWhole(frame - 1) /\ (art_uart_fifo_index = 0 \/ art_uart_fifo_index > SendLength)
    BY <1>1, <1>3 DEF Heard, Waits
  <2>2. PICK f \in Nat : f = frame - 1
    BY <1>1, <1>3
  <2>3. face' = [k \in Fields |-> {f}]
    BY <2>1, <2>2, WholeTextShown
  <2> QED BY <2>2, <2>3, <1>1 DEF ShownBack
<1> QED BY <1>1, <1>2, <1>3 DEF Heard

HeardInv == TypeOK /\ FlagAfterTick /\ Heard

LEMMA HeardStep ==
  ASSUME RestAfterHead, HeardInv, [Next]_vars
  PROVE  HeardInv'
<1> USE DEF HeardInv
<1>1. TypeOK'
  BY TypeStep
<1>2. FlagAfterTick'
  <2>1. CASE SendByte \/ LoseByte
    <3>1. gap \in Nat /\ gap' = gap + 1
      BY <2>1 DEF SendByte, LoseByte, NextByte, TypeOK
    <3> QED BY <3>1 DEF FlagAfterTick
  <2>2. CASE TickIdle
    BY <2>2 DEF TickIdle, receiver, FlagAfterTick
  <2>3. CASE TickText
    BY <2>3 DEF TickText, FlagAfterText, FlagAfterTick
  <2>4. CASE UNCHANGED vars
    BY <2>4 DEF vars, receiver, FlagAfterTick
  <2> QED BY <2>1, <2>2, <2>3, <2>4 DEF Next
<1>3. Heard'
  <2>1. CASE UNCHANGED <<sender, receiver, result, lostFrame>>
    BY <2>1 DEF sender, receiver, result, Heard, Collected, Waits, HasWhole, ShownBack
  <2>2. TickIdle \/ UNCHANGED vars => UNCHANGED <<sender, receiver, result, lostFrame>>
    BY DEF TickIdle, vars
  <2> QED BY <2>1, <2>2, HeardSend, HeardLose, HeardTick DEF Next
<1> QED BY <1>1, <1>2, <1>3

LEMMA HeardInvariant == ASSUME RestAfterHead PROVE Spec => []HeardInv
<1>1. Init => HeardInv
  BY InitTypeOK, HeardInit DEF HeardInv
<1>2. HeardInv /\ [Next]_vars => HeardInv'
  BY HeardStep
<1> QED BY <1>1, <1>2, PTL DEF Spec

(* For every buffer that holds a text, ticks of any distance and any       *)
(* losses: the bytes stored behind a text that waits (OpenART.c:66-78)     *)
(* cost no frame, and from the second frame after a loss on the car shows  *)
(* the last frame or, until the tick, the one before.                      *)
THEOREM NoneSkippedCorrect == ASSUME RestAfterHead PROVE Spec => []NoneSkipped
<1>1. HeardInv => NoneSkipped
  BY DEF HeardInv, TypeOK, Heard, ShownBack, NoneSkipped, Shown
<1> QED BY <1>1, HeardInvariant, PTL

-----------------------------------------------------------------------------
(* A line without losses.  The car comes in anywhere in the first frame.   *)

NoFace == face = [k \in Fields |-> {}]

(* Of a first frame that was not heard from its '[' the car has the last   *)
(* characters sent.                                                        *)
FirstCollected ==
  frame = 1 /\ lostFrame = 1 =>
    /\ pos >= 1 /\ art_uart_fifo_index < pos
    /\ \A i \in 1..SendLength :
         i <= art_uart_fifo_index =>
           art_uart_fifo_buffer[i-1] = Char(1, pos - 1 - art_uart_fifo_index + i)

(* A text that does not begin with a first character: sscanf assigns       *)
(* nothing.                                                                *)
Beheaded ==
  /\ ~(art_uart_fifo_buffer[0].kind = "char" /\ art_uart_fifo_buffer[0].pos = 1)
  /\ pos <= 1 /\ art_uart_fifo_index \in 1 + pos..SendLength + pos

FirstWaits ==
  frame = 2 /\ lostFrame = 1 /\ art_data_recv_finish_flag => NoFace /\ (Waits \/ Beheaded)

NothingYet == frame = 1 => ~art_data_recv_finish_flag /\ NoFace

(* The face is whole, and older than the text that waits. *)
OneFace ==
  \/ NoFace
  \/ \E g \in Nat : /\ face = [k \in Fields |-> {g}] /\ g < frame
                    /\ art_data_recv_finish_flag => g + 1 < frame

Quiet ==
  /\ lostFrame <= 1 /\ lostFrame <= frame
  /\ FirstCollected /\ FirstWaits /\ NothingYet /\ OneFace

LEMMA QuietInit == Init => Quiet
BY DEF Init, Quiet, FirstCollected, FirstWaits, NothingYet, OneFace, NoFace

LEMMA QuietSend ==
  ASSUME RestAfterHead, HeardInv, Quiet, SendByte
  PROVE  Quiet'
<1> USE DEF HeardInv, Quiet
<1>1. /\ frame \in Nat /\ lostFrame \in Nat /\ pos \in 0..SendLength + 1 /\ gap \in Nat
      /\ frame >= 1
      /\ art_uart_fifo_index \in 0..BufferLength-1
      /\ art_uart_fifo_buffer \in [0..BufferLength-1 -> ByteSet]
  BY DEF TypeOK
<1>2. /\ UNCHANGED <<face, lostFrame>>
      /\ art_receive_data_callback(CurrentByte)
      /\ pos = 1 => gap = 0
  BY DEF SendByte, result, NextByte, Rested, RestAfterHead
<1>3. \/ pos = SendLength + 1 /\ frame' = frame + 1 /\ pos' = 0
      \/ pos \in 0..SendLength /\ frame' = frame /\ pos' = pos + 1
  BY <1>1 DEF SendByte, NextByte
<1>4. pos # SendLength + 1 /\ ~art_data_recv_finish_flag => ~art_data_recv_finish_flag'
  <2>1. pos # SendLength + 1 => ~(CurrentByte.kind = "tail")
    BY <1>1 DEF CurrentByte, Mark, Char
  <2>2. CASE ReceiveAtEnd(CurrentByte)
    BY <2>2, Zenon DEF ReceiveAtEnd
  <2>3. CASE ReceiveBehind(CurrentByte)
    BY <2>3, Zenon DEF ReceiveBehind
  <2>4. CASE ReceiveByte(CurrentByte)
    BY <2>1, <2>4, Zenon DEF ReceiveByte
  <2> QED BY <1>2, <2>2, <2>3, <2>4 DEF art_receive_data_callback
<1>5. pos >= 1 /\ lostFrame <= frame => ~art_data_recv_finish_flag
  <2>1. CASE frame = lostFrame
    BY <2>1, <1>1 DEF NothingYet
  <2>2. CASE frame > lostFrame /\ pos >= 2
    BY <2>2 DEF Heard, Collected
  <2>3. CASE pos = 1
    BY <2>3, <1>2 DEF FlagAfterTick
  <2> QED BY <2>1, <2>2, <2>3, <1>1
<1>6. OneFace'
  <2>1. CASE NoFace
    BY <2>1, <1>2 DEF OneFace, NoFace
  <2>2. CASE ~NoFace
    <3>1. PICK g \in Nat : /\ face = [k \in Fields |-> {g}] /\ g < frame
                           /\ art_data_recv_finish_flag => g + 1 < frame
      BY <2>2 DEF OneFace
    <3>2. g < frame' /\ (art_data_recv_finish_flag' => g + 1 < frame')
      BY <3>1, <1>1, <1>3, <1>4
    <3> QED BY <3>1, <3>2, <1>2 DEF OneFace
  <2> QED BY <2>1, <2>2
<1>7. NothingYet'
  BY <1>1, <1>2, <1>3, <1>4 DEF NothingYet, NoFace
<1>8. FirstCollected'
  <2> SUFFICES ASSUME frame' = 1, lostFrame' = 1 PROVE FirstCollected'
    BY DEF FirstCollected
  <2>1. frame = 1 /\ lostFrame = 1 /\ pos \in 1..SendLength /\ pos' = pos + 1
    BY <1>1, <1>2, <1>3 DEF FirstCollected
  <2>2. art_uart_fifo_index < pos /\ ~art_data_recv_finish_flag
    BY <2>1, <1>5 DEF FirstCollected
  <2>3. ReceiveByte(Char(1, pos))
    BY <2>1, <2>2, <1>1, <1>2 DEF CurrentByte, art_receive_data_callback, ReceiveAtEnd, ReceiveBehind,
                                  Overrun
  <2>4. /\ art_uart_fifo_index' = art_uart_fifo_index + 1
        /\ art_uart_fifo_buffer' = [art_uart_fifo_buffer EXCEPT ![art_uart_fifo_index] = Char(1, pos)]
    BY <2>3 DEF ReceiveByte, Store, Char
  <2>5. ASSUME NEW i \in 1..SendLength, i <= art_uart_fifo_index + 1
        PROVE  art_uart_fifo_buffer'[i-1] = Char(1, pos - 1 - art_uart_fifo_index + i)
    <3>1. CASE i = art_uart_fifo_index + 1
      BY <3>1, <2>4, <1>1, <2>1
    <3>2. CASE i <= art_uart_fifo_index
      <4>1. art_uart_fifo_buffer[i-1] = Char(1, pos - 1 - art_uart_fifo_index + i)
        BY <3>2, <2>1 DEF FirstCollected
      <4> QED BY <4>1, <3>2, <2>4, <1>1
    <3> QED BY <3>1, <3>2, <2>5, <1>1
  <2>6. pos' - 1 - art_uart_fifo_index' = pos - 1 - art_uart_fifo_index
    BY <2>1, <2>4, <1>1
  <2> QED BY <2>1, <2>2, <2>4, <2>5, <2>6, <1>1 DEF FirstCollected
<1>9. FirstWaits'
  <2> SUFFICES ASSUME frame' = 2, lostFrame' = 1, art_data_recv_finish_flag'
               PROVE  NoFace' /\ (Waits \/ Beheaded)'
    BY DEF FirstWaits
  <2>1. CASE frame = 1
    <3>1. /\ pos = SendLength + 1 /\ pos' = 0 /\ NoFace'
          /\ ~art_data_recv_finish_flag /\ art_uart_fifo_index <= SendLength
      BY <2>1, <1>1, <1>2, <1>3, <1>5 DEF NothingYet, NoFace, FirstCollected
    <3>2. ReceiveByte(Mark("tail"))
      <4>1. art_receive_data_callback(Mark("tail"))
        BY <3>1, <1>2 DEF CurrentByte
      <4>2. ~Overrun(art_uart_fifo_index)
        BY <3>1, <1>1 DEF Overrun
      <4> QED BY <4>1, <4>2, <3>1 DEF art_receive_data_callback, ReceiveAtEnd, ReceiveBehind
    <3>3. /\ art_uart_fifo_index' = art_uart_fifo_index + 1
          /\ art_uart_fifo_buffer' = [art_uart_fifo_buffer EXCEPT ![art_uart_fifo_index] = Mark("tail")]
      BY <3>2 DEF ReceiveByte, Store, Mark
    <3>4. CASE art_uart_fifo_index = SendLength
      <4>1. ASSUME NEW i \in 1..SendLength PROVE art_uart_fifo_buffer'[i-1] = Char(frame' - 1, i)
        <5>1. art_uart_fifo_buffer[i-1] = Char(1, pos - 1 - art_uart_fifo_index + i)
          BY <3>4, <2>1, <1>2 DEF FirstCollected
        <5>2. pos - 1 - art_uart_fifo_index + i = i /\ frame' - 1 = 1
          BY <3>1, <3>4
        <5>3. i-1 # art_uart_fifo_index /\ i-1 \in 0..BufferLength-1
          BY <3>4
        <5> QED BY <5>1, <5>2, <5>3, <3>3, <1>1
      <4> QED BY <4>1, <3>1, <3>3, <3>4 DEF Waits, HasWhole
    <3>5. CASE art_uart_fifo_index \in 1..SendLength - 1
      <4>1. art_uart_fifo_buffer[0] = Char(1, pos - art_uart_fifo_index)
        <5>1. 1 \in 1..SendLength /\ pos - 1 - art_uart_fifo_index + 1 = pos - art_uart_fifo_index
          BY <3>1, <3>5
        <5>2. art_uart_fifo_buffer[1-1] = Char(1, pos - 1 - art_uart_fifo_index + 1)
          BY <3>5, <5>1, <2>1, <1>2 DEF FirstCollected
        <5> QED BY <5>1, <5>2
      <4>2. art_uart_fifo_buffer'[0] = Char(1, pos - art_uart_fifo_index)
        BY <4>1, <3>3, <3>5, <1>1
      <4>3. art_uart_fifo_buffer'[0].pos # 1
        BY <4>2, <3>1, <3>5 DEF Char
      <4> QED BY <4>3, <3>1, <3>3, <3>5 DEF Beheaded
    <3>6. CASE art_uart_fifo_index = 0
      <4>1. art_uart_fifo_buffer'[0] = Mark("tail")
        BY <3>3, <3>6, <1>1
      <4>2. art_uart_fifo_buffer'[0].kind # "char"
        BY <4>1 DEF Mark
      <4> QED BY <4>2, <3>1, <3>3, <3>6 DEF Beheaded
    <3> QED BY <3>1, <3>4, <3>5, <3>6, <1>1
  <2>2. CASE frame = 2
    <3>1. pos = 0 /\ pos' = 1 /\ frame' = frame /\ art_data_recv_finish_flag /\ NoFace'
      BY <2>2, <1>1, <1>2, <1>3, <1>4, <1>5 DEF FirstWaits, NoFace
    <3>2. art_receive_data_callback(Mark("head")) /\ Store(Mark("head"))
      <4>1. art_receive_data_callback(Mark("head"))
        BY <3>1, <1>2 DEF CurrentByte
      <4> QED BY <4>1, Zenon DEF art_receive_data_callback, ReceiveAtEnd, ReceiveBehind, ReceiveByte
    <3>3. CASE Waits
      <4>1. HasWhole(frame - 1) /\ art_uart_fifo_index = SendLength + 1
        BY <3>1, <3>3 DEF Waits
      <4>2. \/ SendLength + 2 < BufferLength /\ art_uart_fifo_index' = SendLength + 2
            \/ SendLength + 2 = BufferLength /\ art_uart_fifo_index' = 0
        <5>1. CASE ReceiveAtEnd(Mark("head"))
          BY <5>1, <4>1 DEF ReceiveAtEnd, Overrun
        <5>2. CASE ReceiveBehind(Mark("head"))
          BY <5>2, <4>1 DEF ReceiveBehind, Overrun
        <5> QED BY <5>1, <5>2, <3>1, <3>2 DEF art_receive_data_callback, ReceiveByte
      <4>3. ASSUME NEW i \in 1..SendLength PROVE art_uart_fifo_buffer'[i-1] = Char(frame' - 1, i)
        <5>1. i-1 # SendLength + 1 /\ i-1 \in 0..BufferLength-1
          OBVIOUS
        <5> QED BY <5>1, <4>1, <3>1, <3>2, <1>1 DEF Store, HasWhole
      <4> QED BY <4>2, <4>3, <3>1 DEF Waits, HasWhole
    <3>4. CASE Beheaded
      <4>1. art_uart_fifo_index \in 1..SendLength
        BY <3>1, <3>4 DEF Beheaded
      <4>2. ReceiveBehind(Mark("head"))
        BY <4>1, <3>1, <3>2 DEF art_receive_data_callback, ReceiveAtEnd, ReceiveByte, Overrun
      <4>3. art_uart_fifo_index' = art_uart_fifo_index + 1
        BY <4>2 DEF ReceiveBehind
      <4>4. art_uart_fifo_buffer'[0] = art_uart_fifo_buffer[0]
        BY <4>1, <3>2, <1>1 DEF Store
      <4> QED BY <4>1, <4>3, <4>4, <3>1, <3>4 DEF Beheaded
    <3> QED BY <3>1, <3>3, <3>4, <2>2, <1>2 DEF FirstWaits
  <2> QED BY <2>1, <2>2, <1>1, <1>3
<1>10. lostFrame' <= 1 /\ lostFrame' <= frame'
  BY <1>1, <1>2, <1>3
<1> QED BY <1>6, <1>7, <1>8, <1>9, <1>10

LEMMA QuietTick ==
  ASSUME RestAfterHead, HeardInv, Quiet, TickText
  PROVE  /\ Quiet'
         /\ \/ UNCHANGED face
            \/ /\ face' = [k \in Fields |-> {frame - 1}]
               /\ NoFace \/ \E g \in Nat : face = [k \in Fields |-> {g}] /\ g < frame - 1
               /\ frame - 1 >= 1
<1> USE DEF HeardInv, Quiet
<1>1. /\ frame \in Nat /\ lostFrame \in Nat /\ pos \in Nat /\ frame >= 1
      /\ face \in [Fields -> SUBSET Nat]
  BY DEF TypeOK
<1>2. /\ art_data_recv_finish_flag /\ ~art_data_recv_finish_flag'
      /\ UNCHANGED <<frame, pos, lostFrame>>
      /\ face' = ParseText(Terminated)
  BY DEF TickText, FlagAfterText, sender
<1>3. frame # 1
  BY <1>2 DEF NothingYet
<1>4. FirstCollected' /\ FirstWaits' /\ NothingYet'
  BY <1>2, <1>3 DEF FirstCollected, FirstWaits, NothingYet
<1>5. CASE Beheaded
  <2>1. art_uart_fifo_index >= 1 /\ 0 \in 0..BufferLength-1
    BY <1>1, <1>5 DEF Beheaded
  <2>2. ~(Terminated[0].kind = "char" /\ Terminated[0].pos = 1)
    <3>1. CASE art_uart_fifo_index = 1
      <4>1. Terminated[0] = Mark("nul")
        BY <3>1, <2>1 DEF Terminated, Nul
      <4>2. Mark("nul").kind # "char"
        BY DEF Mark
      <4> QED BY <4>1, <4>2
    <3>2. CASE art_uart_fifo_index # 1
      <4>1. Terminated[0] = art_uart_fifo_buffer[0]
        BY <3>2, <2>1 DEF Terminated
      <4> QED BY <4>1, <1>5 DEF Beheaded
    <3> QED BY <3>1, <3>2
  <2>3. ASSUME NEW k \in Fields PROVE k \notin FieldsAssigned(Terminated)
    <3>1. 1 \in 1..FieldEnd[k] /\ 1-1 = 0
      BY DEF Fields
    <3> QED BY <3>1, <2>2 DEF FieldsAssigned
  <2>4. UNCHANGED face
    BY <1>1, <1>2, <2>3 DEF ParseText
  <2>5. OneFace'
    <3>1. CASE NoFace
      BY <3>1, <2>4 DEF OneFace, NoFace
    <3>2. CASE ~NoFace
      BY <3>2, <2>4, <1>2 DEF OneFace
    <3> QED BY <3>1, <3>2
  <2> QED BY <1>2, <1>4, <2>4, <2>5
<1>6. CASE ~Beheaded
  <2>1. Waits
    <3>1. CASE frame > lostFrame + 1
      BY <3>1, <1>2 DEF Heard
    <3>2. CASE frame = 2 /\ lostFrame = 1
      BY <3>2, <1>2, <1>6 DEF FirstWaits
    <3> QED BY <3>1, <3>2, <1>1, <1>3
  <2>2. PICK f \in Nat : f = frame - 1
    BY <1>1
  <2>3. face' = [k \in Fields |-> {f}]
    BY <2>1, <2>2, WholeTextShown DEF Waits
  <2>4. OneFace'
    BY <2>2, <2>3, <1>1, <1>2 DEF OneFace
  <2>5. NoFace \/ \E g \in Nat : face = [k \in Fields |-> {g}] /\ g < frame - 1
    <3>1. CASE ~NoFace
      <4>1. PICK g \in Nat : face = [k \in Fields |-> {g}] /\ g + 1 < frame
        BY <3>1, <1>2 DEF OneFace
      <4>2. g < frame - 1
        BY <4>1, <1>1
      <4> QED BY <4>1, <4>2
    <3> QED BY <3>1
  <2> QED BY <1>1, <1>2, <1>3, <1>4, <2>2, <2>3, <2>4, <2>5
<1> QED BY <1>5, <1>6

QuietInv == HeardInv /\ (lost = 0 => Quiet)

LEMMA QuietStep ==
  ASSUME RestAfterHead, QuietInv, [Next]_vars
  PROVE  QuietInv'
<1>1. HeardInv' /\ TypeOK
  BY HeardStep DEF QuietInv, HeardInv
<1>2. CASE SendByte
  <2>1. lost' = lost
    BY <1>2 DEF SendByte
  <2> QED BY <1>1, <1>2, <2>1, QuietSend DEF QuietInv
<1>3. CASE LoseByte
  <2>1. lost' # 0
    BY <1>1, <1>3 DEF LoseByte, TypeOK
  <2> QED BY <1>1, <2>1 DEF QuietInv
<1>4. CASE TickText
  <2>1. lost' = lost
    BY <1>4 DEF TickText
  <2> QED BY <1>1, <1>4, <2>1, QuietTick DEF QuietInv
<1>5. CASE TickIdle \/ UNCHANGED vars
  <2>1. UNCHANGED <<sender, receiver, result, lost, lostFrame>>
    BY <1>5 DEF TickIdle, vars
  <2> QED BY <1>1, <2>1 DEF QuietInv, sender, receiver, result, Quiet, FirstCollected, FirstWaits,
                            NothingYet, OneFace, NoFace, Waits, HasWhole, Beheaded
<1> QED BY <1>2, <1>3, <1>4, <1>5 DEF Next

LEMMA QuietInvariant == ASSUME RestAfterHead PROVE Spec => []QuietInv
<1>1. Init => QuietInv
  BY InitTypeOK, HeardInit, QuietInit DEF QuietInv, HeardInv
<1>2. QuietInv /\ [Next]_vars => QuietInv'
  BY QuietStep
<1> QED BY <1>1, <1>2, PTL DEF Spec

(* The buffer has room for the '[' behind a text, as ART_READ_BUFFER_LEN   *)
(* has.                                                                    *)
RoomForHead == SendLength + 2 < BufferLength

(* OpenART.c:94-95: however long the text and the ticks, without losses    *)
(* the terminator never goes to the byte before the buffer.                *)
THEOREM TerminatorInBufferCorrect ==
  ASSUME RestAfterHead, RoomForHead PROVE Spec => []TerminatorInBuffer
<1> DEFINE IInv == QuietInv /\ TerminatorInBuffer
<1>1. Init => IInv
  BY InitTypeOK, HeardInit, QuietInit DEF QuietInv, HeardInv, Init, TerminatorInBuffer
<1>2. IInv /\ [Next]_vars => IInv'
  <2> SUFFICES ASSUME IInv, [Next]_vars PROVE IInv'
    OBVIOUS
  <2>1. QuietInv'
    BY QuietStep
  <2>2. CASE TickText
    <3> SUFFICES ASSUME lost = 0 PROVE art_uart_fifo_index # 0
      BY <2>1, <2>2 DEF TickText, TerminatorInBuffer
    <3>1. art_data_recv_finish_flag /\ Quiet /\ Heard
      BY <2>2 DEF TickText, QuietInv, HeardInv
    <3>2. Waits \/ Beheaded
      <4>1. CASE frame > lostFrame + 1
        BY <3>1, <4>1 DEF Heard
      <4>2. CASE frame = 2 /\ lostFrame = 1
        BY <3>1, <4>2 DEF Quiet, FirstWaits
      <4>3. frame # 1 /\ frame \in Nat /\ frame >= 1 /\ lostFrame \in Nat /\ lostFrame <= 1
        BY <3>1 DEF Quiet, NothingYet, QuietInv, HeardInv, TypeOK
      <4> QED BY <4>1, <4>2, <4>3
    <3>3. pos \in Nat
      BY DEF QuietInv, HeardInv, TypeOK
    <3> QED BY <3>2, <3>3 DEF Waits, Beheaded, RoomForHead
  <2>3. CASE SendByte \/ LoseByte
    <3>1. outside' = outside /\ (lost' = lost \/ lost' = lost + 1) /\ lost \in Nat
      BY <2>3 DEF SendByte, LoseByte, QuietInv, HeardInv, TypeOK
    <3> QED BY <2>1, <3>1 DEF TerminatorInBuffer
  <2>4. CASE TickIdle \/ UNCHANGED vars
    BY <2>1, <2>4 DEF TickIdle, vars, TerminatorInBuffer
  <2> QED BY <2>2, <2>3, <2>4 DEF Next
<1> QED BY <1>1, <1>2, PTL DEF Spec

-----------------------------------------------------------------------------
(* The link implements CubeRegister. *)

LEMMA RegisterInit == Init => Register!Init
BY DEF Init, Register!Init, Register!PowerOn

LEMMA DisturbedStep ==
  ASSUME QuietInv, [Next]_vars, lost > 0 \/ lost' > 0
  PROVE  [Register!Next]_<<face, frame - 1, lost > 0>>
<1>1. (lost' > 0) = TRUE
  BY DEF Next, SendByte, LoseByte, TickIdle, TickText, vars, QuietInv, HeardInv, TypeOK
<1> QED BY <1>1 DEF Register!Next, Register!Disturb

LEMMA RegisterStep ==
  ASSUME RestAfterHead, QuietInv, [Next]_vars
  PROVE  [Register!Next]_<<face, frame - 1, lost > 0>>
<1>1. CASE lost > 0 \/ lost' > 0
  BY <1>1, DisturbedStep
<1>2. CASE ~(lost > 0 \/ lost' > 0)
  <2>1. Quiet /\ HeardInv /\ frame \in Nat /\ lost = 0 /\ (lost > 0) = FALSE /\ (lost' > 0) = FALSE
    BY <1>2 DEF QuietInv, HeardInv, TypeOK
  <2>2. CASE SendByte
    <3>1. UNCHANGED face /\ (frame' = frame \/ frame' = frame + 1)
      BY <2>2 DEF SendByte, NextByte, result
    <3>2. CASE frame' = frame
      BY <2>1, <3>1, <3>2
    <3>3. CASE frame' = frame + 1
      <4>1. frame' - 1 = frame - 1 + 1
        BY <2>1, <3>3
      <4> QED BY <2>1, <3>1, <4>1 DEF Register!Next, Register!Publish
    <3> QED BY <3>1, <3>2, <3>3
  <2>3. CASE LoseByte
    BY <1>2, <2>1, <2>3 DEF LoseByte
  <2>4. CASE TickText
    <3>1. UNCHANGED frame
      BY <2>4 DEF TickText, sender
    <3>2. CASE UNCHANGED face
      BY <2>1, <3>1, <3>2
    <3>3. CASE /\ face' = [k \in Fields |-> {frame - 1}]
               /\ NoFace \/ \E g \in Nat : face = [k \in Fields |-> {g}] /\ g < frame - 1
               /\ frame - 1 >= 1
      <4>1. frame - 1 \in 1..frame - 1
        BY <2>1, <3>3
      <4>2. \A k \in Fields : \A g \in face[k] : g < frame - 1
        BY <3>3 DEF NoFace
      <4> QED BY <2>1, <3>1, <3>3, <4>1, <4>2
              DEF Register!Next, Register!Update, Register!NewerThanShown, Register!Whole
    <3> QED BY <2>1, <2>4, <3>2, <3>3, QuietTick
  <2>5. CASE TickIdle \/ UNCHANGED vars
    BY <2>1, <2>5 DEF TickIdle, vars, sender, result
  <2> QED BY <2>2, <2>3, <2>4, <2>5 DEF Next
<1> QED BY <1>1, <1>2

(* The face that motion control reads is a register as it takes for        *)
(* granted (OpenART.c:81-101): until a byte is lost, whole frames, each    *)
(* newer than the last, although the car came in anywhere in the first.    *)
THEOREM LinkImplementsRegister == ASSUME RestAfterHead PROVE Spec => RegisterSpec
<1>1. Init => Register!Init
  BY RegisterInit
<1>2. QuietInv /\ [Next]_vars => [Register!Next]_<<face, frame - 1, lost > 0>>
  BY RegisterStep
<1> QED BY <1>1, <1>2, QuietInvariant, PTL DEF Spec, RegisterSpec, Register!Spec, Register!vars
=============================================================================
