--------------------------- MODULE McxLink_proofs ---------------------------
(***************************************************************************)
(* Proofs about McxLink, for every value of its constants.                 *)
(***************************************************************************)
EXTENDS McxLink, TLAPS

(* The parsed fields of a full fifo are sets of frame numbers. *)
LEMMA ParseType ==
  ASSUME NEW buf \in Seq(CharSet), Len(buf) = DataLength,
         cube_info \in [Fields -> SUBSET Nat]
  PROVE  ParseFrame(buf) \in [Fields -> SUBSET Nat]
<1>1. SUFFICES ASSUME NEW k \in Fields, NEW i \in FieldStart(k)..FieldEnd[k]
               PROVE  buf[i].frame \in Nat
  BY DEF ParseFrame
<1>2. i \in 1..DataLength
  <2>1. FieldEnd[k] \in 1..DataLength
    BY McxLinkAssumption DEF Fields
  <2>2. CASE k = 1
    BY <2>1, <2>2 DEF FieldStart, Fields
  <2>3. CASE k # 1
    <3>1. FieldEnd[k-1] \in 1..DataLength
      BY <2>3, McxLinkAssumption DEF Fields
    <3> QED BY <2>1, <2>3, <3>1 DEF FieldStart
  <2> QED BY <2>2, <2>3
<1>3. buf[i] \in CharSet
  <2>1. i \in 1..Len(buf)
    BY <1>2
  <2> QED BY <2>1
<1> QED BY <1>3 DEF CharSet

(* What one received byte may do to the receiver: types are kept and the   *)
(* fifo stays within its buffer.                                           *)
LEMMA CallbackType ==
  ASSUME TypeOK, NEW b, b.char \in CharSet, mcx_receive_data_callback(b)
  PROVE  /\ mcx_init_flag' \in BOOLEAN
         /\ mcx_uart_fifo' \in Seq(CharSet)
         /\ Len(mcx_uart_fifo') <= BufferLength
         /\ mcx_data_recv_finish_flag' \in BOOLEAN
         /\ cube_info' \in [Fields -> SUBSET Nat]
<1> USE McxLinkAssumption
<1>1. CASE IgnoreByte
  BY <1>1 DEF mcx_receive_data_callback, IgnoreByte, TypeOK
<1>2. CASE ReceiveHead(b)
  BY <1>2 DEF mcx_receive_data_callback, ReceiveHead, TypeOK
<1>3. CASE ReceiveTail(b)
  BY <1>3 DEF mcx_receive_data_callback, ReceiveTail, TypeOK
<1>4. CASE ReceiveChar(b)
  BY <1>4 DEF mcx_receive_data_callback, ReceiveChar, fifo_write, TypeOK
<1> QED BY <1>1, <1>2, <1>3, <1>4 DEF mcx_receive_data_callback

LEMMA NextByteType ==
  ASSUME TypeOK, NextByte
  PROVE  frame' \in 1..MaxFrames + 1 /\ pos' \in 0..SendLength + 1 /\ gap' \in 0..BytesPerTick
BY McxLinkAssumption DEF TypeOK, NextByte

LEMMA InitTypeOK == Init => TypeOK
<1> USE McxLinkAssumption
<1> SUFFICES ASSUME Init PROVE TypeOK
  OBVIOUS
<1>1. mcx_uart_fifo \in Seq(CharSet) /\ Len(mcx_uart_fifo) <= BufferLength
  BY DEF Init
<1>2. cube_info \in [Fields -> SUBSET Nat]
  BY DEF Init
<1>3. /\ frame \in 1..MaxFrames + 1 /\ pos \in 0..SendLength + 1
      /\ gap \in 0..BytesPerTick /\ faults \in 0..MaxFaults /\ faultFrame \in 0..MaxFrames
  BY DEF Init
<1>4. mcx_init_flag \in BOOLEAN /\ mcx_data_recv_finish_flag \in BOOLEAN
  BY DEF Init
<1> QED BY <1>1, <1>2, <1>3, <1>4 DEF TypeOK

LEMMA TypeStep == ASSUME TypeOK, [Next]_vars PROVE TypeOK'
<1> USE McxLinkAssumption
<1>1. CASE InitDone
  BY <1>1 DEF InitDone, TypeOK, sender
<1>2. CASE SendByte
  <2>1. CurrentByte.char \in CharSet
    BY DEF CurrentByte, HeadByte, TailByte, CharByte, Illegible, Char, CharSet, TypeOK
  <2> QED BY <1>2, <2>1, CallbackType, NextByteType DEF SendByte, TypeOK
<1>3. CASE LoseByte
  BY <1>3, NextByteType DEF LoseByte, Spoil, NextByte, receiver, TypeOK
<1>4. CASE GarbleByte
  <2>1. PICK b \in {HeadByte, TailByte, CharByte(Illegible), CharByte(Char(0, pos))} :
          mcx_receive_data_callback(b)
    BY <1>4 DEF GarbleByte
  <2>2. b.char \in CharSet
    BY <2>1 DEF HeadByte, TailByte, CharByte, Illegible, Char, CharSet, TypeOK
  <2> QED BY <1>4, <2>1, <2>2, CallbackType, NextByteType
          DEF GarbleByte, Spoil, NextByte, TypeOK
<1>5. CASE TickIdle
  BY <1>5 DEF TickIdle, sender, receiver, TypeOK
<1>6. CASE TickFrame
  <2>1. /\ cube_info' \in [Fields -> SUBSET Nat]
        /\ mcx_uart_fifo' \in Seq(CharSet) /\ Len(mcx_uart_fifo') <= BufferLength
    <3>1. CASE LengthExpected(Len(mcx_uart_fifo))
      <4>1. cube_info' = ParseFrame(mcx_uart_fifo) /\ mcx_uart_fifo' = <<>>
        BY <1>6, <3>1 DEF TickFrame
      <4>2. ParseFrame(mcx_uart_fifo) \in [Fields -> SUBSET Nat]
        BY <3>1, ParseType DEF LengthExpected, TypeOK
      <4> QED BY <4>1, <4>2
    <3>2. CASE ~LengthExpected(Len(mcx_uart_fifo))
      BY <1>6, <3>2 DEF TickFrame, TypeOK
    <3> QED BY <3>1, <3>2
  <2>2. UNCHANGED <<frame, pos, mcx_init_flag, faults, faultFrame>> /\ gap' = 0
    BY <1>6 DEF TickFrame, sender
  <2>3. mcx_data_recv_finish_flag' \in BOOLEAN
    BY <1>6 DEF TickFrame
  <2> QED BY <2>1, <2>2, <2>3 DEF TypeOK
<1>7. CASE UNCHANGED vars
  BY <1>7 DEF vars, sender, receiver, TypeOK
<1> QED BY <1>1, <1>2, <1>3, <1>4, <1>5, <1>6, <1>7 DEF Next, Tick

(* The type invariant holds whatever the line does to the bytes: in        *)
(* particular mcx_uart_fifo never outgrows mcx_uart_fifo_buffer.           *)
THEOREM TypeCorrect == Spec => []TypeOK
<1>1. Init => TypeOK
  BY InitTypeOK
<1>2. TypeOK /\ [Next]_vars => TypeOK'
  BY TypeStep
<1> QED BY <1>1, <1>2, PTL DEF Spec

(* Before the handshake ends nothing has been received. *)
NothingBeforeInit ==
  ~mcx_init_flag => /\ mcx_uart_fifo = <<>>
                    /\ ~mcx_data_recv_finish_flag

LEMMA CallbackAnnounces ==
  ASSUME NEW b, mcx_receive_data_callback(b), NothingBeforeInit, AnnouncedLength
  PROVE  NothingBeforeInit' /\ AnnouncedLength'
<1> USE DEF AnnouncedLength, NothingBeforeInit, mcx_receive_data_callback
<1>1. CASE IgnoreByte
  BY <1>1 DEF IgnoreByte
<1>2. CASE ReceiveHead(b)
  BY <1>2 DEF ReceiveHead, Receptive
<1>3. CASE ReceiveTail(b)
  BY <1>3 DEF ReceiveTail, Receptive
<1>4. CASE ReceiveChar(b)
  BY <1>4 DEF ReceiveChar, Receptive
<1> QED BY <1>1, <1>2, <1>3, <1>4

LEMMA AnnounceStep ==
  ASSUME NothingBeforeInit, AnnouncedLength, [Next]_vars
  PROVE  NothingBeforeInit' /\ AnnouncedLength'
<1>1. CASE InitDone
  BY <1>1 DEF InitDone, AnnouncedLength, NothingBeforeInit
<1>2. CASE SendByte
  BY <1>2, CallbackAnnounces DEF SendByte
<1>3. CASE LoseByte
  BY <1>3 DEF LoseByte, receiver, AnnouncedLength, NothingBeforeInit
<1>4. CASE GarbleByte
  BY <1>4, CallbackAnnounces DEF GarbleByte
<1>5. CASE TickIdle
  BY <1>5 DEF TickIdle, receiver, AnnouncedLength, NothingBeforeInit
<1>6. CASE TickFrame
  BY <1>6 DEF TickFrame, AnnouncedLength, NothingBeforeInit
<1>7. CASE UNCHANGED vars
  BY <1>7 DEF vars, receiver, AnnouncedLength, NothingBeforeInit
<1> QED BY <1>1, <1>2, <1>3, <1>4, <1>5, <1>6, <1>7 DEF Next, Tick

(* Whatever the noise, a frame announced to the tick has the length of a   *)
(* frame: while the flag is up the interrupt leaves the fifo alone.        *)
THEOREM AnnouncedLengthCorrect == Spec => []AnnouncedLength
<1> DEFINE IInv == NothingBeforeInit /\ AnnouncedLength
<1>1. Init => IInv
  BY DEF Init, AnnouncedLength, NothingBeforeInit
<1>2. IInv /\ [Next]_vars => IInv'
  BY AnnounceStep
<1> QED BY <1>1, <1>2, PTL DEF Spec
-----------------------------------------------------------------------------
(* A sender that agrees with the receiver on the length: the setting of    *)
(* the integrity and staleness results, which speak of the line as long as *)
(* it is quiet.                                                            *)
SameLength == SendLength = DataLength

(* The characters collected so far are the last ones sent of the frame in  *)
(* progress, without a gap; Len = pos - 1 says its HEAD was seen.          *)
Collected ==
  ~mcx_data_recv_finish_flag /\ pos > 0 =>
    /\ Len(mcx_uart_fifo) < pos
    /\ \A i \in 1..Len(mcx_uart_fifo) :
         mcx_uart_fifo[i] = Char(frame, pos - 1 - Len(mcx_uart_fifo) + i)

(* What waits is a whole frame already sent, newer than all that is shown. *)
Waiting ==
  mcx_data_recv_finish_flag =>
    \E f \in 1..frame - 1 :
      /\ IsWhole(mcx_uart_fifo, f)
      /\ \A k \in Fields : \A g \in cube_info[k] : g < f

(* Only frames sent to their end are shown. *)
ShownEarlier == \A k \in Fields : \A g \in cube_info[k] : g < frame

QuietInv ==
  /\ TypeOK
  /\ NothingBeforeInit
  /\ Collected
  /\ Waiting
  /\ ShownEarlier

LEMMA QuietInit == Init => QuietInv
<1> SUFFICES ASSUME Init PROVE QuietInv
  OBVIOUS
<1>1. TypeOK
  BY InitTypeOK
<1>2. NothingBeforeInit /\ Collected /\ Waiting /\ ShownEarlier
  BY DEF Init, NothingBeforeInit, Collected, Waiting, ShownEarlier
<1> QED BY <1>1, <1>2 DEF QuietInv

(* One byte of a quiet line keeps the invariant. *)
LEMMA QuietSend ==
  ASSUME SameLength, QuietInv, SendByte
  PROVE  NothingBeforeInit' /\ Collected' /\ Waiting' /\ ShownEarlier'
<1> USE McxLinkAssumption DEF SameLength
<1>1. /\ frame \in Nat /\ pos \in Nat /\ pos <= DataLength + 1
      /\ mcx_uart_fifo \in Seq(CharSet) /\ Len(mcx_uart_fifo) \in Nat
  BY DEF QuietInv, TypeOK
<1>2. \/ pos <= DataLength /\ frame' = frame /\ pos' = pos + 1
      \/ pos = DataLength + 1 /\ frame' = frame + 1 /\ pos' = 0
  BY <1>1 DEF SendByte, NextByte
<1>3. UNCHANGED <<mcx_init_flag, cube_info>>
  BY DEF SendByte, mcx_receive_data_callback
<1>4. ShownEarlier'
  <2> SUFFICES ASSUME NEW k \in Fields, NEW g \in cube_info[k]
               PROVE  g < frame'
    BY <1>3 DEF ShownEarlier
  <2>1. g < frame /\ g \in Nat
    BY DEF QuietInv, ShownEarlier, TypeOK
  <2> QED BY <1>1, <1>2, <2>1
<1>5. CASE IgnoreByte
  <2>1. UNCHANGED <<mcx_uart_fifo, mcx_data_recv_finish_flag>>
    BY <1>5 DEF IgnoreByte
  <2>2. Collected'
    <3>1. CASE mcx_data_recv_finish_flag
      BY <3>1, <2>1 DEF Collected
    <3>2. CASE ~mcx_data_recv_finish_flag
      <4>1. mcx_uart_fifo' = <<>>
        BY <1>5, <2>1, <3>2 DEF IgnoreByte, Receptive, QuietInv, NothingBeforeInit
      <4> QED BY <4>1, <1>1, <1>2 DEF Collected
    <3> QED BY <3>1, <3>2
  <2>3. Waiting'
    <3> SUFFICES ASSUME mcx_data_recv_finish_flag
                 PROVE  \E f \in 1..frame' - 1 :
                          /\ IsWhole(mcx_uart_fifo, f)
                          /\ \A k \in Fields : \A g \in cube_info[k] : g < f
      BY <2>1, <1>3 DEF Waiting, IsWhole
    <3>1. PICK f \in 1..frame - 1 :
            /\ IsWhole(mcx_uart_fifo, f)
            /\ \A k \in Fields : \A g \in cube_info[k] : g < f
      BY DEF QuietInv, Waiting
    <3>2. f \in 1..frame' - 1
      BY <1>1, <1>2
    <3> QED BY <3>1, <3>2
  <2>4. NothingBeforeInit'
    BY <2>1, <1>3 DEF QuietInv, NothingBeforeInit
  <2> QED BY <2>2, <2>3, <2>4, <1>4
<1>6. CASE Receptive
  <2>1. mcx_init_flag /\ ~mcx_data_recv_finish_flag
    BY <1>6 DEF Receptive
  <2>2. NothingBeforeInit'
    BY <2>1, <1>3 DEF NothingBeforeInit
  <2>3. CASE pos = 0
    <3>1. ReceiveHead(CurrentByte)
      BY <1>6, <2>3 DEF SendByte, mcx_receive_data_callback, CurrentByte, HeadByte, TailByte,
                   CharByte, IgnoreByte, ReceiveTail, ReceiveChar
    <3>2. mcx_uart_fifo' = <<>> /\ ~mcx_data_recv_finish_flag'
      BY <3>1, <2>1 DEF ReceiveHead
    <3> QED BY <3>2, <1>4, <2>2, <1>1, <1>2, <2>3 DEF Collected, Waiting
  <2>4. CASE pos \in 1..DataLength
    <3>1. ReceiveChar(CurrentByte) /\ CurrentByte = CharByte(Char(frame, pos))
      BY <1>6, <2>4 DEF SendByte, mcx_receive_data_callback, CurrentByte, HeadByte, TailByte,
                   CharByte, IgnoreByte, ReceiveTail, ReceiveHead
    <3>2. Len(mcx_uart_fifo) < BufferLength
      BY <1>1, <2>1, <2>4 DEF QuietInv, Collected
    <3>3. mcx_uart_fifo' = Append(mcx_uart_fifo, Char(frame, pos)) /\ ~mcx_data_recv_finish_flag'
      BY <3>1, <3>2, <2>1 DEF ReceiveChar, fifo_write, CharByte
    <3>4. frame' = frame /\ pos' = pos + 1
      BY <1>1, <1>2, <2>4
    <3>5. Collected'
      <4>1. Len(mcx_uart_fifo') = Len(mcx_uart_fifo) + 1
        BY <3>3, <1>1
      <4>2. ASSUME NEW i \in 1..Len(mcx_uart_fifo')
            PROVE  mcx_uart_fifo'[i] = Char(frame, pos - 1 - Len(mcx_uart_fifo) + i)
        <5>1. CASE i \in 1..Len(mcx_uart_fifo)
          BY <5>1, <3>3, <1>1, <2>1, <2>4 DEF QuietInv, Collected
        <5>2. CASE i = Len(mcx_uart_fifo) + 1
          BY <5>2, <3>3, <1>1
        <5> QED BY <5>1, <5>2, <4>1, <1>1
      <4>3. Len(mcx_uart_fifo) < pos
        BY <2>1, <2>4 DEF QuietInv, Collected
      <4>4. pos' - 1 - Len(mcx_uart_fifo') = pos - 1 - Len(mcx_uart_fifo)
        BY <4>1, <3>4, <1>1
      <4> QED BY <4>1, <4>2, <4>3, <4>4, <3>4, <1>1 DEF Collected
    <3> QED BY <3>3, <3>5, <1>4, <2>2 DEF Waiting
  <2>5. CASE pos = DataLength + 1
    <3>1. ReceiveTail(CurrentByte)
      BY <1>6, <2>5 DEF SendByte, mcx_receive_data_callback, CurrentByte, HeadByte, TailByte,
                   CharByte, IgnoreByte, ReceiveHead, ReceiveChar
    <3>2. /\ mcx_uart_fifo' = mcx_uart_fifo
          /\ mcx_data_recv_finish_flag' = (Len(mcx_uart_fifo) = DataLength)
      BY <3>1 DEF ReceiveTail
    <3>3. frame' = frame + 1 /\ pos' = 0
      BY <1>1, <1>2, <2>5
    <3>4. Waiting'
      <4> SUFFICES ASSUME mcx_data_recv_finish_flag' PROVE Waiting'
        BY DEF Waiting
      <4>1. Len(mcx_uart_fifo) = DataLength
        BY <3>2
      <4>2. IsWhole(mcx_uart_fifo', frame)
        <5>1. \A i \in 1..DataLength :
                mcx_uart_fifo[i] = Char(frame, pos - 1 - DataLength + i)
          BY <4>1, <2>1, <2>5, <1>1 DEF QuietInv, Collected
        <5>2. \A i \in 1..DataLength : pos - 1 - DataLength + i = i
          BY <2>5
        <5> QED BY <5>1, <5>2, <4>1, <3>2 DEF IsWhole
      <4>3. frame \in 1..frame' - 1
        BY <3>3 DEF QuietInv, TypeOK
      <4>4. \A k \in Fields : \A g \in cube_info'[k] : g < frame
        BY <1>3 DEF QuietInv, ShownEarlier
      <4> QED BY <4>2, <4>3, <4>4 DEF Waiting, IsWhole
    <3> QED BY <3>3, <3>4, <1>4, <2>2 DEF Collected
  <2> QED BY <2>3, <2>4, <2>5, <1>1
<1>7. IgnoreByte \/ Receptive
  BY DEF SendByte, mcx_receive_data_callback, ReceiveHead, ReceiveTail, ReceiveChar
<1> QED BY <1>5, <1>6, <1>7

(* The tick turns a whole frame into a whole reading. *)
LEMMA WholeFrameShown ==
  ASSUME TickFrame, NEW f \in Nat, IsWhole(mcx_uart_fifo, f)
  PROVE  /\ cube_info' = [k \in Fields |-> {f}]
         /\ mcx_uart_fifo' = <<>>
         /\ ~mcx_data_recv_finish_flag'
<1> USE McxLinkAssumption
<1>1. cube_info' = ParseFrame(mcx_uart_fifo) /\ mcx_uart_fifo' = <<>>
  BY DEF TickFrame, LengthExpected, IsWhole
<1>2. ASSUME NEW k \in Fields
      PROVE  /\ k \in FieldsAssigned(mcx_uart_fifo)
             /\ {mcx_uart_fifo[i].frame : i \in FieldStart(k)..FieldEnd[k]} = {f}
  <2>1. FieldEnd[k] \in 1..DataLength
    BY DEF Fields
  <2>2. FieldStart(k) \in 1..FieldEnd[k]
    <3>1. CASE k = 1
      BY <2>1, <3>1 DEF FieldStart
    <3>2. CASE k # 1
      <4>1. k - 1 \in 1..Len(FieldEnd) /\ k \in 2..Len(FieldEnd)
        BY <3>2 DEF Fields
      <4>2. FieldEnd[k-1] \in 1..DataLength /\ FieldEnd[k-1] < FieldEnd[k]
        BY <4>1
      <4> QED BY <4>2, <2>1, <3>2 DEF FieldStart
    <3> QED BY <3>1, <3>2
  <2>3. \A i \in 1..FieldEnd[k] : mcx_uart_fifo[i].pos = i /\ mcx_uart_fifo[i].frame = f
    BY <2>1 DEF IsWhole, Char
  <2>4. k \in FieldsAssigned(mcx_uart_fifo)
    BY <2>3 DEF FieldsAssigned, Matched
  <2>5. FieldStart(k) \in Nat /\ FieldEnd[k] \in Nat
    BY <2>1, <2>2
  <2>6. FieldStart(k)..FieldEnd[k] \subseteq 1..FieldEnd[k]
    BY <2>2, <2>5
  <2>7. FieldEnd[k] \in FieldStart(k)..FieldEnd[k]
    BY <2>2, <2>5
  <2>8. {mcx_uart_fifo[i].frame : i \in FieldStart(k)..FieldEnd[k]} = {f}
    BY <2>3, <2>6, <2>7, Zenon
  <2> QED BY <2>4, <2>8
<1>3. cube_info' = [k \in Fields |-> {f}]
  BY <1>1, <1>2 DEF ParseFrame
<1> QED BY <1>1, <1>3 DEF TickFrame

LEMMA QuietTick ==
  ASSUME QuietInv, TickFrame
  PROVE  \E f \in 1..frame - 1 :
           /\ IsWhole(mcx_uart_fifo, f)
           /\ \A k \in Fields : \A g \in cube_info[k] : g < f
           /\ cube_info' = [k \in Fields |-> {f}]
           /\ mcx_uart_fifo' = <<>>
           /\ ~mcx_data_recv_finish_flag'
<1>1. PICK f \in 1..frame - 1 :
        /\ IsWhole(mcx_uart_fifo, f)
        /\ \A k \in Fields : \A g \in cube_info[k] : g < f
  BY DEF QuietInv, Waiting, TickFrame
<1>2. f \in Nat
  BY McxLinkAssumption DEF QuietInv, TypeOK
<1> QED BY <1>1, <1>2, WholeFrameShown

LEMMA QuietStep ==
  ASSUME SameLength, QuietInv, faults' = 0, [Next]_vars PROVE QuietInv'
<1>1. TypeOK'
  BY TypeStep DEF QuietInv
<1>2. NothingBeforeInit' /\ Collected' /\ Waiting' /\ ShownEarlier'
  <2>1. CASE InitDone
    <3>1. /\ ~mcx_data_recv_finish_flag /\ ~mcx_data_recv_finish_flag'
          /\ mcx_uart_fifo' = <<>> /\ mcx_init_flag'
          /\ UNCHANGED <<frame, pos, cube_info>>
      BY <2>1 DEF InitDone, QuietInv, NothingBeforeInit, sender
    <3> QED BY <3>1 DEF QuietInv, TypeOK, NothingBeforeInit, Collected, Waiting, ShownEarlier
  <2>2. CASE SendByte
    BY <2>2, QuietSend
  <2>3. CASE LoseByte \/ GarbleByte
    BY <2>3 DEF LoseByte, GarbleByte, Spoil, QuietInv, TypeOK
  <2>4. CASE TickIdle
    BY <2>4 DEF TickIdle, sender, receiver, QuietInv, NothingBeforeInit, Collected,
                Waiting, ShownEarlier, IsWhole
  <2>5. CASE TickFrame
    <3>1. PICK f \in 1..frame - 1 :
            /\ cube_info' = [k \in Fields |-> {f}]
            /\ mcx_uart_fifo' = <<>>
            /\ ~mcx_data_recv_finish_flag'
      BY <2>5, QuietTick
    <3>2. UNCHANGED <<frame, pos, mcx_init_flag>> /\ mcx_init_flag
      BY <2>5 DEF TickFrame, sender
    <3>3. frame \in Nat /\ pos \in Nat
      BY McxLinkAssumption DEF QuietInv, TypeOK
    <3>4. ShownEarlier'
      BY <3>1, <3>2, <3>3 DEF ShownEarlier
    <3> QED BY <3>1, <3>2, <3>3, <3>4 DEF NothingBeforeInit, Collected, Waiting
  <2>6. CASE UNCHANGED vars
    BY <2>6 DEF vars, sender, receiver, QuietInv, NothingBeforeInit, Collected,
                Waiting, ShownEarlier, IsWhole
  <2> QED BY <2>1, <2>2, <2>3, <2>4, <2>5, <2>6 DEF Next, Tick
<1> QED BY <1>1, <1>2 DEF QuietInv

(* Faults only grow in number. *)
LEMMA FaultsGrow ==
  ASSUME TypeOK, [Next]_vars PROVE faults' = 0 => faults = 0
<1>1. CASE LoseByte \/ GarbleByte
  BY <1>1, McxLinkAssumption DEF LoseByte, GarbleByte, Spoil, TypeOK
<1>2. CASE InitDone \/ SendByte \/ TickIdle \/ TickFrame \/ UNCHANGED vars
  BY <1>2 DEF InitDone, SendByte, TickIdle, TickFrame, vars
<1> QED BY <1>1, <1>2 DEF Next, Tick

LinkInv == TypeOK /\ (faults = 0 => QuietInv)

LEMMA LinkInit == Init => LinkInv
BY QuietInit DEF LinkInv, QuietInv

LEMMA LinkStep == ASSUME SameLength PROVE LinkInv /\ [Next]_vars => LinkInv'
BY TypeStep, FaultsGrow, QuietStep DEF LinkInv

LEMMA LinkInvariant == ASSUME SameLength PROVE Spec => []LinkInv
BY LinkInit, LinkStep, PTL DEF Spec

(* As long as the line is quiet, whatever waits for the tick is one whole  *)
(* frame, for every frame length, buffer length and speed of the wire.     *)
THEOREM FrameIntactCorrect == ASSUME SameLength PROVE Spec => []FrameIntact
<1>1. LinkInv => FrameIntact
  BY DEF LinkInv, QuietInv, Waiting, FrameIntact
<1> QED BY <1>1, LinkInvariant, PTL

-----------------------------------------------------------------------------
(* The link implements the register. *)

LEMMA RegisterInit == Init => Register!Init
BY DEF Init, Register!Init, Register!PowerOn

(* The first byte of a frame publishes a reading, a complete frame at the  *)
(* tick updates the register, every other step of a quiet line is a        *)
(* stutter.                                                                *)
LEMMA RegisterStep ==
  ASSUME SameLength, QuietInv, faults = 0, faults' = 0, [Next]_vars
  PROVE  [Register!Next]_Register!vars
<1> USE McxLinkAssumption
<1> DEFINE sent == IF pos = 0 THEN frame - 1 ELSE frame
<1>0. frame \in Nat \ {0} /\ pos \in Nat
  BY DEF QuietInv, TypeOK
<1>1. CASE InitDone
  BY <1>1 DEF InitDone, sender, Register!vars
<1>2. CASE SendByte
  <2>1. cube_info' = cube_info
    BY <1>2 DEF SendByte, mcx_receive_data_callback
  <2>2. \/ pos # SendLength + 1 /\ frame' = frame /\ pos' = pos + 1
        \/ pos = SendLength + 1 /\ frame' = frame + 1 /\ pos' = 0
    BY <1>2 DEF SendByte, NextByte
  <2>3. CASE pos = 0
    <3>1. sent' = sent + 1
      BY <2>2, <2>3, <1>0
    <3> QED BY <2>1, <3>1 DEF Register!Next, Register!Publish
  <2>4. CASE pos # 0
    <3>1. sent' = sent
      BY <2>2, <2>4, <1>0
    <3> QED BY <2>1, <3>1 DEF Register!vars
  <2> QED BY <2>3, <2>4
<1>3. CASE LoseByte \/ GarbleByte
  BY <1>3 DEF LoseByte, GarbleByte, Spoil, QuietInv, TypeOK
<1>4. CASE TickIdle
  BY <1>4 DEF TickIdle, sender, receiver, Register!vars
<1>5. CASE TickFrame
  <2>1. PICK f \in 1..frame - 1 :
          /\ \A k \in Fields : \A g \in cube_info[k] : g < f
          /\ cube_info' = [k \in Fields |-> {f}]
    BY <1>5, QuietTick
  <2>2. UNCHANGED <<frame, pos>>
    BY <1>5 DEF TickFrame, sender
  <2>3. sent' = sent /\ f \in 1..sent
    BY <2>2, <1>0
  <2> QED BY <2>1, <2>3
          DEF Register!Next, Register!Update, Register!NewerThanShown, Register!Whole
<1>6. CASE UNCHANGED vars
  BY <1>6 DEF vars, sender, receiver, Register!vars
<1> QED BY <1>1, <1>2, <1>3, <1>4, <1>5, <1>6 DEF Next, Tick

(* A step on, or to, a disturbed line. *)
LEMMA DisturbedStep ==
  ASSUME LinkInv, faults' # 0, [Next]_vars
  PROVE  [Register!Next]_Register!vars
<1>1. faults' > 0
  BY TypeStep DEF LinkInv, TypeOK
<1> QED BY <1>1 DEF Register!Next, Register!Disturb

(* Sender, interrupt and tick together implement the register that motion  *)
(* control reads: as long as the line is quiet, cube_info is never a       *)
(* mixture of two readings and never goes back to an older one.            *)
THEOREM LinkImplementsRegister == ASSUME SameLength PROVE Spec => RegisterSpec
<1>1. LinkInv /\ [Next]_vars => [Register!Next]_Register!vars
  BY RegisterStep, DisturbedStep, FaultsGrow DEF LinkInv
<1> QED BY <1>1, RegisterInit, LinkInvariant, PTL DEF Spec, RegisterSpec, Register!Spec

-----------------------------------------------------------------------------
(* Resynchronisation.  Two ticks are at most as far apart as a frame is    *)
(* long: 20 bytes against 38 on the car.  The invariant speaks of frames   *)
(* sent after the last disturbed one, whatever noise came before.          *)
SlowWire == BytesPerTick <= DataLength + 1

FaultOrder == faultFrame <= frame
BootOrder == ~mcx_init_flag => frame = 1 \/ (frame = 2 /\ pos = 0)

(* In a frame that follows the disturbed one, the characters collected are *)
(* of this frame: its HEAD emptied the fifo, or a tick did that took away  *)
(* what was waiting when the HEAD came.                                    *)
CollectedSince == frame > faultFrame => Collected

(* A frame that waits there is the previous one, or was announced in the   *)
(* disturbed frame; and it waits since the last tick only.                 *)
WaitsForTick ==
  mcx_data_recv_finish_flag /\ frame > faultFrame =>
    /\ pos < gap
    /\ frame = faultFrame + 1 \/ IsWhole(mcx_uart_fifo, frame - 1)

(* While nothing waits: a receiver that has followed the frame in progress *)
(* from its HEAD may have missed the frame before, one that has not may    *)
(* not.  In the second frame after the disturbed one it may have shown     *)
(* nothing yet only if it has followed that frame from its HEAD.           *)
Followed == pos = 0 \/ Len(mcx_uart_fifo) = pos - 1
Allowance == IF Followed THEN 2 ELSE 1
ShownSince ==
  \E f \in faultFrame + 1 .. frame : Shown(f) /\ frame <= f + Allowance
ShownRecently ==
  ~mcx_data_recv_finish_flag /\ frame > faultFrame + 1 =>
    \/ frame = faultFrame + 2 /\ Followed
    \/ ShownSince

ResyncInv ==
  /\ TypeOK /\ NothingBeforeInit /\ AnnouncedLength
  /\ FaultOrder /\ BootOrder
  /\ CollectedSince /\ WaitsForTick /\ ShownRecently

LEMMA ResyncInit == Init => ResyncInv
<1> SUFFICES ASSUME Init PROVE ResyncInv
  OBVIOUS
<1>1. TypeOK
  BY InitTypeOK
<1>2. NothingBeforeInit /\ AnnouncedLength /\ FaultOrder /\ BootOrder
  BY DEF Init, NothingBeforeInit, AnnouncedLength, FaultOrder, BootOrder
<1>3. CollectedSince /\ WaitsForTick /\ ShownRecently
  BY DEF Init, CollectedSince, Collected, WaitsForTick, ShownRecently
<1> QED BY <1>1, <1>2, <1>3 DEF ResyncInv

(* What the sender does in one byte time. *)
LEMMA ByteTime ==
  ASSUME SameLength, ResyncInv, NextByte
  PROVE  /\ frame \in Nat \ {0} /\ pos \in Nat /\ gap \in Nat /\ faultFrame \in Nat
         /\ gap < BytesPerTick /\ gap' = gap + 1
         /\ \/ pos <= DataLength /\ frame' = frame /\ pos' = pos + 1
            \/ pos = DataLength + 1 /\ frame' = frame + 1 /\ pos' = 0
         /\ mcx_init_flag \/ frame = 1
BY McxLinkAssumption DEF SameLength, ResyncInv, TypeOK, NextByte

(* A disturbed byte: everything the invariant says is about later frames.  *)
LEMMA ResyncFault ==
  ASSUME SameLength, ResyncInv, LoseByte \/ GarbleByte
  PROVE  FaultOrder' /\ BootOrder' /\ CollectedSince' /\ WaitsForTick' /\ ShownRecently'
<1>1. NextByte /\ faultFrame' = frame /\ mcx_init_flag' = mcx_init_flag
  BY DEF LoseByte, GarbleByte, Spoil, receiver, mcx_receive_data_callback
<1>2. frame' > faultFrame' => frame' = faultFrame' + 1 /\ pos' = 0 /\ pos' < gap'
  BY <1>1, ByteTime
<1>3. faultFrame' <= frame' /\ frame' <= faultFrame' + 1
  BY <1>1, ByteTime
<1>4. frame' \in Nat /\ faultFrame' \in Nat
  BY <1>1, ByteTime
<1>5. FaultOrder' /\ CollectedSince' /\ WaitsForTick' /\ ShownRecently'
  <2>1. FaultOrder'
    BY <1>3 DEF FaultOrder
  <2>2. CollectedSince'
    BY <1>2, <1>4 DEF CollectedSince, Collected
  <2>3. WaitsForTick'
    BY <1>2, <1>4 DEF WaitsForTick
  <2>4. ShownRecently'
    <3>1. ASSUME NEW f \in Nat, NEW g \in Nat, f <= g + 1 PROVE ~(f > g + 1)
      BY <3>1
    <3>2. ~(frame' > faultFrame' + 1)
      BY <1>3, <1>4, <3>1
    <3> QED BY <3>2 DEF ShownRecently
  <2> QED BY <2>1, <2>2, <2>3, <2>4
<1>6. BootOrder'
  BY <1>1, ByteTime, McxLinkAssumption DEF BootOrder
<1> QED BY <1>5, <1>6

(* An undisturbed byte. *)
LEMMA ResyncSend ==
  ASSUME SameLength, SlowWire, ResyncInv, SendByte
  PROVE  FaultOrder' /\ BootOrder' /\ CollectedSince' /\ WaitsForTick' /\ ShownRecently'
<1> USE McxLinkAssumption DEF SameLength
<1>1. /\ frame \in Nat \ {0} /\ pos \in Nat /\ gap \in Nat /\ faultFrame \in Nat
      /\ gap < BytesPerTick /\ gap' = gap + 1
      /\ \/ pos <= DataLength /\ frame' = frame /\ pos' = pos + 1
         \/ pos = DataLength + 1 /\ frame' = frame + 1 /\ pos' = 0
      /\ mcx_init_flag \/ frame = 1
  BY ByteTime DEF SendByte
<1>2. mcx_uart_fifo \in Seq(CharSet) /\ Len(mcx_uart_fifo) \in Nat /\ faultFrame <= frame
  BY DEF ResyncInv, TypeOK, FaultOrder
<1>3. UNCHANGED <<mcx_init_flag, cube_info, faultFrame>>
  BY DEF SendByte, mcx_receive_data_callback
<1>4. FaultOrder' /\ BootOrder'
  BY <1>1, <1>2, <1>3 DEF FaultOrder, BootOrder
<1>5. CASE mcx_data_recv_finish_flag
  <2>1. UNCHANGED <<mcx_uart_fifo, mcx_data_recv_finish_flag>>
    BY <1>5 DEF SendByte, mcx_receive_data_callback, IgnoreByte, ReceiveHead, ReceiveTail,
                ReceiveChar, Receptive
  <2>2. CollectedSince' /\ ShownRecently'
    BY <1>5, <2>1 DEF CollectedSince, Collected, ShownRecently
  <2>3. CASE frame > faultFrame
    <3>1. pos < gap /\ (frame = faultFrame + 1 \/ IsWhole(mcx_uart_fifo, frame - 1))
      BY <1>5, <2>3 DEF ResyncInv, WaitsForTick
    <3>2. frame' = frame /\ pos' < gap'
      BY <1>1, <3>1 DEF SlowWire
    <3> QED BY <1>3, <1>4, <2>1, <2>2, <3>1, <3>2 DEF WaitsForTick, IsWhole
  <2>4. CASE frame = faultFrame
    <3>1. frame' = faultFrame' \/ (frame' = faultFrame' + 1 /\ pos' = 0)
      BY <1>1, <1>3, <2>4
    <3>2. WaitsForTick'
      BY <1>1, <1>3, <2>4, <3>1 DEF WaitsForTick
    <3> QED BY <1>4, <2>2, <3>2
  <2> QED BY <1>1, <1>2, <2>3, <2>4
<1>6. CASE ~mcx_data_recv_finish_flag /\ ~mcx_init_flag
  <2>1. /\ UNCHANGED <<mcx_uart_fifo, mcx_data_recv_finish_flag>>
        /\ frame = 1 /\ mcx_uart_fifo = <<>>
    BY <1>1, <1>6 DEF SendByte, mcx_receive_data_callback, IgnoreByte, ReceiveHead, ReceiveTail,
                ReceiveChar, Receptive, ResyncInv, NothingBeforeInit
  <2>2. CollectedSince' /\ WaitsForTick'
    BY <1>1, <1>6, <2>1 DEF CollectedSince, Collected, WaitsForTick
  <2>3. ShownRecently'
    <3>1. CASE frame' = 1
      BY <3>1, <1>1, <1>3 DEF ShownRecently
    <3>2. CASE frame' = 2 /\ pos' = 0
      BY <3>2, <1>1, <1>3 DEF ShownRecently, Followed
    <3> QED BY <3>1, <3>2, <1>1, <2>1
  <2> QED BY <1>4, <2>2, <2>3
<1>7. CASE Receptive
  <2>0. mcx_init_flag /\ ~mcx_data_recv_finish_flag
    BY <1>7 DEF Receptive
  <2>1. ASSUME frame' = frame, Followed => Followed', ~mcx_data_recv_finish_flag'
        PROVE  ShownRecently'
    <3> SUFFICES ASSUME frame > faultFrame + 1
                 PROVE  (frame = faultFrame + 2 /\ Followed') \/ ShownSince'
      BY <2>1, <1>3 DEF ShownRecently
    <3>1. CASE frame = faultFrame + 2 /\ Followed
      BY <3>1, <2>1
    <3>2. CASE ShownSince
      <4>1. PICK f \in faultFrame + 1 .. frame : Shown(f) /\ frame <= f + Allowance
        BY <3>2 DEF ShownSince
      <4>2. frame <= f + Allowance'
        BY <4>1, <2>1, <1>1, <1>2 DEF Allowance
      <4>3. Shown(f)'
        BY <4>1, <1>3 DEF Shown
      <4> QED BY <4>1, <4>2, <4>3, <2>1, <1>3 DEF ShownSince
    <3> QED BY <3>1, <3>2, <2>0 DEF ResyncInv, ShownRecently
  <2>2. CASE pos = 0
    <3>1. ReceiveHead(CurrentByte)
      BY <1>7, <2>2 DEF SendByte, mcx_receive_data_callback, CurrentByte, HeadByte, TailByte,
                   CharByte, IgnoreByte, ReceiveTail, ReceiveChar
    <3>2. mcx_uart_fifo' = <<>> /\ ~mcx_data_recv_finish_flag'
      BY <3>1, <2>0 DEF ReceiveHead
    <3>3. frame' = frame /\ pos' = 1 /\ Followed'
      BY <1>1, <2>2, <3>2 DEF Followed
    <3>4. CollectedSince' /\ WaitsForTick'
      BY <3>2, <3>3 DEF CollectedSince, Collected, WaitsForTick
    <3> QED BY <1>4, <2>1, <3>2, <3>3, <3>4
  <2>3. CASE pos \in 1..DataLength
    <3>1. ReceiveChar(CurrentByte) /\ CurrentByte = CharByte(Char(frame, pos))
      BY <1>7, <2>3 DEF SendByte, mcx_receive_data_callback, CurrentByte, HeadByte, TailByte,
                   CharByte, IgnoreByte, ReceiveTail, ReceiveHead
    <3>2. ~mcx_data_recv_finish_flag'
      BY <3>1, <2>0 DEF ReceiveChar
    <3>3. frame' = frame /\ pos' = pos + 1
      BY <1>1, <2>3
    <3>4. ASSUME frame > faultFrame
          PROVE  /\ Len(mcx_uart_fifo) < pos
                 /\ mcx_uart_fifo' = Append(mcx_uart_fifo, Char(frame, pos))
                 /\ Len(mcx_uart_fifo') = Len(mcx_uart_fifo) + 1
      <4>1. Len(mcx_uart_fifo) < pos
        BY <2>0, <2>3, <3>4 DEF ResyncInv, CollectedSince, Collected
      <4>2. mcx_uart_fifo' = Append(mcx_uart_fifo, Char(frame, pos))
        BY <4>1, <2>3, <3>1, <1>2 DEF ReceiveChar, fifo_write, CharByte
      <4> QED BY <4>1, <4>2, <1>2
    <3>5. CollectedSince'
      <4> SUFFICES ASSUME frame > faultFrame PROVE Collected'
        BY <1>3, <3>3 DEF CollectedSince
      <4>0. Len(mcx_uart_fifo) < pos /\ Len(mcx_uart_fifo') = Len(mcx_uart_fifo) + 1
        BY <3>4
      <4>1. pos' - 1 - Len(mcx_uart_fifo') = pos - 1 - Len(mcx_uart_fifo)
        BY <3>3, <4>0, <1>1, <1>2
      <4>2. ASSUME NEW i \in 1..Len(mcx_uart_fifo')
            PROVE  mcx_uart_fifo'[i] = Char(frame, pos - 1 - Len(mcx_uart_fifo) + i)
        <5>1. CASE i \in 1..Len(mcx_uart_fifo)
          BY <5>1, <3>4, <1>1, <1>2, <2>0, <2>3 DEF ResyncInv, CollectedSince, Collected
        <5>2. CASE i = Len(mcx_uart_fifo) + 1
          BY <5>2, <3>4, <1>1, <1>2
        <5> QED BY <5>1, <5>2, <3>4, <1>2
      <4>3. Len(mcx_uart_fifo') < pos'
        BY <3>3, <4>0, <1>1, <1>2
      <4> QED BY <3>3, <4>1, <4>2, <4>3 DEF Collected
    <3>6. ShownRecently'
      <4>1. CASE frame > faultFrame
        <5>1. Followed => Followed'
          BY <3>3, <3>4, <4>1, <2>3, <1>1, <1>2 DEF Followed
        <5> QED BY <5>1, <2>1, <3>2, <3>3
      <4>2. CASE ~(frame > faultFrame)
        BY <4>2, <3>3, <1>1, <1>3 DEF ShownRecently
      <4> QED BY <4>1, <4>2
    <3> QED BY <1>4, <3>2, <3>5, <3>6 DEF WaitsForTick
  <2>4. CASE pos = DataLength + 1
    <3>1. ReceiveTail(CurrentByte)
      BY <1>7, <2>4 DEF SendByte, mcx_receive_data_callback, CurrentByte, HeadByte, TailByte,
                   CharByte, IgnoreByte, ReceiveHead, ReceiveChar
    <3>2. /\ mcx_uart_fifo' = mcx_uart_fifo
          /\ mcx_data_recv_finish_flag' = (Len(mcx_uart_fifo) = DataLength)
      BY <3>1 DEF ReceiveTail
    <3>3. frame' = frame + 1 /\ pos' = 0 /\ 0 < gap'
      BY <1>1, <2>4
    <3>4. CollectedSince'
      BY <3>3 DEF CollectedSince, Collected
    <3>5. WaitsForTick'
      <4> SUFFICES ASSUME mcx_data_recv_finish_flag', frame' > faultFrame
                   PROVE  frame' = faultFrame + 1 \/ IsWhole(mcx_uart_fifo, frame)
        BY <1>1, <1>3, <3>2, <3>3 DEF WaitsForTick, IsWhole
      <4>1. CASE frame > faultFrame
        <5>1. Len(mcx_uart_fifo) = DataLength
          BY <3>2
        <5>2. \A i \in 1..DataLength : mcx_uart_fifo[i] = Char(frame, pos - 1 - DataLength + i)
          BY <5>1, <4>1, <2>0, <2>4, <1>1 DEF ResyncInv, CollectedSince, Collected
        <5>3. \A i \in 1..DataLength : pos - 1 - DataLength + i = i
          BY <2>4
        <5> QED BY <5>1, <5>2, <5>3 DEF IsWhole
      <4>2. CASE frame = faultFrame
        BY <4>2, <3>3
      <4> QED BY <4>1, <4>2, <1>1, <1>2
    <3>6. ShownRecently'
      <4> SUFFICES ASSUME ~mcx_data_recv_finish_flag', frame > faultFrame + 1
                   PROVE  ShownSince'
        <5>1. Followed'
          BY <3>3 DEF Followed
        <5> QED BY <5>1, <3>3, <1>1, <1>3 DEF ShownRecently
      <4>1. ~Followed
        <5>1. Len(mcx_uart_fifo) # DataLength
          BY <3>2
        <5> QED BY <5>1, <2>4 DEF Followed
      <4>2. PICK f \in faultFrame + 1 .. frame : Shown(f) /\ frame <= f + 1
        BY <4>1, <2>0 DEF ResyncInv, ShownRecently, ShownSince, Allowance
      <4>3. Shown(f)' /\ f \in faultFrame' + 1 .. frame'
        BY <4>2, <1>1, <1>3, <3>3 DEF Shown
      <4>4. frame' <= f + Allowance'
        BY <4>2, <3>3, <1>1 DEF Allowance, Followed
      <4> QED BY <4>3, <4>4 DEF ShownSince
    <3> QED BY <1>4, <3>4, <3>5, <3>6
  <2> QED BY <2>2, <2>3, <2>4, <1>1
<1> QED BY <1>5, <1>6, <1>7 DEF Receptive

(* A tick that finds a frame. *)
LEMMA ResyncTick ==
  ASSUME SameLength, ResyncInv, TickFrame
  PROVE  FaultOrder' /\ BootOrder' /\ CollectedSince' /\ WaitsForTick' /\ ShownRecently'
<1>1. /\ UNCHANGED <<frame, pos, mcx_init_flag, faultFrame>>
      /\ mcx_init_flag /\ mcx_data_recv_finish_flag /\ ~mcx_data_recv_finish_flag'
  BY DEF TickFrame, sender
<1>2. mcx_uart_fifo' = <<>>
  BY DEF TickFrame, LengthExpected, ResyncInv, AnnouncedLength
<1>3. frame \in Nat /\ pos \in Nat /\ faultFrame \in Nat
  BY McxLinkAssumption DEF ResyncInv, TypeOK
<1>4. FaultOrder' /\ BootOrder'
  BY <1>1 DEF ResyncInv, FaultOrder, BootOrder
<1>5. CollectedSince' /\ WaitsForTick'
  BY <1>1, <1>2, <1>3 DEF CollectedSince, Collected, WaitsForTick
<1>6. ShownRecently'
  <2> SUFFICES ASSUME frame > faultFrame + 1 PROVE ShownSince'
    BY <1>1 DEF ShownRecently
  <2>1. IsWhole(mcx_uart_fifo, frame - 1)
    BY <1>1, <1>3 DEF ResyncInv, WaitsForTick
  <2>2. PICK f \in faultFrame + 1 .. frame : f = frame - 1
    BY <1>3
  <2>3. cube_info' = [k \in Fields |-> {f}]
    <3>1. f \in Nat /\ IsWhole(mcx_uart_fifo, f)
      BY <2>1, <2>2, <1>3
    <3> QED BY <3>1, WholeFrameShown
  <2>4. f \in faultFrame' + 1 .. frame' /\ frame' <= f + Allowance'
    BY <1>1, <1>3, <2>2 DEF Allowance
  <2> QED BY <2>3, <2>4 DEF ShownSince, Shown
<1> QED BY <1>4, <1>5, <1>6

LEMMA ResyncStep ==
  ASSUME SameLength, SlowWire, ResyncInv, [Next]_vars PROVE ResyncInv'
<1>1. TypeOK' /\ NothingBeforeInit' /\ AnnouncedLength'
  BY TypeStep, AnnounceStep DEF ResyncInv
<1>2. FaultOrder' /\ BootOrder' /\ CollectedSince' /\ WaitsForTick' /\ ShownRecently'
  <2>1. CASE InitDone
    <3>1. /\ ~mcx_init_flag /\ ~mcx_data_recv_finish_flag /\ ~mcx_data_recv_finish_flag'
          /\ mcx_uart_fifo = <<>> /\ mcx_uart_fifo' = <<>> /\ mcx_init_flag'
          /\ UNCHANGED <<frame, pos, cube_info, faultFrame>>
      BY <2>1 DEF InitDone, ResyncInv, NothingBeforeInit, sender
    <3>2. pos \in Nat
      BY McxLinkAssumption DEF ResyncInv, TypeOK
    <3> QED BY <3>1, <3>2 DEF ResyncInv, FaultOrder, BootOrder, CollectedSince, Collected,
                 WaitsForTick, ShownRecently, ShownSince, Followed, Allowance, Shown
  <2>2. CASE SendByte
    BY <2>2, ResyncSend
  <2>3. CASE LoseByte \/ GarbleByte
    BY <2>3, ResyncFault
  <2>4. CASE TickIdle
    <3>1. UNCHANGED <<frame, pos, mcx_init_flag, mcx_uart_fifo, mcx_data_recv_finish_flag,
                      cube_info, faultFrame>> /\ ~mcx_data_recv_finish_flag
      BY <2>4 DEF TickIdle, sender, receiver, ResyncInv, NothingBeforeInit
    <3> QED BY <3>1 DEF ResyncInv, FaultOrder, BootOrder, CollectedSince, Collected,
                 WaitsForTick, ShownRecently, ShownSince, Followed, Allowance, Shown
  <2>5. CASE TickFrame
    BY <2>5, ResyncTick
  <2>6. CASE UNCHANGED vars
    BY <2>6 DEF vars, sender, receiver, ResyncInv, FaultOrder, BootOrder, CollectedSince,
                Collected, WaitsForTick, IsWhole, ShownRecently, ShownSince, Followed,
                Allowance, Shown
  <2> QED BY <2>1, <2>2, <2>3, <2>4, <2>5, <2>6 DEF Next, Tick
<1> QED BY <1>1, <1>2 DEF ResyncInv

(* With ticks no further apart than a frame, the receiver is synchronised  *)
(* again in the second frame after the last disturbed one, whatever the    *)
(* noise was, and from then on the bytes that the interrupt drops while a  *)
(* frame waits never cost two frames in a row.                             *)
THEOREM ResyncCorrect == ASSUME SameLength, SlowWire PROVE Spec => []ResyncAfterFault
<1>1. ResyncInv => ResyncAfterFault
  <2> SUFFICES ASSUME ResyncInv, frame > faultFrame + 2
               PROVE  \E f \in faultFrame + 1 .. frame : frame <= f + 2 /\ Newest(f)
    BY DEF ResyncAfterFault
  <2>1. frame \in Nat /\ faultFrame \in Nat
    BY McxLinkAssumption DEF ResyncInv, TypeOK
  <2>2. CASE mcx_data_recv_finish_flag
    <3>1. IsWhole(mcx_uart_fifo, frame - 1)
      BY <2>1, <2>2 DEF ResyncInv, WaitsForTick
    <3> QED BY <2>1, <2>2, <3>1 DEF Newest
  <2>3. CASE ~mcx_data_recv_finish_flag
    <3>1. PICK f \in faultFrame + 1 .. frame : Shown(f) /\ frame <= f + Allowance
      BY <2>1, <2>3 DEF ResyncInv, ShownRecently, ShownSince
    <3>2. frame <= f + 2
      BY <2>1, <3>1 DEF Allowance
    <3> QED BY <3>1, <3>2 DEF Newest
  <2> QED BY <2>2, <2>3
<1>2. ResyncInv /\ [Next]_vars => ResyncInv'
  BY ResyncStep
<1> QED BY <1>1, <1>2, ResyncInit, PTL DEF Spec
=============================================================================
