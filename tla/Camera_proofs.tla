---------------------------- MODULE Camera_proofs ----------------------------
(***************************************************************************)
(* Proofs about Camera, for pictures of any number of rows, any number of  *)
(* frames and any number of interrupts that are late by a frame.           *)
(***************************************************************************)
EXTENDS Camera, TLAPS

USE CameraAssumption DEF CameraAssumption, Images, Registers, Active, QueueSize, NoFrame

-----------------------------------------------------------------------------
(* The inductive invariant. *)

SensorOK ==
  /\ fb \in [Registers -> Images] /\ doneFlags \in SUBSET Registers
  /\ turn \in Registers /\ target \in Images
  /\ frame \in 1..MaxFrames + 1 /\ row \in 0..Rows - 1 /\ skips \in 0..MaxSkips
  /\ memory \in [Images -> [1..Rows -> 0..MaxFrames]]
  /\ newest \in 0..MaxFrames /\ newest <= frame - 1
  /\ mt9v03x_image \in Images

MainOK ==
  /\ pc \in {"poll", "clear", "call", "copying", "process"}
  /\ source \in Images /\ copied \in 0..Rows
  /\ image_buffer \in [1..Rows -> 0..MaxFrames]
  /\ races \in {0, 1} /\ races <= MaxRaces /\ began \in 0..MaxFrames

FlagsOK == mt9v03x_finish_flag \in BOOLEAN /\ follow \in BOOLEAN /\ inStep \in BOOLEAN

(* What the interface has written: the frame in progress and, until its    *)
(* interrupt is handled, the frame before it, in so far as the one in      *)
(* progress does not go to the same buffer.                                *)
Overwritten(image) == IF fb[turn] = image THEN row ELSE 0
Holds(image) ==
  \A r \in 1..Rows : memory[image][r] = IF r <= Overwritten(image) THEN frame ELSE frame - 1

SensorInv ==
  /\ newest = frame - 1 => doneFlags = {} /\ Holds(mt9v03x_image)
  /\ turn \in doneFlags => doneFlags = Registers
  /\ row > 0 => target = fb[turn]
  /\ \A r \in 1..row : memory[fb[turn]][r] = frame
  /\ \A d \in Registers : doneFlags = {d} => Holds(fb[d])
  /\ \A i \in Images : \A r \in 1..Rows :
       /\ memory[i][r] <= frame
       /\ memory[i][r] = frame => i = fb[turn] /\ r <= row

(* No more than one row arrives while a copy is made: until then nothing   *)
(* changes; after it either a frame was finished or the copy goes on from  *)
(* the buffer that is shown.                                               *)
RaceInv ==
  pc = "copying" =>
    /\ races = 0 => /\ source = mt9v03x_image /\ doneFlags = {} /\ began = newest
                    /\ inStep <=> newest = frame - 1
    /\ races = 1 /\ doneFlags # {} => row = 0 /\ doneFlags # Registers
    /\ races = 1 /\ doneFlags = {} /\ source # mt9v03x_image => row = 0 /\ newest = frame - 1

(* A picture whose first m rows are of the frame behind the one that was   *)
(* the last when the copy began.                                           *)
Torn(picture, n, m) == \A r \in 1..n : picture[r] = IF r <= m THEN began + 1 ELSE began

CopyInv ==
  /\ pc = "copying" /\ inStep /\ races = 0 => Torn(image_buffer, copied, Overwritten(source))
  /\ pc = "copying" /\ inStep /\ races = 1 =>
       \E m \in 0..Rows :
         /\ Torn(memory[source], Rows, m)
         /\ \/ Torn(image_buffer, copied, m)
            \/ m >= 1 /\ m <= copied /\ Torn(image_buffer, copied, m - 1)
  /\ PictureOfTwo

OlderInv ==
  /\ \A r \in 1..Rows :
       /\ image_buffer[r] <= memory[mt9v03x_image][r]
       /\ image_buffer[r] <= frame
       /\ doneFlags # {} => image_buffer[r] <= frame - 1
  /\ pc = "copying" => \A r \in copied + 1..Rows : image_buffer[r] <= memory[source][r]

IInv == SensorOK /\ MainOK /\ FlagsOK /\ NothingPilesUp /\ SensorInv /\ RaceInv
        /\ CopyInv /\ OlderInv /\ NoneMissed

-----------------------------------------------------------------------------
(* The steps in the terms of the invariant. *)

LEMMA Others ==
  /\ \A i \in Images : TheOther(Images, i) \in Images /\ TheOther(Images, i) # i
  /\ \A d \in Registers : TheOther(Registers, d) \in Registers /\ TheOther(Registers, d) # d
BY DEF TheOther

(* The full buffer is shown, the register gets the other one, and the      *)
(* driver's stack and queue are as empty as before.                        *)
LEMMA DoneStep ==
  ASSUME SensorOK, NothingPilesUp, NEW done \in Registers, FrameDone(done)
  PROVE  /\ doneFlags = {done} /\ doneFlags' = {}
         /\ mt9v03x_image' = fb[done] /\ mt9v03x_finish_flag' = TRUE /\ newest' = frame - 1
         /\ fb' = [fb EXCEPT ![done] = TheOther(Images, fb[done])]
         /\ NothingPilesUp'
         /\ UNCHANGED <<sensor, follow, mainVars, races, skips>>
<1>1. activeBufferNum = Active /\ Len(frameBufferQueue) < QueueSize
  BY DEF NothingPilesUp
<1> DEFINE queue == Append(frameBufferQueue, fb[done])
<1>2. Head(queue) = fb[done] /\ Tail(queue) = <<>>
  BY DEF NothingPilesUp
<1>3. /\ mt9v03x_image' = fb[done] /\ mt9v03x_finish_flag' = TRUE /\ newest' = frame - 1
      /\ frameBufferQueue' = <<>> /\ doneFlags = {done} /\ doneFlags' = {}
      /\ Refill(frameBufferAddr \o GivesBack(fb[done]), 1, done)
      /\ UNCHANGED <<sensor, follow, mainVars, races, skips>>
  BY <1>1, <1>2 DEF FrameDone, Shows, NothingPilesUp
<1> DEFINE back == <<TheOther(Images, fb[done])>>
<1>4. frameBufferAddr \o GivesBack(fb[done]) = back
  BY DEF NothingPilesUp, GivesBack
<1>5. Len(back) = 1 /\ back # <<>> /\ back[1] = TheOther(Images, fb[done]) /\ SubSeq(back, 1, 0) = <<>>
  OBVIOUS
<1>6. /\ fb' = [fb EXCEPT ![done] = TheOther(Images, fb[done])]
      /\ frameBufferAddr' = <<>> /\ activeBufferNum' = 2
  <2> HIDE DEF back
  <2> QED BY <1>3, <1>4, <1>5 DEF Refill
<1> QED BY <1>3, <1>6 DEF NothingPilesUp

(* A row goes to the buffer of the register whose turn it is. *)
LEMMA RowStep ==
  ASSUME IInv, WriteRow
  PROVE  /\ frame <= MaxFrames
         /\ pc = "copying" => races = 0 /\ races' = 1
         /\ memory' = [memory EXCEPT ![fb[turn]] = [memory[fb[turn]] EXCEPT ![row + 1] = frame]]
         /\ target' = fb[turn]
         /\ UNCHANGED <<fb, csi_handle, mt9v03x_image, mt9v03x_finish_flag, follow, mainVars, newest>>
         /\ \/ row + 1 < Rows /\ row' = row + 1 /\ UNCHANGED <<doneFlags, turn, frame, skips>>
            \/ /\ row + 1 = Rows /\ row' = 0 /\ frame' = frame + 1
               /\ turn' \in Registers /\ turn' # turn /\ doneFlags' = doneFlags \union {turn}
<1>1. target' = fb[turn]
  BY DEF WriteRow, IInv, SensorInv, SensorOK
<1>2. memory' = [memory EXCEPT ![fb[turn]] = [memory[fb[turn]] EXCEPT ![row + 1] = frame]]
  BY <1>1 DEF WriteRow
<1>3. \/ row + 1 < Rows /\ row' = row + 1 /\ UNCHANGED <<doneFlags, turn, frame, skips>>
      \/ /\ row + 1 = Rows /\ row' = 0 /\ frame' = frame + 1
         /\ turn' \in Registers /\ turn' # turn /\ doneFlags' = doneFlags \union {turn}
  BY Others DEF WriteRow, IInv, SensorOK
<1>4. pc = "copying" => races = 0 /\ races' = 1
  BY DEF WriteRow, IInv, MainOK
<1> QED BY <1>1, <1>2, <1>3, <1>4 DEF WriteRow

LEMMA InitInv == Init => IInv
<1> SUFFICES ASSUME Init PROVE IInv
  OBVIOUS
<1> USE DEF Init
<1>1. SensorOK
  BY DEF SensorOK
<1>2. MainOK
  BY DEF MainOK
<1>6. FlagsOK
  BY DEF FlagsOK
<1>7. NothingPilesUp
  BY DEF NothingPilesUp
<1>3. SensorInv
  BY DEF SensorInv, Holds, Overwritten
<1>4. RaceInv /\ CopyInv /\ NoneMissed
  BY DEF RaceInv, CopyInv, PictureOfTwo, NoneMissed
<1>5. OlderInv
  BY DEF OlderInv
<1> QED BY <1>1, <1>2, <1>3, <1>4, <1>5, <1>6, <1>7 DEF IInv

-----------------------------------------------------------------------------
(* A row is written. *)

LEMMA RowSensor == ASSUME IInv, WriteRow PROVE SensorOK' /\ SensorInv'
<1>1. /\ memory[fb[turn]] \in [1..Rows -> 0..MaxFrames] /\ row + 1 \in 1..Rows
      /\ fb[turn] \in Images /\ memory \in [Images -> [1..Rows -> 0..MaxFrames]]
      /\ frame \in 0..MaxFrames
  <2>1. frame <= MaxFrames
    BY RowStep
  <2> QED BY <2>1 DEF IInv, SensorOK
<1>2. memory' \in [Images -> [1..Rows -> 0..MaxFrames]]
  <2> DEFINE rows == [memory[fb[turn]] EXCEPT ![row + 1] = frame]
  <2>1. rows \in [1..Rows -> 0..MaxFrames]
    BY <1>1
  <2>2. memory' = [memory EXCEPT ![fb[turn]] = rows]
    BY RowStep
  <2> HIDE DEF rows
  <2> QED BY <1>1, <2>1, <2>2
<1>3. \A i \in Images : \A r \in 1..Rows :
        memory'[i][r] = IF i = fb[turn] /\ r = row + 1 THEN frame ELSE memory[i][r]
  <2>1. memory' = [memory EXCEPT ![fb[turn]] = [memory[fb[turn]] EXCEPT ![row + 1] = frame]]
    BY RowStep
  <2> QED BY <1>1, <2>1
<1>4. skips' \in 0..MaxSkips
  BY DEF WriteRow, IInv, SensorOK
<1>5. SensorOK'
  <2>1. /\ target' = fb[turn] /\ UNCHANGED <<fb, mt9v03x_image, newest>>
        /\ \/ row + 1 < Rows /\ row' = row + 1 /\ UNCHANGED <<doneFlags, turn, frame>>
           \/ row' = 0 /\ frame' = frame + 1 /\ turn' \in Registers /\ doneFlags' = doneFlags \union {turn}
    BY RowStep
  <2>2. doneFlags' \in SUBSET Registers /\ turn' \in Registers
    <3>1. doneFlags \in SUBSET Registers /\ turn \in Registers
      BY DEF IInv, SensorOK
    <3>2. doneFlags \union {turn} \in SUBSET Registers
      BY <3>1
    <3> QED BY <2>1, <3>1, <3>2
  <2>3. frame' \in 1..MaxFrames + 1 /\ row' \in 0..Rows - 1 /\ newest' \in 0..MaxFrames /\ newest' <= frame' - 1
    <3>1. /\ frame \in 1..MaxFrames + 1 /\ row \in 0..Rows - 1 /\ newest \in 0..MaxFrames
          /\ newest <= frame - 1 /\ newest' = newest /\ frame <= MaxFrames
      BY <1>1, <2>1 DEF IInv, SensorOK
    <3>2. \/ row + 1 < Rows /\ row' = row + 1 /\ frame' = frame
          \/ row' = 0 /\ frame' = frame + 1
      BY <2>1
    <3> QED BY <3>1, <3>2
  <2> QED BY <1>1, <1>2, <1>4, <2>1, <2>2, <2>3 DEF IInv, SensorOK
<1>6. /\ turn \in Registers /\ row \in Nat /\ frame \in Nat /\ newest \in Nat /\ newest <= frame - 1
      /\ mt9v03x_image \in Images /\ doneFlags \in SUBSET Registers /\ \A d \in Registers : fb[d] \in Images
      /\ \A i \in Images : \A r \in 1..Rows : memory[i][r] \in Nat
  BY DEF IInv, SensorOK
<1>7. CASE row + 1 < Rows /\ row' = row + 1 /\ UNCHANGED <<doneFlags, turn, frame, skips>>
  <2>1. \A i \in Images : Holds(i) => Holds(i)'
    BY <1>3, <1>6, <1>7, RowStep DEF Holds, Overwritten
  <2>2. newest' = frame' - 1 => doneFlags' = {} /\ Holds(mt9v03x_image)'
    BY <1>6, <1>7, <2>1, RowStep DEF IInv, SensorInv, Holds, Overwritten
  <2>3. \A d \in Registers : doneFlags' = {d} => Holds(fb[d])'
    BY <1>6, <1>7, <2>1, RowStep DEF IInv, SensorInv, Holds, Overwritten
  <2>4. \A r \in 1..row' : memory'[fb'[turn']][r] = frame'
    BY <1>3, <1>6, <1>7, RowStep DEF IInv, SensorInv
  <2>5. \A i \in Images : \A r \in 1..Rows :
          memory'[i][r] <= frame' /\ (memory'[i][r] = frame' => i = fb'[turn'] /\ r <= row')
    BY <1>3, <1>6, <1>7, RowStep DEF IInv, SensorInv
  <2>6. (turn' \in doneFlags' => doneFlags' = Registers) /\ (row' > 0 => target' = fb'[turn'])
    BY <1>7, RowStep DEF IInv, SensorInv
  <2> QED BY <1>5, <2>2, <2>3, <2>4, <2>5, <2>6 DEF SensorInv
<1>8. CASE /\ row + 1 = Rows /\ row' = 0 /\ frame' = frame + 1
           /\ turn' \in Registers /\ turn' # turn /\ doneFlags' = doneFlags \union {turn}
  <2>1. newest' # frame' - 1
    BY <1>6, <1>8, RowStep
  <2>2. \A r \in 1..Rows : memory'[fb[turn]][r] = frame
    BY <1>3, <1>6, <1>8 DEF IInv, SensorInv
  <2>3. ASSUME NEW d \in Registers, doneFlags' = {d} PROVE Holds(fb[d])'
    <3>1. d = turn
      BY <1>8, <2>3
    <3> QED BY <1>6, <1>8, <2>2, <3>1, RowStep DEF Holds, Overwritten
  <2>4. turn' \in doneFlags' => doneFlags' = Registers
    BY <1>6, <1>8
  <2>5. \A i \in Images : \A r \in 1..Rows : memory'[i][r] <= frame
    BY <1>3, <1>6 DEF IInv, SensorInv
  <2>6. \A i \in Images : \A r \in 1..Rows :
          memory'[i][r] <= frame' /\ (memory'[i][r] = frame' => i = fb'[turn'] /\ r <= row')
    BY <1>2, <1>6, <1>8, <2>5
  <2>7. \A r \in 1..row' : memory'[fb'[turn']][r] = frame'
    BY <1>8
  <2>8. row' > 0 => target' = fb'[turn']
    BY <1>8
  <2> QED BY <1>5, <2>1, <2>3, <2>4, <2>6, <2>7, <2>8 DEF SensorInv
<1> QED BY <1>5, <1>7, <1>8, RowStep

(* During a copy a row comes at most once, to the buffer that is copied as *)
(* its next row, or to the other one.                                      *)
LEMMA RowCopy == ASSUME IInv, WriteRow PROVE RaceInv' /\ CopyInv'
<1> USE DEF mainVars
<1>1. PictureOfTwo'
  <2>1. UNCHANGED <<pc, inStep, image_buffer, began>>
    BY RowStep
  <2> QED BY <2>1 DEF IInv, CopyInv, PictureOfTwo
<1>2. CASE pc # "copying"
  <2>1. pc' # "copying"
    BY <1>2, RowStep
  <2> QED BY <1>1, <2>1 DEF RaceInv, CopyInv
<1>3. CASE pc = "copying"
  <2>1. /\ races = 0 /\ races' = 1
        /\ UNCHANGED <<pc, source, copied, inStep, began, image_buffer, mt9v03x_image, newest, fb>>
    BY <1>3, RowStep
  <2>2. /\ source = mt9v03x_image /\ doneFlags = {} /\ began = newest
        /\ inStep => newest = frame - 1 /\ Holds(source)
    BY <1>3, <2>1 DEF IInv, RaceInv, SensorInv
  <2>3. RaceInv'
    <3>1. doneFlags' # {} => row' = 0 /\ doneFlags' # Registers
      BY <2>2, RowStep
    <3> QED BY <2>1, <2>2, <3>1 DEF RaceInv
  <2>4. CopyInv'
    <3> SUFFICES ASSUME inStep
                 PROVE  \E m \in 0..Rows :
                          /\ Torn(memory[source], Rows, m)'
                          /\ \/ Torn(image_buffer, copied, m)
                             \/ m >= 1 /\ m <= copied /\ Torn(image_buffer, copied, m - 1)
      BY <1>1, <1>3, <2>1 DEF CopyInv, Torn
    <3>1. /\ row \in 0..Rows - 1 /\ copied \in 0..Rows /\ frame \in Nat /\ source \in Images
          /\ memory \in [Images -> [1..Rows -> 0..MaxFrames]] /\ fb[turn] \in Images
          /\ began = frame - 1 /\ began + 1 = frame
      BY <2>2 DEF IInv, SensorOK, MainOK
    <3>2. Torn(image_buffer, copied, Overwritten(source))
      BY <1>3, <2>1 DEF IInv, CopyInv
    <3>3. memory' = [memory EXCEPT ![fb[turn]] = [memory[fb[turn]] EXCEPT ![row + 1] = frame]]
      BY RowStep
    <3>4. CASE fb[turn] = source
      <4> PICK m \in 0..Rows : m = row + 1
        BY <3>1
      <4>1. \A r \in 1..Rows : memory'[source][r] = IF r <= m THEN began + 1 ELSE began
        BY <2>2, <3>1, <3>3, <3>4 DEF Holds, Overwritten
      <4>2. Torn(memory[source], Rows, m)'
        BY <2>1, <4>1 DEF Torn
      <4>3. m >= 1 /\ Torn(image_buffer, copied, m - 1)
        BY <3>1, <3>2, <3>4 DEF Overwritten
      <4>4. CASE m <= copied
        BY <4>2, <4>3, <4>4
      <4>5. CASE ~(m <= copied)
        <5>1. Torn(image_buffer, copied, m)
          BY <3>1, <4>3, <4>5 DEF Torn
        <5> QED BY <4>2, <5>1
      <4> QED BY <4>4, <4>5
    <3>5. CASE fb[turn] # source
      <4>1. \A r \in 1..Rows : memory'[source][r] = IF r <= 0 THEN began + 1 ELSE began
        BY <2>2, <3>1, <3>3, <3>5 DEF Holds, Overwritten
      <4>2. Torn(memory[source], Rows, 0)'
        BY <2>1, <4>1 DEF Torn
      <4>3. Torn(image_buffer, copied, 0)
        BY <3>2, <3>5 DEF Overwritten
      <4> QED BY <4>2, <4>3
    <3> QED BY <3>4, <3>5
  <2> QED BY <2>3, <2>4
<1> QED BY <1>2, <1>3

(* What is written is never older than what was read. *)
LEMMA RowOlder == ASSUME IInv, WriteRow PROVE OlderInv'
<1>1. /\ UNCHANGED <<pc, copied, source, image_buffer, mt9v03x_image>>
      /\ frame' = frame \/ (frame' = frame + 1)
      /\ doneFlags' # {} => frame' = frame + 1 \/ (doneFlags # {} /\ frame' = frame)
  <2>1. UNCHANGED <<pc, copied, source, image_buffer, mt9v03x_image>>
    BY RowStep DEF mainVars
  <2>2. UNCHANGED <<doneFlags, frame>> \/ frame' = frame + 1
    BY RowStep
  <2> QED BY <2>1, <2>2
<1>2. /\ frame \in Nat /\ row + 1 \in 1..Rows /\ fb[turn] \in Images
      /\ memory \in [Images -> [1..Rows -> 0..MaxFrames]]
      /\ image_buffer \in [1..Rows -> 0..MaxFrames] /\ copied \in 0..Rows
      /\ mt9v03x_image \in Images /\ source \in Images
  BY DEF IInv, SensorOK, MainOK
<1>3. \A i \in Images : \A r \in 1..Rows : memory[i][r] <= memory'[i][r]
  <2>1. memory' = [memory EXCEPT ![fb[turn]] = [memory[fb[turn]] EXCEPT ![row + 1] = frame]]
    BY RowStep
  <2>2. \A i \in Images : \A r \in 1..Rows : memory[i][r] <= frame /\ memory[i][r] \in Nat
    BY <1>2 DEF IInv, SensorInv
  <2> QED BY <1>2, <2>1, <2>2
<1>4. \A i \in Images : \A r \in 1..Rows : memory[i][r] \in Nat /\ memory'[i][r] \in Nat
  <2>1. SensorOK'
    BY RowSensor
  <2>2. memory' \in [Images -> [1..Rows -> 0..MaxFrames]]
    BY <2>1 DEF SensorOK
  <2>3. ASSUME NEW i \in Images, NEW r \in 1..Rows
        PROVE  memory[i][r] \in 0..MaxFrames /\ memory'[i][r] \in 0..MaxFrames
    <3>1. memory[i] \in [1..Rows -> 0..MaxFrames] /\ memory'[i] \in [1..Rows -> 0..MaxFrames]
      BY <1>2, <2>2
    <3> QED BY <3>1
  <2> QED BY <2>3
<1>5. \A r \in 1..Rows : image_buffer[r] \in Nat
  BY <1>2
<1>6. /\ \A r \in 1..Rows : image_buffer[r] <= memory[mt9v03x_image][r]
      /\ \A r \in 1..Rows : image_buffer[r] <= frame
      /\ \A r \in 1..Rows : doneFlags # {} => image_buffer[r] <= frame - 1
      /\ pc = "copying" => \A r \in copied + 1..Rows : image_buffer[r] <= memory[source][r]
  BY DEF IInv, OlderInv
<1>7. \A r \in 1..Rows : image_buffer[r] <= memory'[mt9v03x_image][r]
  <2> SUFFICES ASSUME NEW r \in 1..Rows PROVE image_buffer[r] <= memory'[mt9v03x_image][r]
    OBVIOUS
  <2>1. /\ image_buffer[r] \in Nat /\ memory[mt9v03x_image][r] \in Nat /\ memory'[mt9v03x_image][r] \in Nat
        /\ memory[mt9v03x_image][r] <= memory'[mt9v03x_image][r]
    BY <1>2, <1>3, <1>4, <1>5
  <2>2. image_buffer[r] <= memory[mt9v03x_image][r]
    BY <1>6
  <2> QED BY <2>1, <2>2
<1>8. \A r \in 1..Rows : image_buffer[r] <= frame' /\ (doneFlags' # {} => image_buffer[r] <= frame' - 1)
  BY <1>1, <1>2, <1>5, <1>6
<1>9. pc = "copying" => \A r \in copied + 1..Rows : image_buffer[r] <= memory'[source][r]
  <2> SUFFICES ASSUME pc = "copying", NEW r \in copied + 1..Rows
               PROVE  image_buffer[r] <= memory'[source][r]
    OBVIOUS
  <2>1. r \in 1..Rows
    BY <1>2
  <2>2. /\ image_buffer[r] \in Nat /\ memory[source][r] \in Nat /\ memory'[source][r] \in Nat
        /\ memory[source][r] <= memory'[source][r]
    BY <1>2, <1>3, <1>4, <1>5, <2>1
  <2>3. image_buffer[r] <= memory[source][r]
    BY <1>6
  <2> QED BY <2>2, <2>3
<1> QED BY <1>1, <1>7, <1>8, <1>9 DEF OlderInv

LEMMA RowInv == ASSUME IInv, WriteRow PROVE IInv'
<1>1. UNCHANGED <<fb, csi_handle, mt9v03x_image, mt9v03x_finish_flag, follow, mainVars, newest>>
  BY RowStep
<1>2. MainOK'
  BY <1>1 DEF WriteRow, IInv, MainOK, mainVars
<1>3. FlagsOK' /\ NothingPilesUp' /\ NoneMissed'
  BY <1>1 DEF IInv, FlagsOK, NothingPilesUp, NoneMissed, mainVars, csi_handle
<1> QED BY <1>2, <1>3, RowSensor, RowCopy, RowOlder DEF IInv

-----------------------------------------------------------------------------
(* An interrupt is handled. *)

LEMMA SkipInv == ASSUME IInv, SkipFrames PROVE IInv'
<1> USE DEF SkipFrames, sensor, csi_handle, mainVars
<1>1. SensorOK' /\ MainOK' /\ FlagsOK' /\ NothingPilesUp' /\ NoneMissed'
  <2>1. SensorOK' /\ MainOK'
    BY DEF IInv, SensorOK, MainOK
  <2>2. FlagsOK' /\ NothingPilesUp' /\ NoneMissed'
    BY DEF IInv, FlagsOK, NothingPilesUp, NoneMissed
  <2> QED BY <2>1, <2>2
<1>2. doneFlags # {} /\ newest # frame - 1
  BY DEF IInv, SensorInv
<1>3. SensorInv'
  BY <1>2 DEF IInv, SensorInv
<1>5. pc # "copying"
  BY DEF IInv, RaceInv, MainOK
<1>6. CopyInv' /\ OlderInv'
  BY <1>5 DEF IInv, CopyInv, PictureOfTwo, OlderInv
<1>7. RaceInv'
  BY <1>5 DEF RaceInv
<1> QED BY <1>1, <1>3, <1>6, <1>7 DEF IInv

(* The buffer that is shown holds the frame just finished, but for what    *)
(* the next one has already overwritten.                                   *)
LEMMA DoneInv == ASSUME IInv, NEW done \in Registers, FrameDone(done) PROVE IInv'
<1> USE DEF sensor, csi_handle, mainVars
<1>1. /\ doneFlags = {done} /\ doneFlags' = {}
      /\ mt9v03x_image' = fb[done] /\ mt9v03x_finish_flag' = TRUE /\ newest' = frame - 1
      /\ fb' = [fb EXCEPT ![done] = TheOther(Images, fb[done])]
      /\ NothingPilesUp'
      /\ UNCHANGED <<turn, target, frame, row, memory>>
      /\ UNCHANGED <<follow, pc, source, copied, image_buffer, began, inStep, races, skips>>
  BY DoneStep DEF IInv
<1>2. done # turn
  BY <1>1 DEF IInv, SensorInv
<1>3. /\ fb \in [Registers -> Images] /\ turn \in Registers /\ frame \in 1..MaxFrames + 1 /\ row \in Nat
      /\ memory \in [Images -> [1..Rows -> 0..MaxFrames]]
  BY DEF IInv, SensorOK
<1>4. fb' \in [Registers -> Images] /\ fb'[turn] = fb[turn] /\ fb[done] \in Images
  BY <1>1, <1>2, <1>3, Others
<1>5. SensorOK'
  BY <1>1, <1>3, <1>4 DEF IInv, SensorOK
<1>6. MainOK'
  BY <1>1 DEF IInv, MainOK
<1>7. FlagsOK' /\ NoneMissed'
  BY <1>1 DEF IInv, FlagsOK, NoneMissed
<1>8. Holds(mt9v03x_image)'
  <2>1. Holds(fb[done])
    BY <1>1 DEF IInv, SensorInv
  <2> QED BY <1>1, <1>4, <2>1 DEF Holds, Overwritten
<1>9. SensorInv'
  <2>1. \A r \in 1..row' : memory'[fb'[turn']][r] = frame'
    BY <1>1, <1>4 DEF IInv, SensorInv
  <2>2. \A i \in Images : \A r \in 1..Rows :
          memory'[i][r] <= frame' /\ (memory'[i][r] = frame' => i = fb'[turn'] /\ r <= row')
    BY <1>1, <1>4 DEF IInv, SensorInv
  <2>3. row' > 0 => target' = fb'[turn']
    BY <1>1, <1>4 DEF IInv, SensorInv
  <2> QED BY <1>1, <1>8, <2>1, <2>2, <2>3 DEF SensorInv
<1>10. pc = "copying" => races = 1 /\ row = 0
  BY <1>1 DEF IInv, RaceInv, MainOK
<1>11. RaceInv'
  BY <1>1, <1>10 DEF RaceInv
<1>12. CopyInv'
  BY <1>1, <1>10 DEF IInv, CopyInv, PictureOfTwo, Torn
<1>13. OlderInv'
  <2>1. ASSUME NEW r \in 1..Rows
        PROVE  image_buffer[r] <= memory[fb[done]][r] /\ image_buffer[r] <= frame
    <3>1. image_buffer[r] <= frame - 1 /\ image_buffer[r] \in Nat
      BY <1>1 DEF IInv, OlderInv, MainOK
    <3>2. memory[fb[done]][r] = frame \/ memory[fb[done]][r] = frame - 1
      BY <1>1 DEF IInv, SensorInv, Holds
    <3> QED BY <1>3, <3>1, <3>2
  <2>2. pc = "copying" => \A r \in copied + 1..Rows : image_buffer[r] <= memory[source][r]
    BY DEF IInv, OlderInv
  <2> QED BY <1>1, <2>1, <2>2 DEF OlderInv
<1> QED BY <1>1, <1>5, <1>6, <1>7, <1>9, <1>11, <1>12, <1>13 DEF IInv

-----------------------------------------------------------------------------
(* The main loop. *)

LEMMA LoopInv ==
  ASSUME IInv, SeeFlag \/ ClearFlag \/ EndProcess \/ ChangeMode
  PROVE  IInv'
<1> USE DEF SeeFlag, ClearFlag, EndProcess, ChangeMode, Quiet, sensor, csi_handle, mainVars
<1>1. /\ UNCHANGED <<fb, doneFlags, turn, target, frame, row, memory, csi_handle, mt9v03x_image, newest, skips>>
      /\ UNCHANGED <<source, copied, image_buffer, began, inStep, races>>
      /\ pc' \in {"poll", "clear", "call"} /\ pc # "copying"
  OBVIOUS
<1>2. SensorOK' /\ MainOK'
  BY <1>1 DEF IInv, SensorOK, MainOK
<1>3. NothingPilesUp'
  BY <1>1 DEF IInv, NothingPilesUp
<1>4. FlagsOK'
  BY DEF IInv, FlagsOK, Cleared
<1>5. NoneMissed'
  <2>1. CASE SeeFlag \/ ClearFlag
    BY <2>1 DEF NoneMissed
  <2>2. CASE EndProcess \/ ChangeMode
    BY <2>2 DEF IInv, NoneMissed
  <2> QED BY <2>1, <2>2
<1>6. SensorInv'
  BY <1>1 DEF IInv, SensorInv, Holds, Overwritten
<1>7. RaceInv' /\ CopyInv'
  BY <1>1 DEF RaceInv, CopyInv, PictureOfTwo
<1>8. OlderInv'
  BY <1>1 DEF IInv, OlderInv
<1> QED BY <1>2, <1>3, <1>4, <1>5, <1>6, <1>7, <1>8 DEF IInv

(* The copy begins with what the interface has written so far. *)
LEMMA BeginInv == ASSUME IInv, BeginCopy, doneFlags = {} PROVE IInv'
<1> USE DEF BeginCopy, Quiet, sensor, csi_handle, mainVars
<1>1. /\ UNCHANGED <<fb, doneFlags, turn, target, frame, row, memory, csi_handle, mt9v03x_image, newest, skips>>
      /\ UNCHANGED <<image_buffer, follow, mt9v03x_finish_flag>>
      /\ pc' = "copying" /\ source' = mt9v03x_image /\ copied' = 0 /\ races' = 0 /\ began' = newest
  OBVIOUS
<1>2. inStep' = (newest = frame - 1)
  OBVIOUS
<1>3. SensorOK'
  BY <1>1 DEF IInv, SensorOK
<1>4. MainOK'
  BY <1>1 DEF IInv, SensorOK, MainOK
<1>5. NothingPilesUp' /\ NoneMissed'
  BY <1>1 DEF IInv, NothingPilesUp, NoneMissed
<1>6. FlagsOK'
  BY <1>1, <1>2 DEF IInv, FlagsOK
<1>7. SensorInv'
  BY <1>1 DEF IInv, SensorInv, Holds, Overwritten
<1>8. RaceInv'
  <2>1. inStep' <=> newest = frame - 1
    BY <1>2
  <2> QED BY <1>1, <2>1 DEF RaceInv
<1>9. CopyInv'
  BY <1>1 DEF CopyInv, Torn, PictureOfTwo
<1>10. OlderInv'
  BY <1>1 DEF IInv, OlderInv
<1> QED BY <1>3, <1>4, <1>5, <1>6, <1>7, <1>8, <1>9, <1>10 DEF IInv

(* What the next row to copy holds, in step with the camera or not. *)
LEMMA CopyRead ==
  ASSUME IInv, pc = "copying", copied < Rows, doneFlags = {}
  PROVE  /\ copied + 1 \in 1..Rows
         /\ memory[source][copied + 1] \in 0..MaxFrames
         /\ image_buffer[copied + 1] <= memory[source][copied + 1]
         /\ memory[source][copied + 1] <= memory[mt9v03x_image][copied + 1]
         /\ memory[source][copied + 1] <= frame
         /\ inStep /\ races = 0 => Torn(memory[source], Rows, Overwritten(source))
<1>1. /\ copied \in Nat /\ copied + 1 \in 1..Rows /\ source \in Images /\ mt9v03x_image \in Images
      /\ memory \in [Images -> [1..Rows -> 0..MaxFrames]] /\ frame \in 1..MaxFrames + 1
      /\ row \in Nat /\ races \in {0, 1}
  BY DEF IInv, SensorOK, MainOK
<1>2. memory[source] \in [1..Rows -> 0..MaxFrames] /\ memory[mt9v03x_image] \in [1..Rows -> 0..MaxFrames]
  BY <1>1
<1>3. image_buffer[copied + 1] <= memory[source][copied + 1]
  BY <1>1 DEF IInv, OlderInv
<1>4. memory[source][copied + 1] <= frame
  BY <1>1 DEF IInv, SensorInv
<1>5. memory[source][copied + 1] <= memory[mt9v03x_image][copied + 1]
  <2>1. CASE source = mt9v03x_image
    BY <1>1, <1>2, <2>1
  <2>2. CASE source # mt9v03x_image
    <3>1. row = 0 /\ newest = frame - 1
      BY <1>1, <2>2 DEF IInv, RaceInv
    <3>2. memory[mt9v03x_image][copied + 1] = frame - 1
      BY <1>1, <3>1 DEF IInv, SensorInv, Holds, Overwritten
    <3>3. memory[source][copied + 1] # frame
      BY <1>1, <3>1 DEF IInv, SensorInv
    <3>4. memory[source][copied + 1] \in Nat
      BY <1>1, <1>2
    <3> QED BY <1>1, <1>4, <3>2, <3>3, <3>4
  <2> QED BY <2>1, <2>2
<1>6. inStep /\ races = 0 => Torn(memory[source], Rows, Overwritten(source))
  BY <1>1 DEF IInv, RaceInv, SensorInv, Holds, Torn
<1> QED BY <1>1, <1>2, <1>3, <1>4, <1>5, <1>6

LEMMA CopyRowInv == ASSUME IInv, CopyRow, doneFlags = {} PROVE IInv'
<1> USE DEF CopyRow, Quiet, sensor, csi_handle, mainVars
<1>1. /\ UNCHANGED <<fb, doneFlags, turn, target, frame, row, memory, csi_handle, mt9v03x_image, newest, skips>>
      /\ UNCHANGED <<follow, mt9v03x_finish_flag, pc, source, began, inStep, races>>
      /\ pc = "copying" /\ copied < Rows /\ copied' = copied + 1
      /\ image_buffer' = [image_buffer EXCEPT ![copied + 1] = memory[source][copied + 1]]
  OBVIOUS
<1>2. /\ copied \in Nat /\ image_buffer \in [1..Rows -> 0..MaxFrames] /\ races \in {0, 1}
      /\ source \in Images /\ mt9v03x_image \in Images /\ row \in 0..Rows - 1
      /\ memory \in [Images -> [1..Rows -> 0..MaxFrames]]
  BY DEF IInv, MainOK, SensorOK
<1>3. image_buffer' \in [1..Rows -> 0..MaxFrames]
  BY <1>1, <1>2, CopyRead
<1>4. \A r \in 1..Rows : image_buffer'[r] = IF r = copied + 1 THEN memory[source][r] ELSE image_buffer[r]
  BY <1>1, <1>2
<1>5. SensorOK' /\ MainOK'
  BY <1>1, <1>3 DEF IInv, SensorOK, MainOK
<1>6. FlagsOK' /\ NothingPilesUp' /\ NoneMissed'
  BY <1>1 DEF IInv, FlagsOK, NothingPilesUp, NoneMissed
<1>7. SensorInv'
  BY <1>1 DEF IInv, SensorInv, Holds, Overwritten
<1>8. RaceInv'
  BY <1>1 DEF IInv, RaceInv
<1>9. CopyInv'
  <2>1. ASSUME NEW m \in 0..Rows, Torn(memory[source], Rows, m), Torn(image_buffer, copied, m)
        PROVE  Torn(image_buffer', copied + 1, m)
    <3> SUFFICES ASSUME NEW r \in 1..copied + 1
                 PROVE  image_buffer'[r] = IF r <= m THEN began + 1 ELSE began
      BY <1>1 DEF Torn
    <3>1. r \in 1..Rows
      BY <1>1, <1>2
    <3> QED BY <1>1, <1>2, <1>4, <2>1, <3>1 DEF Torn
  <2>2. ASSUME NEW m \in 0..Rows, m >= 1, m <= copied, Torn(memory[source], Rows, m), Torn(image_buffer, copied, m - 1)
        PROVE  Torn(image_buffer', copied + 1, m - 1)
    <3> SUFFICES ASSUME NEW r \in 1..copied + 1
                 PROVE  image_buffer'[r] = IF r <= m - 1 THEN began + 1 ELSE began
      BY <1>1 DEF Torn
    <3>1. r \in 1..Rows
      BY <1>1, <1>2
    <3> QED BY <1>1, <1>2, <1>4, <2>2, <3>1 DEF Torn
  <2>3. inStep /\ races = 0 => Torn(image_buffer', copied + 1, Overwritten(source))
    <3>1. Overwritten(source) \in 0..Rows
      BY <1>2 DEF Overwritten
    <3> QED BY <1>1, <2>1, <3>1, CopyRead DEF IInv, CopyInv
  <2>4. inStep /\ races = 1 =>
          \E m \in 0..Rows :
            /\ Torn(memory[source], Rows, m)
            /\ \/ Torn(image_buffer', copied + 1, m)
               \/ m >= 1 /\ m <= copied + 1 /\ Torn(image_buffer', copied + 1, m - 1)
    <3> SUFFICES ASSUME inStep, races = 1
                 PROVE  \E m \in 0..Rows :
                          /\ Torn(memory[source], Rows, m)
                          /\ \/ Torn(image_buffer', copied + 1, m)
                             \/ m >= 1 /\ m <= copied + 1 /\ Torn(image_buffer', copied + 1, m - 1)
      OBVIOUS
    <3> PICK m \in 0..Rows :
               /\ Torn(memory[source], Rows, m)
               /\ \/ Torn(image_buffer, copied, m)
                  \/ m >= 1 /\ m <= copied /\ Torn(image_buffer, copied, m - 1)
      BY <1>1 DEF IInv, CopyInv
    <3>1. CASE Torn(image_buffer, copied, m)
      BY <2>1, <3>1
    <3>2. CASE m >= 1 /\ m <= copied /\ Torn(image_buffer, copied, m - 1)
      <4>1. Torn(image_buffer', copied + 1, m - 1)
        BY <2>2, <3>2
      <4>2. m <= copied + 1
        BY <1>2, <3>2
      <4> QED BY <3>2, <4>1, <4>2
    <3> QED BY <3>1, <3>2
  <2> QED BY <1>1, <2>3, <2>4 DEF CopyInv, Torn, Overwritten, PictureOfTwo
<1>10. OlderInv'
  <2>1. ASSUME NEW r \in 1..Rows
        PROVE  image_buffer'[r] <= memory[mt9v03x_image][r] /\ image_buffer'[r] <= frame
    BY <1>1, <1>4, CopyRead DEF IInv, OlderInv
  <2>2. \A r \in (copied + 1) + 1..Rows : image_buffer'[r] <= memory[source][r]
    <3> SUFFICES ASSUME NEW r \in (copied + 1) + 1..Rows PROVE image_buffer'[r] <= memory[source][r]
      OBVIOUS
    <3>1. r \in copied + 1..Rows /\ r \in 1..Rows /\ r # copied + 1
      BY <1>2
    <3> QED BY <1>1, <1>4, <3>1 DEF IInv, OlderInv
  <2> QED BY <1>1, <2>1, <2>2 DEF OlderInv
<1> QED BY <1>5, <1>6, <1>7, <1>8, <1>9, <1>10 DEF IInv

(* What is copied is one picture, or two with the newer one above. *)
LEMMA EndInv == ASSUME IInv, EndCopy, doneFlags = {} PROVE IInv'
<1> USE DEF EndCopy, Quiet, sensor, csi_handle, mainVars
<1>1. /\ UNCHANGED <<fb, doneFlags, turn, target, frame, row, memory, csi_handle, mt9v03x_image, newest, skips>>
      /\ UNCHANGED <<follow, source, copied, image_buffer, began, inStep, races>>
      /\ pc = "copying" /\ copied = Rows /\ pc' = "process"
  OBVIOUS
<1>2. mt9v03x_finish_flag' \in BOOLEAN /\ (mt9v03x_finish_flag' <=> mt9v03x_finish_flag)
  BY DEF IInv, FlagsOK, Cleared
<1>3. SensorOK' /\ MainOK' /\ NothingPilesUp'
  BY <1>1 DEF IInv, SensorOK, MainOK, NothingPilesUp
<1>4. FlagsOK' /\ NoneMissed'
  BY <1>1, <1>2 DEF IInv, FlagsOK, NoneMissed
<1>5. SensorInv'
  BY <1>1 DEF IInv, SensorInv, Holds, Overwritten
<1>6. RaceInv'
  BY <1>1 DEF RaceInv
<1>7. CopyInv'
  <2>1. ASSUME inStep PROVE \E k \in 0..Rows : Torn(image_buffer, Rows, k)
    <3>1. row \in 0..Rows - 1 /\ races \in {0, 1}
      BY DEF IInv, SensorOK, MainOK
    <3>2. CASE races = 0
      <4>1. Torn(image_buffer, Rows, Overwritten(source))
        BY <1>1, <2>1, <3>2 DEF IInv, CopyInv
      <4>2. Overwritten(source) \in 0..Rows
        BY <3>1 DEF Overwritten
      <4> QED BY <4>1, <4>2
    <3>3. CASE races = 1
      <4> PICK m \in 0..Rows : Torn(image_buffer, Rows, m) \/ (m >= 1 /\ Torn(image_buffer, Rows, m - 1))
        BY <1>1, <2>1, <3>3 DEF IInv, CopyInv
      <4>1. m >= 1 => m - 1 \in 0..Rows
        OBVIOUS
      <4> QED BY <4>1
    <3> QED BY <3>1, <3>2, <3>3
  <2> QED BY <1>1, <2>1 DEF CopyInv, PictureOfTwo, Torn
<1>8. OlderInv'
  BY <1>1 DEF IInv, OlderInv
<1> QED BY <1>3, <1>4, <1>5, <1>6, <1>7, <1>8 DEF IInv

LEMMA StutterInv == ASSUME IInv, UNCHANGED vars PROVE IInv'
<1> USE DEF vars, sensor, csi_handle, mainVars
<1>1. SensorOK' /\ FlagsOK' /\ NothingPilesUp'
  BY DEF IInv, SensorOK, FlagsOK, NothingPilesUp
<1>2. MainOK'
  BY DEF IInv, MainOK
<1>3. SensorInv'
  BY DEF IInv, SensorInv, Holds, Overwritten
<1>4. RaceInv'
  BY DEF IInv, RaceInv, Overwritten
<1>5. PictureOfTwo'
  BY DEF IInv, CopyInv, PictureOfTwo
<1>6. CopyInv'
  <2> DEFINE P == pc = "copying" /\ inStep
  <2>1. P /\ races = 0 => Torn(image_buffer, copied, Overwritten(source))
    BY DEF IInv, CopyInv
  <2>2. (P /\ races = 0 => Torn(image_buffer, copied, Overwritten(source)))'
    BY <2>1 DEF Torn, Overwritten
  <2>3. P /\ races = 1 =>
          \E m \in 0..Rows :
            /\ Torn(memory[source], Rows, m)
            /\ \/ Torn(image_buffer, copied, m)
               \/ m >= 1 /\ m <= copied /\ Torn(image_buffer, copied, m - 1)
    BY DEF IInv, CopyInv
  <2>4. (P /\ races = 1 =>
          \E m \in 0..Rows :
            /\ Torn(memory[source], Rows, m)
            /\ \/ Torn(image_buffer, copied, m)
               \/ m >= 1 /\ m <= copied /\ Torn(image_buffer, copied, m - 1))'
    BY <2>3 DEF Torn
  <2> QED BY <1>5, <2>2, <2>4 DEF CopyInv
<1>7. OlderInv'
  BY DEF IInv, OlderInv
<1>8. NoneMissed'
  BY DEF IInv, NoneMissed
<1> QED BY <1>1, <1>2, <1>3, <1>4, <1>5, <1>6, <1>7, <1>8 DEF IInv

LEMMA Invariant == Spec => []IInv
<1>1. IInv /\ [Next]_vars => IInv'
  BY RowInv, SkipInv, DoneInv, LoopInv, BeginInv, CopyRowInv, EndInv, StutterInv
  DEF Next, CSI_IRQHandler, MainStep
<1> QED BY <1>1, InitInv, PTL DEF Spec

-----------------------------------------------------------------------------
(* Types, of the driver's stack and queue among them. *)
THEOREM TypeCorrect == Spec => []TypeOK
<1>1. IInv => TypeOK
  <2> SUFFICES ASSUME IInv PROVE TypeOK
    OBVIOUS
  <2>1. /\ frameBufferAddr \in Seq(Images) /\ Len(frameBufferAddr) <= QueueSize + 1
        /\ frameBufferQueue \in Seq(Images) /\ Len(frameBufferQueue) <= QueueSize
        /\ activeBufferNum \in 0..Active
    BY DEF IInv, NothingPilesUp
  <2>2. /\ mt9v03x_finish_flag \in BOOLEAN /\ follow \in BOOLEAN /\ inStep \in BOOLEAN
    BY DEF IInv, FlagsOK
  <2>3. races \in 0..MaxRaces
    BY DEF IInv, MainOK
  <2> QED BY <2>1, <2>2, <2>3 DEF IInv, SensorOK, MainOK, TypeOK
<1> QED BY <1>1, Invariant, PTL

(* However late the interrupts are, between two of them the driver's stack *)
(* and queue are empty (fsl_csi.c:883-929): it never runs into its limits. *)
THEOREM NothingPilesUpCorrect == Spec => []NothingPilesUp
<1>1. IInv => NothingPilesUp
  BY DEF IInv
<1> QED BY <1>1, Invariant, PTL

(* In step with the camera, the picture copied (main.c:69) is the last one *)
(* finished, with rows of the next at most, and those at its upper end.    *)
THEOREM PictureOfTwoCorrect == Spec => []PictureOfTwo
<1>1. IInv => PictureOfTwo
  BY DEF IInv, CopyInv
<1> QED BY <1>1, Invariant, PTL

(* No picture that was announced is forgotten (main.c:65-69). *)
THEOREM NoneMissedCorrect == Spec => []NoneMissed
<1>1. IInv => NoneMissed
  BY DEF IInv
<1> QED BY <1>1, Invariant, PTL

(* No row of the picture is replaced by an older one, whichever frames are *)
(* skipped and wherever the interface writes meanwhile.                    *)
THEOREM NeverOlderCorrect == Spec => NeverOlder
<1>1. IInv /\ [Next]_vars => (\A r \in 1..Rows : image_buffer'[r] >= image_buffer[r]) \/ UNCHANGED vars
  <2> SUFFICES ASSUME IInv, [Next]_vars, NEW r \in 1..Rows PROVE image_buffer'[r] >= image_buffer[r]
    OBVIOUS
  <2>1. image_buffer \in [1..Rows -> 0..MaxFrames]
    BY DEF IInv, MainOK
  <2>2. CASE CopyRow /\ doneFlags = {}
    <3>1. image_buffer[copied + 1] <= memory[source][copied + 1] /\ memory[source][copied + 1] \in 0..MaxFrames
      BY <2>2, CopyRead DEF CopyRow
    <3> QED BY <2>1, <2>2, <3>1 DEF CopyRow
  <2>3. CASE image_buffer' = image_buffer
    BY <2>1, <2>3
  <2>4. ASSUME NEW done \in Registers, FrameDone(done) PROVE image_buffer' = image_buffer
    BY <2>4, DoneStep DEF IInv, mainVars
  <2> QED
    BY <2>2, <2>3, <2>4
    DEF Next, CSI_IRQHandler, MainStep, WriteRow, SkipFrames, SeeFlag, ClearFlag, BeginCopy, EndCopy,
        EndProcess, ChangeMode, Quiet, mainVars, vars
<1> QED BY <1>1, Invariant, PTL DEF Spec, NeverOlder
=============================================================================
