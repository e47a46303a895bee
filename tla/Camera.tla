------------------------------- MODULE Camera -------------------------------
(***************************************************************************)
(* The camera of the car: the sensor interface writes frames to memory by  *)
(* itself (DMA), at the two addresses in its registers in turn; its driver *)
(* keeps stacks and queues of buffers (fsl_csi.c); the callback of the     *)
(* board library (zf_device_mt9v03x.c:391-406) hands the two image buffers *)
(* back and forth; the main loop copies the picture it was shown           *)
(* (main.c:62-75) while the next frame is being written.                   *)
(*                                                                         *)
(* A frame is written and copied row by row; a row is known by the number  *)
(* of the frame it comes from.  The registers are loaded by the interface  *)
(* at the first data of a frame (fsl_csi.c:695-702).                       *)
(***************************************************************************)
EXTENDS Naturals, Sequences

CONSTANTS
  Rows,         \* HEIGHT, in rows that are told apart
  MaxFrames,    \* bound: frames the sensor sends
  MaxRaces,     \* rows that arrive while one copy is made: the copy is fast
  MaxSkips      \* bound: interrupts delayed by a whole frame

(* The copy takes less time than a row.                                    *)
ASSUME CameraAssumption ==
  /\ Rows \in Nat \ {0} /\ MaxFrames \in Nat
  /\ MaxRaces \in {0, 1} /\ MaxSkips \in Nat

Images == {"mt9v03x_image1", "mt9v03x_image2"}
Registers == {"FB1", "FB2"}
QueueSize == 4                  \* CSI_DRIVER_QUEUE_SIZE
Active == 2                     \* CSI_MAX_ACTIVE_FRAME_NUM
NoFrame == 0                    \* what the buffers hold at start-up

TheOther(S, x) == CHOOSE y \in S : y # x

VARIABLES
  fb,               \* registers of the interface: where the next frames go
  doneFlags,        \* DMA_TSF_DONE of the registers
  turn, target,     \* whose turn it is; the address of the frame in progress
  frame, row,       \* the frame in progress and its rows written
  memory,           \* rows of the image buffers
  frameBufferAddr, frameBufferQueue, activeBufferNum,     \* csi_handle
  mt9v03x_image, mt9v03x_finish_flag,
  follow,           \* motion_mode = LINE_FOLLOW
  pc, source, copied, image_buffer,     \* the main loop and its memcpy
  races,            \* rows that arrived since the copy began
  newest,           \* history: last frame announced
  began, inStep,    \* the same when the copy began; was it the last finished
  skips

sensor == <<turn, target, frame, row, memory>>
csi_handle == <<frameBufferAddr, frameBufferQueue, activeBufferNum>>
mainVars == <<pc, source, copied, image_buffer, began, inStep>>
vars == <<fb, doneFlags, sensor, csi_handle, mt9v03x_image, mt9v03x_finish_flag,
          follow, mainVars, races, newest, skips>>

-----------------------------------------------------------------------------
(* mt9v03x_init: both buffers are added, the start takes them off the      *)
(* stack again, the last one first.                                        *)
Init ==
  /\ fb = [r \in Registers |-> IF r = "FB1" THEN "mt9v03x_image2" ELSE "mt9v03x_image1"]
  /\ doneFlags = {} /\ turn = "FB1" /\ target = "mt9v03x_image2"
  /\ frame = 1 /\ row = 0
  /\ memory = [i \in Images |-> [r \in 1..Rows |-> NoFrame]]
  /\ frameBufferAddr = <<>> /\ frameBufferQueue = <<>> /\ activeBufferNum = Active
  /\ mt9v03x_image = "mt9v03x_image1" /\ mt9v03x_finish_flag = FALSE
  /\ follow = TRUE
  /\ pc = "poll" /\ source = "mt9v03x_image1" /\ copied = 0
  /\ image_buffer = [r \in 1..Rows |-> NoFrame]
  /\ races = 0 /\ newest = NoFrame /\ began = NoFrame /\ inStep = TRUE /\ skips = 0

(* The interface writes a row.  It looks at its register at the first one  *)
(* and raises a flag after the last.                                       *)
WriteRow ==
  /\ frame <= MaxFrames
  /\ pc = "copying" => races < MaxRaces
  /\ races' = IF pc = "copying" THEN races + 1 ELSE 0
  /\ target' = IF row = 0 THEN fb[turn] ELSE target
  /\ memory' = [memory EXCEPT ![target'][row + 1] = frame]
  /\ IF row + 1 < Rows
     THEN row' = row + 1 /\ UNCHANGED <<doneFlags, turn, frame, skips>>
     ELSE /\ row' = 0 /\ frame' = frame + 1
          /\ turn' = TheOther(Registers, turn)
          /\ doneFlags' = doneFlags \union {turn}
          /\ skips' = IF doneFlags = {} THEN skips ELSE skips + 1
          /\ skips' <= MaxSkips
  /\ UNCHANGED <<fb, csi_handle, mt9v03x_image, mt9v03x_finish_flag, follow, mainVars, newest>>

(* CSI_TransferHandleIRQ with both flags: nobody knows which frame is the  *)
(* last, both are skipped.                                                 *)
SkipFrames ==
  /\ doneFlags = Registers
  /\ doneFlags' = {}
  /\ UNCHANGED <<fb, sensor, csi_handle, mt9v03x_image, mt9v03x_finish_flag,
                 follow, mainVars, races, newest, skips>>

ShowsOther(buffer) == TheOther(Images, buffer)          \* mutants
GivesBackNothing(buffer) == <<>>
(* mt9v03x_finished_callback shows the full buffer and adds the other one. *)
Shows(buffer) == buffer
GivesBack(buffer) == <<TheOther(Images, buffer)>>

(* CSI_TransferHandleIRQ, lines 913-929: the register of the frame that is *)
(* done gets an empty buffer, or the buffer of the other register.         *)
Refill(empty, active, done) ==
  IF active < Active /\ empty # <<>>
  THEN /\ fb' = [fb EXCEPT ![done] = empty[Len(empty)]]
       /\ frameBufferAddr' = SubSeq(empty, 1, Len(empty) - 1)
       /\ activeBufferNum' = active + 1
  ELSE /\ fb' = IF active < Active THEN [fb EXCEPT ![done] = fb[TheOther(Registers, done)]]
                                   ELSE fb
       /\ frameBufferAddr' = empty /\ activeBufferNum' = active

(* CSI_TransferHandleIRQ with one flag: the full buffer is queued, the     *)
(* callback takes the first of the queue and adds an empty buffer.         *)
FrameDone(done) ==
  /\ doneFlags = {done}
  /\ doneFlags' = {}
  /\ IF activeBufferNum = Active /\ Len(frameBufferQueue) < QueueSize
     THEN LET queue == Append(frameBufferQueue, fb[done])
          IN  /\ mt9v03x_image' = Shows(Head(queue))
              /\ mt9v03x_finish_flag' = TRUE
              /\ frameBufferQueue' = Tail(queue)
              /\ newest' = frame - 1
              /\ Refill(frameBufferAddr \o GivesBack(Head(queue)), activeBufferNum - 1, done)
     ELSE /\ Refill(frameBufferAddr, activeBufferNum, done)
          /\ UNCHANGED <<frameBufferQueue, mt9v03x_image, mt9v03x_finish_flag, newest>>
  /\ UNCHANGED <<sensor, follow, mainVars, races, skips>>

CSI_IRQHandler == SkipFrames \/ \E done \in Registers : FrameDone(done)

-----------------------------------------------------------------------------
(* The main loop.                                                          *)

Quiet == UNCHANGED <<fb, doneFlags, sensor, csi_handle, mt9v03x_image, newest, skips>>

SeeFlag ==
  /\ pc = "poll" /\ follow /\ mt9v03x_finish_flag
  /\ pc' = "clear"
  /\ Quiet /\ UNCHANGED <<mt9v03x_finish_flag, follow, source, copied, image_buffer, began, inStep, races>>

(* The flag is cleared before the pointer is read, not behind the copy.    *)
ClearedBehind(at) == mt9v03x_finish_flag /\ at # "process"
Cleared(at) == mt9v03x_finish_flag /\ at # "call"

ClearFlag ==
  /\ pc = "clear"
  /\ pc' = "call"
  /\ mt9v03x_finish_flag' = Cleared("call")
  /\ Quiet /\ UNCHANGED <<follow, source, copied, image_buffer, began, inStep, races>>

(* memcpy reads the pointer once.                                          *)
BeginCopy ==
  /\ pc = "call"
  /\ source' = mt9v03x_image /\ copied' = 0
  /\ began' = newest /\ inStep' = (newest = frame - 1) /\ races' = 0
  /\ pc' = "copying"
  /\ Quiet /\ UNCHANGED <<mt9v03x_finish_flag, follow, image_buffer>>

CopyRow ==
  /\ pc = "copying" /\ copied < Rows
  /\ image_buffer' = [image_buffer EXCEPT ![copied + 1] = memory[source][copied + 1]]
  /\ copied' = copied + 1
  /\ Quiet /\ UNCHANGED <<mt9v03x_finish_flag, follow, pc, source, began, inStep, races>>

(* process_image works on the copy for as long as it takes.                *)
EndCopy ==
  /\ pc = "copying" /\ copied = Rows
  /\ pc' = "process"
  /\ mt9v03x_finish_flag' = Cleared("process")
  /\ Quiet /\ UNCHANGED <<follow, source, copied, image_buffer, began, inStep, races>>

EndProcess ==
  /\ pc = "process"
  /\ pc' = "poll"
  /\ Quiet /\ UNCHANGED <<mt9v03x_finish_flag, follow, source, copied, image_buffer, began, inStep, races>>

(* motion_mode_calc, later in the same loop, takes up a cube or goes back  *)
(* to the line; meanwhile the camera goes on.                              *)
ChangeMode ==
  /\ pc = "poll"
  /\ follow' = ~follow
  /\ Quiet /\ UNCHANGED <<mt9v03x_finish_flag, mainVars, races>>

(* A handler that is late waits for other handlers; the main loop stands.  *)
MainStep == /\ doneFlags = {}
            /\ SeeFlag \/ ClearFlag \/ BeginCopy \/ CopyRow \/ EndCopy \/ EndProcess

Next == WriteRow \/ CSI_IRQHandler \/ MainStep \/ ChangeMode

Spec == Init /\ [][Next]_vars

-----------------------------------------------------------------------------
(* Properties. *)

TypeOK ==
  /\ fb \in [Registers -> Images] /\ doneFlags \subseteq Registers
  /\ turn \in Registers /\ target \in Images
  /\ frameBufferAddr \in Seq(Images) /\ Len(frameBufferAddr) <= QueueSize + 1
  /\ frameBufferQueue \in Seq(Images) /\ Len(frameBufferQueue) <= QueueSize
  /\ activeBufferNum \in 0..Active
  /\ frame \in 1..MaxFrames + 1 /\ row \in 0..Rows - 1
  /\ memory \in [Images -> [1..Rows -> 0..MaxFrames]]
  /\ mt9v03x_image \in Images /\ mt9v03x_finish_flag \in BOOLEAN /\ follow \in BOOLEAN
  /\ pc \in {"poll", "clear", "call", "copying", "process"}
  /\ source \in Images /\ copied \in 0..Rows
  /\ image_buffer \in [1..Rows -> 0..MaxFrames]
  /\ races \in 0..MaxRaces /\ newest \in 0..MaxFrames /\ began \in 0..MaxFrames /\ inStep \in BOOLEAN
  /\ skips \in 0..MaxSkips

(* The driver gives up on a full queue and on a missing buffer             *)
(* (fsl_csi.c:903, 921-928): between two interrupts, however late, nothing *)
(* is left in its queues and both registers hold a buffer that is in use.  *)
NothingPilesUp ==
  /\ frameBufferAddr = <<>> /\ frameBufferQueue = <<>>
  /\ activeBufferNum = Active

(* Two buffers for two registers leave none for the reader: the frame in   *)
(* progress may go to the buffer that is copied.  The worst of it: in      *)
(* step with the camera, the picture that search works on is the last one  *)
(* finished, with rows of the next one, and of no other, at its upper end. *)
PictureOfTwo ==
  pc = "process" /\ inStep =>
    \E k \in 0..Rows : \A r \in 1..Rows : image_buffer[r] = IF r <= k THEN began + 1 ELSE began

(* No row of the picture is ever replaced by an older one.                 *)
NeverOlder == [][\A r \in 1..Rows : image_buffer'[r] >= image_buffer[r]]_vars

(* A picture that is announced between the look at the flag and the copy   *)
(* is not forgotten: whenever the flag is down, the last picture announced *)
(* is the one that was copied.                                             *)
NoneMissed ==
  pc \in {"poll", "copying", "process"} /\ ~mt9v03x_finish_flag => began = newest
=============================================================================
