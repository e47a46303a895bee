---------------------------- MODULE CubeDetection ----------------------------
(***************************************************************************)
(* The cube detector's main loop (MCXVision main.c:38-72): in each picture *)
(* find_red_cube_center (cube_detection.c:30-88) counts the red pixels of  *)
(* every column and row, walks in from the four sides to the first column  *)
(* and row with enough of them, and the box is sent to the car.  A picture *)
(* is the set of its red pixels.  The counters are bytes, and the walks    *)
(* look at the counter before they look at the index, so they read one     *)
(* place beyond either end of the counters: anything may be there.         *)
(***************************************************************************)
EXTENDS Integers, FiniteSets

CONSTANTS
  W, H,                 \* SCC8660_W, SCC8660_H
  CounterSize,          \* values of an uint8
  MIN_PIXEL_COUNT, MIN_X_PIXEL_COUNT, MIN_Y_PIXEL_COUNT

(* A byte counts a whole column of the image, but not a whole row.         *)
ASSUME DetectionAssumption ==
  /\ W \in Nat \ {0} /\ H \in Nat \ {0}
  /\ CounterSize \in Nat /\ H < CounterSize
  /\ MIN_PIXEL_COUNT \in Nat
  /\ MIN_X_PIXEL_COUNT \in Nat \ {0} /\ MIN_Y_PIXEL_COUNT \in Nat \ {0}

Columns == 0 .. W - 1
Lines == 0 .. H - 1
Byte == 0 .. CounterSize - 1

VARIABLES
  red,                                  \* the red pixels of the picture
  pixel_x_count, pixel_y_count,
  x_min, x_max, y_min, y_max,           \* locals of find_red_cube_center
  pc,                                   \* the walk in progress, "wait" or "send"
  cube_info,
  sent                                  \* the last frame on the serial line

counts == <<red, pixel_x_count, pixel_y_count>>
bounds == <<x_min, x_max, y_min, y_max>>
vars == <<counts, bounds, pc, cube_info, sent>>

RedInColumn(x) == Cardinality({y \in Lines : <<x, y>> \in red})
RedInLine(y) == Cardinality({x \in Columns : <<x, y>> \in red})

Empty == [exist |-> FALSE, x_center |-> 0, y_center |-> 0, pixel_count |-> 0,
          x_min |-> 0, x_max |-> 0, y_min |-> 0, y_max |-> 0]

Init ==
  /\ red = {}
  /\ pixel_x_count = [x \in Columns |-> 0] /\ pixel_y_count = [y \in Lines |-> 0]
  /\ x_min = 0 /\ x_max = W - 1 /\ y_min = 0 /\ y_max = H - 1
  /\ pc = "wait" /\ cube_info = Empty /\ sent = Empty

Count(n) == n % CounterSize             \* ++ of an uint8

TooFewOrJustEnough == Cardinality(red') <= MIN_PIXEL_COUNT       \* a mutant
TooFew == Cardinality(red') < MIN_PIXEL_COUNT

(* A picture is there: count, and give up on too few pixels.               *)
CountPixels ==
  /\ pc = "wait"
  /\ red' \in SUBSET (Columns \X Lines)
  /\ pixel_x_count' = [x \in Columns |-> Count(RedInColumn(x)')]
  /\ pixel_y_count' = [y \in Lines |-> Count(RedInLine(y)')]
  /\ x_min' = 0 /\ x_max' = W - 1 /\ y_min' = 0 /\ y_max' = H - 1
  /\ IF TooFew
     THEN pc' = "send" /\ cube_info' = [cube_info EXCEPT !.exist = FALSE]
     ELSE pc' = "x_min" /\ UNCHANGED cube_info
  /\ UNCHANGED sent

(* The counter at an index, whatever lies beyond the counters.             *)
Read(counter, i) == IF i \in DOMAIN counter THEN {counter[i]} ELSE Byte

DownUnsigned(i) == (i - 1) % CounterSize        \* a mutant: an index without a sign
Down(i) == i - 1

(* The four walks: on while the counter is too small and the index inside. *)
WalkXMin ==
  /\ pc = "x_min"
  /\ \E n \in Read(pixel_x_count, x_min) :
       IF n < MIN_X_PIXEL_COUNT /\ x_min < W
       THEN x_min' = x_min + 1 /\ UNCHANGED pc
       ELSE pc' = "x_max" /\ UNCHANGED x_min
  /\ UNCHANGED <<counts, x_max, y_min, y_max, cube_info, sent>>

WalkXMax ==
  /\ pc = "x_max"
  /\ \E n \in Read(pixel_x_count, x_max) :
       IF n < MIN_X_PIXEL_COUNT /\ x_max >= 0
       THEN x_max' = Down(x_max) /\ UNCHANGED pc
       ELSE pc' = "y_min" /\ UNCHANGED x_max
  /\ UNCHANGED <<counts, x_min, y_min, y_max, cube_info, sent>>

WalkYMin ==
  /\ pc = "y_min"
  /\ \E n \in Read(pixel_y_count, y_min) :
       IF n < MIN_Y_PIXEL_COUNT /\ y_min < H
       THEN y_min' = y_min + 1 /\ UNCHANGED pc
       ELSE pc' = "y_max" /\ UNCHANGED y_min
  /\ UNCHANGED <<counts, x_min, x_max, y_max, cube_info, sent>>

WalkYMax ==
  /\ pc = "y_max"
  /\ \E n \in Read(pixel_y_count, y_max) :
       IF n < MIN_Y_PIXEL_COUNT /\ y_max >= 0
       THEN y_max' = Down(y_max) /\ UNCHANGED pc
       ELSE pc' = "bounds" /\ UNCHANGED y_max
  /\ UNCHANGED <<counts, x_min, x_max, y_min, cube_info, sent>>

NoSideColumns == x_min = W \/ x_max = -1        \* a mutant
NoSide == x_min = W \/ y_min = H \/ x_max = -1 \/ y_max = -1

Lost == [cube_info EXCEPT !.exist = FALSE]

WriteInfo ==
  /\ pc = "bounds"
  /\ pc' = "send"
  /\ cube_info' =
       IF NoSide THEN Lost
       ELSE [exist |-> TRUE, x_center |-> (x_min + x_max) \div 2, y_center |-> (y_min + y_max) \div 2,
             x_min |-> x_min, x_max |-> x_max, y_min |-> y_min, y_max |-> y_max,
             pixel_count |-> Cardinality(red)]
  /\ UNCHANGED <<counts, bounds, sent>>

(* rt1064_uart_send_cube_info sends whatever is in the fields.             *)
Send ==
  /\ pc = "send"
  /\ sent' = cube_info
  /\ pc' = "wait"
  /\ UNCHANGED <<counts, bounds, cube_info>>

Walk == WalkXMin \/ WalkXMax \/ WalkYMin \/ WalkYMax

Next == CountPixels \/ Walk \/ WriteInfo \/ Send

Spec == Init /\ [][Next]_vars
(* The board computes without a pause; nothing makes a camera send.        *)
FairSpec == Spec /\ WF_vars(Walk \/ WriteInfo \/ Send)

-----------------------------------------------------------------------------
(* Properties. *)

TypeOK ==
  /\ red \in SUBSET (Columns \X Lines)
  /\ pixel_x_count \in [Columns -> Byte] /\ pixel_y_count \in [Lines -> Byte]
  /\ x_min \in 0..W /\ x_max \in -1..W - 1 /\ y_min \in 0..H /\ y_max \in -1..H - 1
  /\ pc \in {"wait", "x_min", "x_max", "y_min", "y_max", "bounds", "send"}
  /\ cube_info.exist \in BOOLEAN /\ sent.exist \in BOOLEAN

EnoughInColumn(x) == RedInColumn(x) >= MIN_X_PIXEL_COUNT
EnoughInLine(y) == RedInLine(y) >= MIN_Y_PIXEL_COUNT

(* What is reported as the sides of a cube has in truth enough red, in     *)
(* spite of counters that start over, and the centre lies between them.    *)
BoxIsRed ==
  pc = "send" /\ cube_info.exist =>
    /\ EnoughInColumn(cube_info.x_min) /\ EnoughInColumn(cube_info.x_max)
    /\ EnoughInLine(cube_info.y_min) /\ EnoughInLine(cube_info.y_max)
    /\ cube_info.x_center \in cube_info.x_min .. cube_info.x_max
    /\ cube_info.y_center \in cube_info.y_min .. cube_info.y_max

NoLineWraps == \A y \in Lines : RedInLine(y) < CounterSize

(* Where no line has more red pixels than a byte counts, a cube is seen    *)
(* exactly if there is enough red in all, in a column and in a line, and   *)
(* no column and no line with enough red is left out of the box, whatever  *)
(* the walks read beyond the counters.                                     *)
NothingLeftOut ==
  pc = "send" /\ NoLineWraps =>
    /\ cube_info.exist <=> /\ Cardinality(red) >= MIN_PIXEL_COUNT
                           /\ \E x \in Columns : EnoughInColumn(x)
                           /\ \E y \in Lines : EnoughInLine(y)
    /\ cube_info.exist =>
         /\ \A x \in Columns : EnoughInColumn(x) => x \in cube_info.x_min .. cube_info.x_max
         /\ \A y \in Lines : EnoughInLine(y) => y \in cube_info.y_min .. cube_info.y_max

(* The car reads state, x_center and p_count one after the other           *)
(* (motion_control_new.c:398-403).  A frame that says the cube is gone     *)
(* repeats the numbers of the frame before, so that a car whose reads it   *)
(* cuts in two does not mix the numbers of two pictures.                   *)
LostCubeStays == [][~sent'.exist => [sent' EXCEPT !.exist = sent.exist] = sent]_vars

(* Every picture is answered: the walks end before they leave the image.   *)
PictureAnswered == (pc # "wait") ~> (pc = "wait")
=============================================================================
