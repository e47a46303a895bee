------------------------ MODULE CubeDetection_proofs ------------------------
(***************************************************************************)
(* Proofs about CubeDetection, for every size of the picture, every set of *)
(* red pixels, every limit and whatever lies beyond the counters.          *)
(***************************************************************************)
EXTENDS CubeDetection, FiniteSetTheorems, TLAPS

USE DetectionAssumption DEF DetectionAssumption, Columns, Lines

Infos == [exist : BOOLEAN, x_center : Int, y_center : Int, pixel_count : Int,
          x_min : Int, x_max : Int, y_min : Int, y_max : Int]
Sides == {"x_min", "x_max", "y_min", "y_max", "bounds"}

(* The counters are what a byte makes of the columns and lines of red.     *)
CountsInv ==
  /\ red \in SUBSET (Columns \X Lines)
  /\ pixel_x_count = [x \in Columns |-> Count(RedInColumn(x))]
  /\ pixel_y_count = [y \in Lines |-> Count(RedInLine(y))]

BoundsInv == /\ x_min \in 0..W /\ x_max \in -1..W - 1 /\ y_min \in 0..H /\ y_max \in -1..H - 1
             /\ pc \in Sides \union {"wait", "send"}

(* A walk has passed only columns or lines with too little, and where it   *)
(* has ended there is enough, or nothing is left.                          *)
WalksInv ==
  pc \in Sides =>
    /\ Cardinality(red) >= MIN_PIXEL_COUNT
    /\ \A x \in Columns : x < x_min \/ x > x_max => pixel_x_count[x] < MIN_X_PIXEL_COUNT
    /\ \A y \in Lines : y < y_min \/ y > y_max => pixel_y_count[y] < MIN_Y_PIXEL_COUNT
    /\ pc # "x_min" => x_min = W \/ pixel_x_count[x_min] >= MIN_X_PIXEL_COUNT
    /\ pc \notin {"x_min", "x_max"} => x_max = -1 \/ pixel_x_count[x_max] >= MIN_X_PIXEL_COUNT
    /\ pc \in {"y_max", "bounds"} => y_min = H \/ pixel_y_count[y_min] >= MIN_Y_PIXEL_COUNT
    /\ pc = "bounds" => y_max = -1 \/ pixel_y_count[y_max] >= MIN_Y_PIXEL_COUNT

InfoInv == cube_info \in Infos /\ sent \in Infos

(* Between two pictures the fields are what was sent last. *)
SentInv ==
  /\ pc # "send" => cube_info = sent
  /\ pc = "send" /\ ~cube_info.exist => [cube_info EXCEPT !.exist = sent.exist] = sent

IInv == CountsInv /\ BoundsInv /\ WalksInv /\ InfoInv /\ BoxIsRed /\ NothingLeftOut

-----------------------------------------------------------------------------
(* What is counted. *)

LEMMA ColumnCount == ASSUME NEW x PROVE RedInColumn(x) \in Nat /\ RedInColumn(x) <= H
<1>1. IsFiniteSet(0..H - 1) /\ Cardinality(0..H - 1) = H
  BY FS_Interval
<1>2. {y \in Lines : <<x, y>> \in red} \subseteq 0..H - 1
  OBVIOUS
<1> QED BY <1>1, <1>2, FS_Subset, FS_CardinalityType DEF RedInColumn

LEMMA LineCount == ASSUME NEW y PROVE RedInLine(y) \in Nat /\ RedInLine(y) <= W
<1>1. IsFiniteSet(0..W - 1) /\ Cardinality(0..W - 1) = W
  BY FS_Interval
<1>2. {x \in Columns : <<x, y>> \in red} \subseteq 0..W - 1
  OBVIOUS
<1> QED BY <1>1, <1>2, FS_Subset, FS_CardinalityType DEF RedInLine

LEMMA RedCount == ASSUME NEW S \in SUBSET (Columns \X Lines) PROVE Cardinality(S) \in Nat
<1>1. IsFiniteSet(0..W - 1) /\ IsFiniteSet(0..H - 1)
  BY FS_Interval
<1>2. IsFiniteSet((0..W - 1) \X (0..H - 1))
  BY <1>1, FS_Product
<1> QED BY <1>2, FS_Subset, FS_CardinalityType

(* A byte never shows more than there is, and all of it if it fits.        *)
LEMMA CountFacts ==
  ASSUME NEW n \in Nat
  PROVE  Count(n) \in Byte /\ Count(n) <= n /\ (n < CounterSize => Count(n) = n)
BY DEF Count, Byte

(* What a counter shows is enough only if there is enough; in a column and *)
(* in a line that fits a byte, exactly then.                               *)
LEMMA CounterFacts ==
  ASSUME CountsInv
  PROVE  /\ \A x \in Columns : pixel_x_count[x] \in Byte /\ pixel_x_count[x] = RedInColumn(x)
         /\ \A y \in Lines : pixel_y_count[y] \in Byte /\ pixel_y_count[y] <= RedInLine(y)
         /\ NoLineWraps => \A y \in Lines : pixel_y_count[y] = RedInLine(y)
<1>1. ASSUME NEW x \in Columns
      PROVE  pixel_x_count[x] \in Byte /\ pixel_x_count[x] = RedInColumn(x)
  BY ColumnCount, CountFacts DEF CountsInv
<1>2. ASSUME NEW y \in Lines
      PROVE  /\ pixel_y_count[y] \in Byte /\ pixel_y_count[y] <= RedInLine(y)
             /\ RedInLine(y) < CounterSize => pixel_y_count[y] = RedInLine(y)
  BY LineCount, CountFacts DEF CountsInv
<1> QED BY <1>1, <1>2 DEF NoLineWraps

-----------------------------------------------------------------------------
(* Steps. *)

LEMMA InitInv == Init => IInv
<1> SUFFICES ASSUME Init PROVE IInv
  OBVIOUS
<1> USE DEF Init
<1>1. CountsInv
  <2>1. \A x : RedInColumn(x) = 0 /\ RedInLine(x) = 0
    <3>1. \A x : {y \in Lines : <<x, y>> \in red} = {} /\ {y \in Columns : <<y, x>> \in red} = {}
      OBVIOUS
    <3> QED BY <3>1, FS_EmptySet DEF RedInColumn, RedInLine
  <2>2. Count(0) = 0
    BY DEF Count
  <2> QED BY <2>1, <2>2 DEF CountsInv
<1>2. BoundsInv /\ WalksInv /\ BoxIsRed /\ NothingLeftOut
  BY DEF BoundsInv, WalksInv, Sides, BoxIsRed, NothingLeftOut
<1>3. InfoInv
  BY DEF InfoInv, Infos, Empty
<1> QED BY <1>1, <1>2, <1>3 DEF IInv

(* A picture with too little red is answered at once. *)
LEMMA CountStep == ASSUME IInv, CountPixels PROVE IInv'
<1> USE DEF CountPixels
<1>1. CountsInv'
  BY DEF CountsInv
<1>2. BoundsInv'
  BY DEF BoundsInv, Sides
<1>3. InfoInv'
  BY DEF IInv, InfoInv, Infos
<1>4. Cardinality(red') \in Nat
  BY RedCount
<1>5. CASE TooFew
  <2>1. cube_info'.exist = FALSE /\ pc' = "send"
    BY <1>5 DEF IInv, InfoInv, Infos
  <2>2. ~(Cardinality(red') >= MIN_PIXEL_COUNT)
    BY <1>4, <1>5 DEF TooFew
  <2>3. WalksInv' /\ BoxIsRed' /\ NothingLeftOut'
    BY <2>1, <2>2 DEF WalksInv, Sides, BoxIsRed, NothingLeftOut
  <2> QED BY <1>1, <1>2, <1>3, <2>3 DEF IInv
<1>6. CASE ~TooFew
  <2>1. pc' = "x_min" /\ Cardinality(red') >= MIN_PIXEL_COUNT
    BY <1>4, <1>6 DEF TooFew
  <2>2. WalksInv'
    BY <2>1 DEF WalksInv
  <2>3. BoxIsRed' /\ NothingLeftOut'
    BY <2>1 DEF BoxIsRed, NothingLeftOut
  <2> QED BY <1>1, <1>2, <1>3, <2>2, <2>3 DEF IInv
<1> QED BY <1>5, <1>6

(* Whatever is read beyond the counters, only the index ends a walk there. *)
LEMMA WalkStep == ASSUME IInv, Walk PROVE IInv'
<1>1. UNCHANGED <<counts, cube_info, sent>> /\ pc \in Sides /\ pc' \in Sides
  BY DEF Walk, WalkXMin, WalkXMax, WalkYMin, WalkYMax, Sides
<1>2. CountsInv' /\ InfoInv'
  BY <1>1 DEF IInv, CountsInv, InfoInv, counts, RedInColumn, RedInLine
<1>3. BoxIsRed' /\ NothingLeftOut'
  BY <1>1 DEF BoxIsRed, NothingLeftOut, Sides
<1>4. /\ DOMAIN pixel_x_count = 0..W - 1 /\ DOMAIN pixel_y_count = 0..H - 1
      /\ \A x \in Columns : pixel_x_count[x] \in Nat
      /\ \A y \in Lines : pixel_y_count[y] \in Nat
  BY CounterFacts DEF IInv, CountsInv, Byte
<1> USE <1>1, <1>4 DEF IInv, BoundsInv, WalksInv, Sides, Read, counts
<1>5. CASE WalkXMin
  <2>1. pixel_x_count[x_min] \in Nat \/ x_min = W
    BY DEF BoundsInv
  <2>2. CASE x_min' = x_min + 1 /\ UNCHANGED pc /\ x_min # W /\ pixel_x_count[x_min] < MIN_X_PIXEL_COUNT
    BY <1>2, <1>3, <1>5, <2>2 DEF WalkXMin
  <2>3. CASE pc' = "x_max" /\ UNCHANGED x_min
             /\ (x_min = W \/ pixel_x_count[x_min] >= MIN_X_PIXEL_COUNT)
    BY <1>2, <1>3, <1>5, <2>3 DEF WalkXMin
  <2> QED BY <1>5, <2>1, <2>2, <2>3 DEF WalkXMin
<1>6. CASE WalkXMax
  <2>1. pixel_x_count[x_max] \in Nat \/ x_max = -1
    BY DEF BoundsInv
  <2>2. CASE x_max' = x_max - 1 /\ UNCHANGED pc /\ x_max # -1 /\ pixel_x_count[x_max] < MIN_X_PIXEL_COUNT
    BY <1>2, <1>3, <1>6, <2>2 DEF WalkXMax
  <2>3. CASE pc' = "y_min" /\ UNCHANGED x_max
             /\ (x_max = -1 \/ pixel_x_count[x_max] >= MIN_X_PIXEL_COUNT)
    BY <1>2, <1>3, <1>6, <2>3 DEF WalkXMax
  <2> QED BY <1>6, <2>1, <2>2, <2>3 DEF WalkXMax, Down
<1>7. CASE WalkYMin
  <2>1. pixel_y_count[y_min] \in Nat \/ y_min = H
    BY DEF BoundsInv
  <2>2. CASE y_min' = y_min + 1 /\ UNCHANGED pc /\ y_min # H /\ pixel_y_count[y_min] < MIN_Y_PIXEL_COUNT
    BY <1>2, <1>3, <1>7, <2>2 DEF WalkYMin
  <2>3. CASE pc' = "y_max" /\ UNCHANGED y_min
             /\ (y_min = H \/ pixel_y_count[y_min] >= MIN_Y_PIXEL_COUNT)
    BY <1>2, <1>3, <1>7, <2>3 DEF WalkYMin
  <2> QED BY <1>7, <2>1, <2>2, <2>3 DEF WalkYMin
<1>8. CASE WalkYMax
  <2>1. pixel_y_count[y_max] \in Nat \/ y_max = -1
    BY DEF BoundsInv
  <2>2. CASE y_max' = y_max - 1 /\ UNCHANGED pc /\ y_max # -1 /\ pixel_y_count[y_max] < MIN_Y_PIXEL_COUNT
    BY <1>2, <1>3, <1>8, <2>2 DEF WalkYMax
  <2>3. CASE pc' = "bounds" /\ UNCHANGED y_max
             /\ (y_max = -1 \/ pixel_y_count[y_max] >= MIN_Y_PIXEL_COUNT)
    BY <1>2, <1>3, <1>8, <2>3 DEF WalkYMax
  <2> QED BY <1>8, <2>1, <2>2, <2>3 DEF WalkYMax, Down
<1> QED BY <1>5, <1>6, <1>7, <1>8 DEF Walk

(* The box is between the outermost columns and lines with enough red.     *)
LEMMA WriteStep == ASSUME IInv, WriteInfo PROVE IInv'
<1> USE DEF WriteInfo
<1>1. CountsInv' /\ BoundsInv'
  BY DEF IInv, CountsInv, BoundsInv, counts, bounds, Sides, RedInColumn, RedInLine
<1>2. WalksInv'
  BY DEF WalksInv, Sides
<1>3. Cardinality(red) \in Nat /\ Cardinality(red) >= MIN_PIXEL_COUNT
  BY RedCount DEF IInv, CountsInv, WalksInv, Sides
<1>4. /\ \A x \in Columns : pixel_x_count[x] \in Nat /\ pixel_x_count[x] = RedInColumn(x)
      /\ \A y \in Lines : pixel_y_count[y] \in Nat /\ pixel_y_count[y] <= RedInLine(y)
      /\ \A y \in Lines : RedInLine(y) \in Nat
      /\ NoLineWraps => \A y \in Lines : pixel_y_count[y] = RedInLine(y)
  BY CounterFacts, LineCount DEF IInv, Byte
<1>5. CASE NoSide
  <2>1. cube_info'.exist = FALSE /\ InfoInv'
    BY <1>5 DEF IInv, InfoInv, Infos, Lost
  <2>2. \/ \A x \in Columns : pixel_x_count[x] < MIN_X_PIXEL_COUNT
        \/ \A y \in Lines : pixel_y_count[y] < MIN_Y_PIXEL_COUNT
    BY <1>5 DEF IInv, BoundsInv, WalksInv, Sides, NoSide
  <2>3. NoLineWraps => ~(\E x \in Columns : EnoughInColumn(x)) \/ ~(\E y \in Lines : EnoughInLine(y))
    BY <1>4, <2>2 DEF EnoughInColumn, EnoughInLine
  <2>4. BoxIsRed' /\ NothingLeftOut'
    BY <2>1, <2>3 DEF BoxIsRed, NothingLeftOut, NoLineWraps, EnoughInColumn, EnoughInLine,
                      RedInColumn, RedInLine, counts
  <2> QED BY <1>1, <1>2, <2>1, <2>4 DEF IInv
<1>6. CASE ~NoSide
  <2>1. x_min \in Columns /\ x_max \in Columns /\ y_min \in Lines /\ y_max \in Lines
    BY <1>6 DEF IInv, BoundsInv, NoSide
  <2>2. /\ pixel_x_count[x_min] >= MIN_X_PIXEL_COUNT /\ pixel_x_count[x_max] >= MIN_X_PIXEL_COUNT
        /\ pixel_y_count[y_min] >= MIN_Y_PIXEL_COUNT /\ pixel_y_count[y_max] >= MIN_Y_PIXEL_COUNT
    BY <1>6, <2>1 DEF IInv, WalksInv, Sides, NoSide
  <2>3. /\ \A x \in Columns : x < x_min \/ x > x_max => pixel_x_count[x] < MIN_X_PIXEL_COUNT
        /\ \A y \in Lines : y < y_min \/ y > y_max => pixel_y_count[y] < MIN_Y_PIXEL_COUNT
    BY DEF IInv, WalksInv, Sides
  <2>4. x_min <= x_max /\ y_min <= y_max
    BY <1>4, <2>1, <2>2, <2>3
  <2>5. /\ (x_min + x_max) \div 2 \in x_min..x_max
        /\ (y_min + y_max) \div 2 \in y_min..y_max
    BY <2>1, <2>4
  <2>6. InfoInv'
    BY <1>3, <1>6, <2>1, <2>5 DEF IInv, InfoInv, Infos
  <2>7. /\ cube_info'.exist = TRUE
        /\ cube_info'.x_min = x_min /\ cube_info'.x_max = x_max
        /\ cube_info'.y_min = y_min /\ cube_info'.y_max = y_max
        /\ cube_info'.x_center = (x_min + x_max) \div 2
        /\ cube_info'.y_center = (y_min + y_max) \div 2
    BY <1>6
  <2>8. /\ EnoughInColumn(x_min) /\ EnoughInColumn(x_max)
        /\ EnoughInLine(y_min) /\ EnoughInLine(y_max)
    BY <1>4, <2>1, <2>2 DEF EnoughInColumn, EnoughInLine
  <2>9. /\ \A x \in Columns : EnoughInColumn(x) => x \in x_min..x_max
        /\ NoLineWraps => \A y \in Lines : EnoughInLine(y) => y \in y_min..y_max
    BY <1>4, <2>1, <2>3 DEF EnoughInColumn, EnoughInLine
  <2>10. red' = red
    BY DEF counts
  <2>11. BoxIsRed'
    BY <2>5, <2>7, <2>8, <2>10 DEF BoxIsRed, EnoughInColumn, EnoughInLine, RedInColumn, RedInLine
  <2>12. NothingLeftOut'
    BY <1>3, <2>1, <2>7, <2>8, <2>9, <2>10
    DEF NothingLeftOut, NoLineWraps, EnoughInColumn, EnoughInLine, RedInColumn, RedInLine
  <2> QED BY <1>1, <1>2, <2>6, <2>11, <2>12 DEF IInv
<1> QED BY <1>5, <1>6

LEMMA SendStep == ASSUME IInv, Send PROVE IInv'
BY DEF Send, IInv, CountsInv, BoundsInv, WalksInv, InfoInv, BoxIsRed, NothingLeftOut, Sides,
       counts, bounds, RedInColumn, RedInLine

LEMMA StutterStep == ASSUME IInv, UNCHANGED vars PROVE IInv'
BY DEF vars, IInv, CountsInv, BoundsInv, WalksInv, InfoInv, BoxIsRed, NothingLeftOut, NoLineWraps,
       EnoughInColumn, EnoughInLine, counts, bounds, RedInColumn, RedInLine

LEMMA Invariant == Spec => []IInv
<1>1. IInv /\ [Next]_vars => IInv'
  BY CountStep, WalkStep, WriteStep, SendStep, StutterStep DEF Next
<1> QED BY <1>1, InitInv, PTL DEF Spec

-----------------------------------------------------------------------------
(* The indices of the walks stay within one place of the counters          *)
(* (cube_detection.c:70-73), and the counters are bytes.                   *)
THEOREM TypeCorrect == Spec => []TypeOK
<1>1. IInv => TypeOK
  <2> SUFFICES ASSUME IInv PROVE TypeOK
    OBVIOUS
  <2>1. pixel_x_count \in [Columns -> Byte] /\ pixel_y_count \in [Lines -> Byte]
    BY CounterFacts DEF IInv, CountsInv
  <2> QED BY <2>1 DEF IInv, CountsInv, BoundsInv, InfoInv, Infos, Sides, TypeOK
<1> QED BY <1>1, Invariant, PTL

(* The sides of a cube that is reported have enough red in truth, and its  *)
(* centre lies between them (cube_detection.c:70-87): counters that start  *)
(* over, and what lies beyond them, never widen the box to nothing.        *)
THEOREM BoxIsRedCorrect == Spec => []BoxIsRed
<1>1. IInv => BoxIsRed
  BY DEF IInv
<1> QED BY <1>1, Invariant, PTL

(* In a picture whose lines fit a byte a cube is seen exactly if there is  *)
(* enough red, and nothing with enough of it is left out of the box.       *)
THEOREM NothingLeftOutCorrect == Spec => []NothingLeftOut
<1>1. IInv => NothingLeftOut
  BY DEF IInv
<1> QED BY <1>1, Invariant, PTL

(* A frame that says the cube is gone repeats the numbers of the frame     *)
(* before it (cube_detection.c:65, 75; rt1064_uart.c:50-57).               *)
THEOREM LostCubeStaysCorrect == Spec => LostCubeStays
<1>1. Init => SentInv
  BY DEF Init, SentInv, Infos, Empty
<1>2. IInv /\ IInv' /\ SentInv /\ [Next]_vars => SentInv'
  <2> SUFFICES ASSUME IInv, IInv', SentInv, [Next]_vars PROVE SentInv'
    OBVIOUS
  <2>1. CASE CountPixels
    BY <2>1 DEF CountPixels, IInv, InfoInv, SentInv, Infos
  <2>2. CASE Walk
    BY <2>2 DEF Walk, WalkXMin, WalkXMax, WalkYMin, WalkYMax, SentInv
  <2>3. CASE WriteInfo
    <3>1. CASE NoSide
      BY <2>3, <3>1 DEF WriteInfo, Lost, IInv, InfoInv, SentInv, Infos
    <3>2. CASE ~NoSide
      <4>1. cube_info'.exist = TRUE /\ pc' = "send" /\ sent' = sent
        BY <2>3, <3>2 DEF WriteInfo
      <4> QED BY <4>1 DEF SentInv
    <3> QED BY <3>1, <3>2
  <2>4. CASE Send
    BY <2>4 DEF Send, SentInv
  <2>5. CASE UNCHANGED vars
    BY <2>5 DEF vars, SentInv
  <2> QED BY <2>1, <2>2, <2>3, <2>4, <2>5 DEF Next
<1>3. IInv /\ SentInv /\ [Next]_vars =>
        (~sent'.exist => [sent' EXCEPT !.exist = sent.exist] = sent) \/ UNCHANGED vars
  <2> SUFFICES ASSUME IInv, SentInv, [Next]_vars, ~sent'.exist
               PROVE  [sent' EXCEPT !.exist = sent.exist] = sent
    OBVIOUS
  <2>1. CASE Send
    BY <2>1 DEF Send, SentInv
  <2>2. CASE sent' = sent
    BY <2>2 DEF IInv, InfoInv, Infos
  <2>3. Send \/ sent' = sent
    BY DEF Next, CountPixels, Walk, WalkXMin, WalkXMax, WalkYMin, WalkYMax, WriteInfo, vars
  <2> QED BY <2>1, <2>2, <2>3
<1> QED BY <1>1, <1>2, <1>3, Invariant, PTL DEF Spec, LostCubeStays

-----------------------------------------------------------------------------
(* How long a picture may take: each step of a walk takes a column or line *)
(* from what is before it, or hands over to the next walk.                 *)

WalksLeft(walk) ==
  CASE walk = "x_min" -> 6 [] walk = "x_max" -> 5 [] walk = "y_min" -> 4
    [] walk = "y_max" -> 3 [] walk = "bounds" -> 2 [] walk = "send" -> 1 [] OTHER -> 0

PlacesLeft == (W - x_min) + (x_max + 1) + (H - y_min) + (y_max + 1)

StepsLeft == WalksLeft(pc) + (IF pc \in Sides THEN PlacesLeft ELSE 0)

LEMMA PlacesType == BoundsInv => PlacesLeft \in 0..2 * (W + H)
BY DEF BoundsInv, PlacesLeft

LEMMA StepsType == BoundsInv => StepsLeft \in 0..2 * (W + H) + 6
<1> SUFFICES ASSUME BoundsInv PROVE StepsLeft \in 0..2 * (W + H) + 6
  OBVIOUS
<1>1. WalksLeft(pc) \in 0..6
  BY DEF WalksLeft
<1> QED BY <1>1, PlacesType DEF StepsLeft

LEMMA StepsGoDown == ASSUME BoundsInv, Walk \/ WriteInfo \/ Send PROVE StepsLeft' < StepsLeft
<1>1. PlacesLeft \in Nat
  BY PlacesType
<1>2. CASE Walk
  <2>1. pc \in Sides /\ pc' \in Sides
    BY <1>2 DEF Walk, WalkXMin, WalkXMax, WalkYMin, WalkYMax, Sides
  <2>2. \/ PlacesLeft' = PlacesLeft - 1 /\ pc' = pc
        \/ PlacesLeft' = PlacesLeft /\ WalksLeft(pc') = WalksLeft(pc) - 1
    <3> USE DEF BoundsInv, PlacesLeft, WalksLeft, Down
    <3>1. CASE WalkXMin
      BY <3>1 DEF WalkXMin
    <3>2. CASE WalkXMax
      BY <3>2 DEF WalkXMax
    <3>3. CASE WalkYMin
      BY <3>3 DEF WalkYMin
    <3>4. CASE WalkYMax
      BY <3>4 DEF WalkYMax
    <3> QED BY <1>2, <3>1, <3>2, <3>3, <3>4 DEF Walk
  <2>3. WalksLeft(pc) \in Nat
    BY DEF WalksLeft
  <2> QED BY <1>1, <2>1, <2>2, <2>3 DEF StepsLeft
<1>3. CASE WriteInfo
  BY <1>1, <1>3 DEF WriteInfo, StepsLeft, WalksLeft, Sides
<1>4. CASE Send
  BY <1>4 DEF Send, StepsLeft, WalksLeft, Sides
<1> QED BY <1>2, <1>3, <1>4

(* The board is back at its camera (cube_detection.c:70-73, main.c:38-72)  *)
(* after at most one step for each column and line in each direction and   *)
(* six more, whatever the walks read beyond the counters: with a board     *)
(* that goes on, this is PictureAnswered.                                  *)
THEOREM PictureIsBounded ==
  Spec => /\ [](StepsLeft \in 0..2 * (W + H) + 6)
          /\ [][Walk \/ WriteInfo \/ Send => StepsLeft' < StepsLeft]_vars
<1>1. IInv => StepsLeft \in 0..2 * (W + H) + 6
  BY StepsType DEF IInv
<1>2. IInv /\ [Next]_vars => [Walk \/ WriteInfo \/ Send => StepsLeft' < StepsLeft]_vars
  BY StepsGoDown DEF IInv
<1> QED BY <1>1, <1>2, Invariant, PTL DEF Spec
=============================================================================
