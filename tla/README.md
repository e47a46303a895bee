# Verification of the SmartCar firmware

The repository drives a three-wheeled car that follows a track, finds red cubes
on it, reads the picture on each cube and pushes the cube off to the side that
the picture asks for. Three programs run on three boards:

| board | program | language |
|---|---|---|
| car (RT1064) | `src/Main/project/user` | C, one main loop and interrupts |
| cube detector (MCX Vision) | `src/MCXVision/project/user` | C |
| classifier (OpenART) | `src/OpenART/demo/main.py` | MicroPython |

`src/Tools` holds a debugger for recorded images (TypeScript) and image
converters. The models are about the three programs: what they do to each other
over serial lines, and what interrupts and main loop of the car do to each other
through shared variables.

## Inventory

Each part is given with the state it keeps, its operations, the parts it meets,
what is hard about it and what makes it correct.

**MCX link** (`MCX_Vision.c`, `MCXVision/project/user/rt1064_uart.c`,
`zf_common_fifo.c`). State: `mcx_uart_fifo`, `mcx_data_recv_finish_flag`,
`mcx_init_flag`, `cube_info`. Operations: the board sends a frame
(`rt1064_uart_send_cube_info`), the UART interrupt collects it
(`mcx_receive_data_callback`), the 20 ms tick of PIT_CH3 parses it
(`mcx_cube_data_handle_pit_call`). Hard: bytes that come while a frame waits are
dropped, bytes may be lost or garbled, a refused frame stays in the fifo, two
source trees must agree on the length. Correct when what is shown is one whole
frame, each newer than the last, and noise costs a bounded number of frames.

**MCX handshake** (`mcx_init_wait`, `rt1064_uart_init_wait`). State: the
time-out, the board's read buffer. Hard: the board may come up before, during or
after the wait, bytes get lost, either side is reset alone. Correct when the wait
ends and both sides agree on its outcome.

**OpenART link** (`OpenART.c`, `main.py`). State: `art_uart_fifo_buffer`, its
index, `art_data_recv_finish_flag`, `current_cube_face_info`. Operations:
`send_frame` with its rests, `art_receive_data_callback`,
`art_cube_data_handle_pit_call`. Hard: the interrupt stores each byte before it
looks at it and goes on storing while a text waits; the car comes in anywhere in
a frame. Correct as for the MCX link, with the index inside the buffer.

**Mode machine** (`motion_mode_calc`). State: `motion_control`,
`image_identify_wait_flag`, the target flag, `cube_push_dir`, the list of cubes.
Run by the main loop; reads what both links, the gyroscope and the grayscale
sensor write from interrupts. Hard: interrupts between any two reads, flags and
angles that outlive the cube they belong to, modes that wait for an event.
Correct when each cube gets its full waiting time, its own target and its own
push, and no mode is waited in for ever.

**Outer control loop** (`motor_rotation_translation_pid_calc_apply`). State: the
outputs of three controllers, kept where a mode assigns none. Run every 8 ms by
PIT_CH1, against the main loop that changes the mode. Hard: outputs inherited from
the mode before; a mode whose outputs do not bring about what it waits for.

**Motor speed loops** (`motor_speed_pid_calc_apply`, `motor_plus_duty`,
`PID_calculate`, the moving average). State: duty, set speed, three errors per
wheel, the integral of the angular speed, a window of readings per encoder. Run by
PIT_CH1 (the three loops, with three periods) and PIT_CH2 (the encoders), against
`key_switch_motor` in the main loop. Hard: an incremental controller that is cut off,
what is left in an integral, the enable flag that the main loop flips at any time, a
sum that is only ever corrected and may leave an int16. Correct when the wheels do what was
commanded and nothing else, a motor that is off or cut has no duty, and a sum that has
wrapped leaves no trace.

**Start of the car and gyroscope** (`main.c`, `gyroscope.c`). State: the stage of
`main`, offset, sample count, heading. `main` starts the gyroscope interrupt, waits,
starts the other interrupts, shakes hands with the detector and enters its loop. Hard:
the offset is the mean of the first samples that the interrupt sees, `main` waits for it
by time only, interrupts may be missed, the car may be reset at any point while the board
goes on. Correct when the control loops only ever run on a finished offset and every
start gets to the main loop.

**Grayscale sensor** (`grayscale.c`): one assignment.

**Keys and menu** (`zf_device_key.c`, `menu.c`, `main.c`). State: press time and
state of each key, page, selected row, parameters, `motor_enable_flag`. The
scanner is an interrupt; each handler of the main loop reads a state, acts and
clears it. Hard: the scanner between the three, a main loop slower than the
scanner, keys that are held. Correct when one press acts once and none is lost
without cause.

**Track image** (`mt_image.c`). State: `image_result` (offset and element), the
threshold. `search` finds the edges of the road and decides which element of the
track the car is in; its sections jump back and forth, and the outer loop reads the
element from its interrupt in between. Hard: the jumps, two copies of the element, and
walks over pixels that have no end of their own. Correct when the element follows the
order in which a track has its elements, at every moment, a car at the zebra line sets off
again once the line is gone, and the jumps of a search never go round.

**Camera** (`zf_device_mt9v03x.c`, `fsl_csi.c`, `main.c`). State: two image buffers,
two registers of the sensor interface that are used in turn, the driver's stack of empty
and queue of full buffers, the pointer and the flag that the main loop reads. Hard: two
buffers for two registers leave none for the reader, so the interface may write into the
buffer that is being copied; an interrupt may come a frame late and find both flags; the
flag is cleared before the copy. Correct when the queues stay in step, no picture is
forgotten or replaced by an older one, and a torn picture is one of two frames that follow
each other.

**Cube detection** (`MCXVision/project/user/cube_detection.c`). State: counters of red
pixels per row and column, the box, what is sent. Hard: counters of 8 bits over lines of
320 pixels, walks that read before they check, results that outlive the picture. Correct
when the box has red on all sides and leaves none out, and every picture is answered.

**Scheduling** (`isr.c`, `main.c`). PIT_CH0 to PIT_CH3 share one handler, the
UART handlers have its priority: none of them interrupts another, all of them
interrupt the main loop.

**Debugger** (`src/Tools/debugger`). Runs the image code on recorded
frames on a PC; sessions with a frame index, request handlers with awaits in between. **Drivers and vendor libraries**
(`src/Main/libraries`, `src/MCXVision/libraries`): third-party, except for the
functions that the models use: `fifo_write_buffer`, `key_scanner` and the interrupt of the
sensor interface.

## Modules

| module | models | composed of |
|---|---|---|
| `CubeRegister` | what motion control may assume of `cube_info` and of `current_cube_face_info` | |
| `McxLink` | sender, noise, receive interrupt and tick of the MCX link | implements `CubeRegister` |
| `McxHandshake` | both sides of the handshake, lost bytes, resets of the car | |
| `StartUp` | the start of `main`, the gyroscope's offset, missed interrupts | extends `McxHandshake` |
| `ArtLink` | sender, losses, receive interrupt and tick of the OpenART link | implements `CubeRegister` |
| `MotionMode` | the mode machine, its interrupts and the clock | |
| `OuterLoop` | the outer loop and a car that obeys | extends `MotionMode` |
| `WheelDrive` | middle and inner loop, duty, encoders, motor switch | |
| `TrackCycle` | the order of the elements that the outer loop may see | |
| `TrackElement` | the sections of `search` and the element they report | implements `TrackCycle` |
| `KeyMenu` | scanner, key handlers and menu | |
| `MainLoop` | a pass of the main loop: `search`, then the keys | composes `KeyMenu` and `TrackElement` |
| `Camera` | sensor interface, its driver and the copy of the main loop | |
| `CubeDetection` | counters, walks, box and report of the detector | |
| `MCMcxLink`, `MCArtLink`, `MCMotionMode`, `MCOuterLoop`, `MCWheelDrive` | values of the constants for TLC | |
| `McxLink_proofs`, `ArtLink_proofs`, `StartUp_proofs`, `OuterLoop_proofs` (with `MotionMode`), `WheelDrive_proofs`, `Camera_proofs`, `CubeDetection_proofs`, `MainLoop_proofs` (with `KeyMenu` and `TrackElement`) | theorems | |

**From code to model.** A handler that no other handler interrupts is one step. The
main loop is interrupted by all of them, so it is cut at every read or write of a
variable that it shares with one: `pc` names the next such access in `MotionMode`
and `KeyMenu`. A byte or a character is known by the frame it was sent in and its
position there; the code cannot see either, the properties are about nothing
else. A field of `cube_info` or of the face is the set of frames its value was made
from: one frame when it is whole, several when it is a mixture. `sscanf` is kept as
what it does: it assigns field after field and stops at the first character that
its format does not match. Offsets and distances are signs, 0 for "within the
tolerance of the code", angles are quarter turns, times are counted in the clock
tick that the code compares with.

`WheelDrive` computes with the code's gains, as integers in units of a hundredth or a
tenth; the outputs of the outer loop are any of a few commands, and a wheel turns at
its set speed or is held. The readings, the filter's ring and sum and the speed have the
width of the code's int16 (`Int16`): both corrections of the sum wrap. `search` is cut at its labels and at every assignment to
`image_result.element_type`; how many segments a side has, how it bends and whether it
stops is whatever the loops over the rows can produce. Three of these loops have no end of
their own and run for ever on some images (`EndlessLoop`, `RunAway`, `RunOn`). What the
check for the zebra line sees of a row is whether it begins with road, and whether it has
more than nine changes. `allowed` is a history variable: whether loops were enabled when the
loop that is now reported was announced; it is kept in every step and cleared when the
element is no longer one of a loop.

A picture of the `Camera` is a sequence of rows, and a row is known by the number of the
frame it was written in; the interface writes row by row while `memcpy` reads row by row.
`CubeDetection` takes any set of red pixels, and its counters wrap at `CounterSize`. In
`StartUp` a sample of the gyroscope is counted, not added; the delays of `main` are counted
in periods of the gyroscope's interrupt.

**The register.** `CubeRegister` says: the register holds one whole reading, every
change brings one that is newer than everything it held; once the line was
disturbed it promises nothing. `McxLink` and `ArtLink` are shown to implement it
with `sent` the number of frames begun and `disturbed` the first lost or garbled
byte. `MotionMode` takes the register for granted: its step `SeeCube` replaces
all of `cube_info` at once.

## Runs

Each run is one question. All of them finish within two minutes.

| run | question and answer |
|---|---|
| `McxLink` | With up to two bytes lost or garbled anywhere: is the fifo safe (`TypeOK`), when is the receiver in step again (`ResyncAfterFault`), and on a quiet line, is what is shown whole, ordered (`RegisterSpec`) and live (`FramesGetThrough`)? Yes; from the second frame after the noise. |
| `McxLinkAsCommitted` | Do the two programs as committed understand each other (`DataIsReceived`)? No: 29 characters are sent, 36 are expected, `cube_info` never changes. |
| `StartUp` | The board comes up at any time or never, a byte is lost, interrupts are missed, the car is reset twice: do the loops wait for the offset (`LoopsHaveOffset`), do both sides leave the handshake with the same outcome (`BothAgree`), is only a late board given up (`GivesUpOnLateBoard`), does every start end (`BootEnds`)? Yes, unless the answer itself was lost or the car was reset; the properties say so. |
| `ArtLink` | The car starts to listen anywhere, up to three bytes are lost: is the index in the buffer (`TypeOK`), does every frame after a loss get through (`NoneSkipped`), and is the text whole (`RegisterSpec`, `TerminatorInBuffer`) on a line without losses? Yes. |
| `MotionMode` | Cube after cube, interrupts anywhere: is the waiting time kept (`IdentifyWaitsFull`) and over at some time (`IdentifyEnds`), is the target of this approach (`AlignedToOwnTarget`), does no mode wait for a cube that is gone (`LostCubeGivesUp`), does the list hold (`TypeOK`)? Yes. |
| `MotionModeTrackAngle` | Is the heading to come back to the track's (`LineAngleIsTracks`)? No: it follows the car round the cube. |
| `OuterLoop` | With loop and car: does the car stand still while it reads the face (`StandsStillToIdentify`), and does every push end on the line (`EpisodeEnds`)? Yes. |
| `WheelDrive` | Commands change, wheels are held, the switch is pressed at any time: do the wheels do what is commanded and nothing else (`WheelsFollowCommand`), is the car straight after a turn (`StraightAfterRest`), is a motor without power when it is off or cut (`OffMeansStill`, `HeldMotorIsCut`), is the duty limited (`TypeOK`), is the speed the mean of the last readings (`SpeedIsMean`)? Yes; the last whenever the sum of the readings fits an int16, also behind sums that did not. |
| `TrackElement` | Whatever images may show: does the element follow the order of the track at every moment (`CycleSpec`), does a car at the zebra line set off and go on once the line is gone (`CarSetsOff`), is a loop announced, turned into and driven only if loops were enabled when it was announced (`LoopsAllowed`), do the two copies of the element agree (`CopiesAgree`), does every search end (`SearchEnds`)? Yes; but a search may run on for ever in one of three loops over pixels, which `SearchEnds` names, and a loop that was announced is driven although loops are disabled meanwhile. |
| `KeyMenu` | Main loop of any speed, two keys whose handlers meet: does a short press act once (`ShortPressActsOnce`), is none lost by a fast main loop (`NoPressLost`), do rows and parameters keep their limits (`TypeOK`)? Yes. |
| `Camera` | Sensor, interrupt and main loop at any speed, the interrupt a frame late, the mode changed at any time: are the driver's queues empty between interrupts (`NothingPilesUp`), is the copy of two frames at most (`PictureOfTwo`), never older (`NeverOlder`), and none forgotten (`NoneMissed`)? Yes; one picture of one frame is not promised, as there is no third buffer. |
| `CubeDetection` | Every picture after every other: has the box red on its edges (`BoxIsRed`), does it leave nothing out unless a line wraps its counter (`NothingLeftOut`), is every picture answered (`PictureAnswered`)? Yes. |

**Bounds.** The links are checked with short frames that keep the order of the
sizes: on the car a frame has 38 bytes, the fifo 64 and a tick carries 20; in the run
6, 7 and 3. So a frame takes more than one tick, a waiting frame can only cover the
first bytes of the next one, and a frame without tail overruns the fifo. Six frames
are enough for a fault, the two frames it may cost, another fault and its recovery;
the proofs of `McxLink` remove the bound. `ArtLink` has 5 bytes, 7 and 4: a tick
carries less than a frame, and three lost bytes let the index run to the end. The
handshake of `StartUp` is counted in rounds of 10 ms with a time-out of 12 rounds
instead of 200, enough for the time-out that moves to be subtracted several times; a
board buffer of 4 wraps within the wait; one lost byte and two resets are one more than
what a single failure needs; the offset has 3 samples in a wait of 6 periods, of which 3
may be missed, so that the last one comes just in time.
`MotionMode` has a list of one cube, so that it is full at the second, two classes of
different push directions, all kinds of reading and three clock ticks of waiting, so
that a wait that began earlier shows. `OuterLoop` has two headings: a quarter turn
and back. `KeyMenu` presses keys together when their handlers meet: the page key
with the motor key, plus with minus, which is also the motor key.
`WheelDrive` follows the inner loop of one motor (`Driven`; the motors meet nowhere
in it), with a window of 2, so that the ring wraps, and speeds of 8 bits (`INT16_MAX` is 127),
so that two readings of 67 leave the range, three commands (straight on, a
curve, sideways), and 2 and 3 samples without error instead of 50 and 300, the fewest
after which the kept errors are known; `error_limit` leaves an integral that would turn
the car. `TrackElement` has no bound: three segments stand for three or more.
`Camera` has pictures of three rows, so that a torn one has a middle, nine frames, enough
for the buffers to change places four times behind a late interrupt, one late interrupt,
and one row that arrives during a copy: copying is faster than the sensor. `CubeDetection`
has four columns and two rows with counters of 0 to 3: a row of four red pixels wraps its
counter to 0, a column cannot; all 256 pictures follow each other in any order.

`MaxFrames`, `MaxFaults`, `MaxLost`, `MaxResets`, `MaxMissed`, `MaxRaces`, `MaxSkips`, `Never`,
`Headings` and `Together` are the bounds; they stand in the guards of the steps they limit.

**Fairness.** A board that is on sends for ever (`rt1064_uart.c` is called from an
endless loop), the timers tick for ever and the main loop never blocks after the
start, hence weak fairness of `SendByte`, `Tick`, `MainStep`, `Clock` and of the outer
loop. `search` is executed to its
end by the main loop (`SearchStep`), or until it enters a loop that has none. In `StartUp` the main loop,
the handshake's delay and the periods of the gyroscope's timer go on (`BootFairSpec`), the board is
not assumed to come up. The detector reads pictures for ever once they arrive (`CubeDetection`).
Nothing is assumed about noise,
resets, fingers, when a board is switched on and what a camera sees. The only
fairness about the world is in `OuterLoop`: a car whose outputs turn it turns, and
one that drives off or back gets there; `EpisodeEnds` depends on it and says so.

## Proofs

The theorems hold for every value of the constants that meets the assumptions
beside them in the modules.

*McxLink.* `TypeCorrect` and `AnnouncedLengthCorrect` hold under any noise. The first
is inductive; the second needs that nothing is collected before the handshake ends
(`NothingBeforeInit`), because the start-up clears the fifo but not the flag.
`FrameIntactCorrect` and `LinkImplementsRegister` assume that both programs agree on
the length (`SameLength`). That a waiting frame is whole is not inductive: the
invariant `QuietInv` adds that the characters in the fifo are the last ones sent of the
frame in progress, without a gap (`Collected`), that what waits is newer than what is
shown (`Waiting`) and that only frames sent to their end are shown. It holds as
long as there was no fault, which is what `LinkInv` says.
`ResyncCorrect` assumes in addition that a tick carries no more bytes than a frame has
(`SlowWire`; 20 and 38 on the car) and needs no quiet line. Its invariant `ResyncInv`
speaks of the frames after the last disturbed one: what was collected in them has no
gap, what waits was announced since the last tick, and the receiver has shown a
recent frame or follows the second frame from its HEAD. Without `SlowWire` a waiting
frame could cover the HEAD of frame after frame.

*StartUp.* `BothAgreeCorrect`: for every time-out and any losses and resets, a car that is
ready has a board that runs, and without a lost answer or a reset a car that gave up has
one that does not; the invariant adds that an answer on the wire comes from a running
board. `GivesUpOnLateBoardCorrect` bounds the moving time-out: what the code subtracts only
makes the wait longer, never shorter. `LoopsHaveOffsetCorrect` needs that the wait is as long
as the samples and the misses together, an assumption of the module.

*ArtLink.* `TypeCorrect` holds for any text. `NoneSkippedCorrect`, `TerminatorInBufferCorrect` and
`LinkImplementsRegister` assume that the sender rests behind the head of a frame
(`RestAfterHead`, `main.py:66-70`) and the second also that the buffer has room for a text
and the next head (`RoomForHead`). Neither is inductive: `Heard` says what the car has of the
frames since the last it did not hear in full, so that a waiting text can only be followed
by bytes of the next frame up to that rest; `Quiet` adds the first frame, which is heard
from anywhere and then assigns nothing.

*MotionMode.* `TypeCorrect`, `IdentifyWaitsFullCorrect` and `AlignedToOwnTargetCorrect`, for all
readings, faces, headings, waiting times and lists. The waiting time needs the relation
between the clock of the wait and the time since the mode was entered: the wait flag is
down whenever the mode is entered. The target needs that the target flag is down whenever
the approach begins and that a target that is set belongs to the approach.

*OuterLoop.* `LoopImplementsModes`: the closed loop implements the mode machine, so all that
is proved of `MotionMode` holds in it. `StandsStillToIdentifyCorrect` assumes a wait of two
ticks or more: between the change of mode and the first tick the loop may have run
for the mode before, between the first and the second it has run for `CUBE_IDENTIFY`.

*Camera.* `NothingPilesUpCorrect`, `PictureOfTwoCorrect`, `NoneMissedCorrect`, `NeverOlderCorrect`,
for any height and any number of late interrupts. The invariant describes both buffers row by
row: the one in progress has the rows written so far of its frame above those of an earlier
one, the registers hold both buffers, and the copy lags behind what memory holds. `TypeCorrect`
follows from it.

*CubeDetection.* `BoxIsRedCorrect` and `NothingLeftOutCorrect` for any size, counter and
threshold: the invariant relates each counter to the red pixels of its line modulo
`CounterSize` and says that what a walk has passed had too few. `LostCubeStaysCorrect`: a report
without a cube repeats the place of the last one.

*WheelDrive.* `TypeCorrect`, `OffMeansStillCorrect`, `HeldMotorIsCutCorrect` and
`PinFitsDutyCorrect`, for all commands, windows, limits and motors, as long as a motor is cut
after three samples or more. The cut is not inductive by itself: what is added behind it is
0 because the controller's errors are, and that is what the count of errors of 0 says of
the errors it keeps (`CountMeansRest`). `WheelsFollowCommandCorrect` rests on `WheelSums`: the three
sums of the wheels' speeds differ from the command only by what three integer conversions
drop. `StraightAfterRestCorrect` assumes a rest of more than one run of the middle loop (50 in
the code); `RestInv` says that the integral is 0 or that the controller has counted as
many errors of 0 as there were runs without rotation.
`SpeedIsMeanCorrect`, for every window and all readings: the code keeps a running sum in an int16 that it
only ever corrects by the reading that comes and the one that goes. The invariant
(`RingTurns`) is that the ring, read from its index on, holds the last readings in their order
and the sum is theirs, but for multiples of 2^16; each correction keeps this, wrapped or not
(`Int16Adds`), and two numbers of an int16 that differ by a multiple of 2^16 are the same. A
conversion that does not fit keeps the lower bits, as the compilers of the board do; C leaves
it to them. A step shifts the sums of all prefixes (`TotalsShift`). The sum is a
recursive function; the library's induction theorems take an operator and cannot be used, so
`SetInduction` argues by the least element of a set of numbers.

*KeyMenu* (in `MainLoop_proofs`). `TypeCorrect`, for any keys and times and any number of
parameters with any limits. `ShortPressActsOnceCorrect`: that a short press acts once is not
inductive. `PressInv` adds that a key whose state is SHORT has a press that was not acted on,
or a handler has acted on it and stands before its clearing (`OpenPress`, `Clearing`); KEY_4 is
cleared by two handlers. `NoPressLostCorrect`: `PassInv` says which keys a pass that began
after the last scan has left behind, and that those are clear.

*TrackElement* (in `MainLoop_proofs`). `CopiesAgreeCorrect`, `LoopsAllowedCorrect`
and `SearchImplementsCycle`, the refinement of `TrackCycle`, from one
invariant, `TrackInv`. A loop is reported by what `search` holds in its own copy of the element,
so `LoopsAllowed` and the order of the elements need that the copies agree; that a curve is never
reported inside a loop needs that `prev_el_normal` is true of the element (`PrevIsNormal`). TLC sees every
state of this module; the proof adds the reasons, and lets them carry over to `MainLoop`.

*MainLoop.* `MainLoopImplementsBoth`: every behaviour of the main loop is one of `KeyMenu` and
one of `TrackElement`, hence all of the above holds of both together, and the menu shows the
switch that `search` goes by (`SwitchShown`; `menu.c:88` makes them one variable). There is no run of
`MainLoop`: the product of the two state spaces is too large for TLC, which is why the
composition is proved.

*Bounds behind the liveness properties.* Liveness itself is out of the prover's reach, but what it
rests on is not: a number that each step of the waiting side lowers and no other step raises.
`SearchIsBounded` (18 sections at most: a jump back costs a stage of the element; what a section does
within is one step, and one that never ends is left for `endless`),
`PictureIsBounded` (a step for each column and line in both directions, and six), `StartIsBounded` (the
periods of the delay, two steps for each round of the handshake, the stages of `main`) and
`IdentifyIsBounded` (the time left, then the points of the main loop) are these for
`SearchEnds`, `PictureAnswered`, `BootEnds` and `IdentifyEnds`, for every value of the constants. What
remains for TLC is that the side always has a step to take. `TimeOutIsTwiceCorrect`, on the way:
`time_out` is half of the clock, so the car gives up after exactly `2 * TimeOut + 1`
rounds; this also shows that the bound `Never` on the clock cuts nothing off.

The type invariants of `StartUp`, `OuterLoop`, `Camera` and `CubeDetection`, the length and
wholeness of an announced frame (`AnnouncedLength`, `FrameIntact`), the direction pin
(`PinFitsDuty`) and `LostCubeStays` are proved for every instance and therefore not run again
on a small one.

Model-checked only: what needs fairness (`FramesGetThrough`, `BootEnds`, `IdentifyEnds`,
`LostCubeGivesUp`, `EpisodeEnds`, `CarSetsOff`, `SearchEnds`, `PictureAnswered`). All other properties of the passing runs are proved.

## Disagreements between code and comments

The two violation runs; `PROJECT.json` quotes the lines. Also met, without a run: the class
`number` is hidden by a parameter of that name, so that odd numbers are not pushed to the
left (`OpenART.c:110`); the wait for the detector subtracts a time-out that moves and takes about
twice as long as it says (`MCX_Vision.c:44`); a line of more than 255 red pixels wraps its
counter and falls out of the box (`cube_detection.c:51`), which `NothingLeftOut` excludes by name; the picture may be torn
between two frames, as two buffers for two registers leave none for the reader
(`zf_device_mt9v03x.c:394`); a threshold that no grey level separates is not initialised
(`mt_image.c:59`);
a motor key that is held switches every 20 ms (`zf_device_key.c:72`, `menu.c:297`);
`LINE_ANGLE_BACK` keeps the -30 forward of the mode before (`motion_control_new.c:343`);
`r_stop0` is set twice and `r_stop` never (`mt_image.c:214`); a row with the zebra line that begins with road is not looked at, and
the element may leave `Zebra` in spite of the line (`mt_image.c:121`); three loops of `search` never
end on some images: in the loop to the left when an empty column begins above row 3
(`mt_image.c:505`), along the crossing in a row without road, as `xl` and `xr` wrap and column 187 is
never binarised (`mt_image.c:617` and `622`), and in the middle line of a loop when `y_start` is 0
(`mt_image.c:688`); the sum of the encoder's filter is an int16, so that readings of more than
6553 on average give a wrong speed as long as they last (`motion_control_new.c:173`); `l_pad` and `r_pad` are never
true (`mt_image.c:197`); `sw` may be 0 (`mt_image.c:715`);
before a row is selected the parameter keys adjust `params[-1]` (`menu.c:311`);
`valid` of the face is set whatever the text was (`OpenART.c:98`), and with lost bytes the
terminator can go to index -1 (`OpenART.c:95`); a car that is reset alone finds no board,
because the board answers the wake byte once (`rt1064_uart.c:43`).

## Not modelled

The pixels of the track image: the threshold, the walks of `search` along the edges and the
offset are long computations of one call on one image, without shared state; TLC cannot
enumerate images on which they are interesting. The debugger is a tool on the
developer's PC that the car does not depend on. `motor_all_stop`, `motor_all_unpower` and `motor_run_with_speed` are never called,
so the three calculation flags stay set. Values of the controllers that are not numbers
are left out of `WheelDrive`. The drawing of the menu, the transfer of images and the vendor drivers are
input and output without state that the rest reads. The dynamics of the car are
abstracted to "it goes where its outputs drive it". That a PIT flag is cleared after its
callback, so that a late tick is lost, needs execution times and is left out; the
models let a tick come at any time.

## Plan

The modules were written in the order of the table above: the links first, as everything
rests on what they show, then the machine that decides, the loop that acts on it, and the
parts that feed both. What would come next, most important first:

1. *Composition of the links with the mode machine*: `MotionMode` over `CubeRegister`
   instead of a free `SeeCube`, with readings in their order.
2. *Walks of `search`* on small images, that they stay inside the image and that the
   offset is a number; the threshold against a reference definition.
3. *Ticks that are lost* because a PIT flag is cleared behind its callback, with execution
   times as constants.
4. *Debugger sessions* across awaits.
