----------------------------- MODULE WheelDrive -----------------------------
(***************************************************************************)
(* From the outputs of the outer controllers to the duty of the motors     *)
(* (motion_control_new.c:113-272, 356-372, pid_control.c).  PIT_CH1 runs   *)
(* the cascade: the outer loop every fourth period, the middle loop, which *)
(* shares the three speeds out among the three omni wheels, every second,  *)
(* the inner loop, which adds to the duty, in each.  PIT_CH2 reads the     *)
(* encoders through a moving average, key 4 switches the motors.  What the *)
(* outer loop puts out by mode is the subject of OuterLoop; here it is any *)
(* element of Commands.  A wheel turns at its set speed or stands still.   *)
(* Decimal fractions are integers, in the unit that the definition names;  *)
(* the readings and the filter have the width of the code's int16.         *)
(***************************************************************************)
EXTENDS Integers, FiniteSets

CONSTANTS
  Commands,        \* records of outputs: forward, left, rotation
  Driven,          \* the motors whose inner loop is followed
  WINDOW_SIZE,     \* readings in the moving average
  INT16_MAX,       \* 32767
  MOTOR_PWM_DUTY_MAX,
  error_limit,     \* limit of the integral of the angular speed
  ZeroReset,       \* errors of 0 after which the integral is cleared, 50
  ZeroCut          \* errors of 0 after which a motor is cut, 300

MotorIndex == {"LEFT", "RIGHT", "REAR"}

ASSUME DriveAssumption ==
  /\ \A c \in Commands : c.forward \in Int /\ c.left \in Int /\ c.rotation \in Int
  /\ Driven \subseteq MotorIndex
  /\ WINDOW_SIZE \in Nat \ {0} /\ INT16_MAX \in Nat
  /\ MOTOR_PWM_DUTY_MAX \in Nat
  /\ error_limit \in Nat
  /\ ZeroReset \in Nat
  /\ ZeroCut \in Nat /\ ZeroCut >= 3

VARIABLES
  outputs,         \* of translation_forward_pid, translation_left_pid, rotation_pid
  angular_v_pid,   \* its error_sum, error_zero_count, pre_error, and output in 1/100
  set_speed,       \* per wheel
  pid_controller,  \* per driven motor: pre_error, pre_pre_error, error_zero_count
  pwm_duty, dir,   \* per driven motor: duty, and level of the direction pin
  filter,          \* per driven motor: buffer, index, sum
  current_speed,   \* per driven motor
  pit_count,       \* modulo 4
  motor_enable_flag,
  applied,         \* the inner loop ran since the switch was last pressed
  straight,        \* middle loops in a row without rotation, at most ZeroReset + 1
  recent           \* per driven motor: its last readings, the latest first

cascade == <<outputs, angular_v_pid, set_speed, pid_controller, pwm_duty, dir, pit_count, straight>>
sensing == <<filter, current_speed, recent>>
vars == <<cascade, sensing, motor_enable_flag, applied>>

Magnitude(n) == IF n < 0 THEN -n ELSE n
(* Conversion to an integer and integer division drop the fraction. *)
Quotient(n, d) == IF n < 0 THEN -((-n) \div d) ELSE n \div d
(* Conversion to an int16 keeps the lower 16 bits. *)
INT16 == -INT16_MAX - 1 .. INT16_MAX
Int16(n) == ((n + INT16_MAX + 1) % (2 * INT16_MAX + 2)) - (INT16_MAX + 1)
Clamp(n, bound) == IF n > bound THEN bound ELSE IF n < -bound THEN -bound ELSE n

Init ==
  /\ outputs = [forward |-> 0, left |-> 0, rotation |-> 0]
  /\ angular_v_pid = [error_sum |-> 0, error_zero_count |-> 0, pre_error |-> 0, output |-> 0]
  /\ set_speed = [m \in MotorIndex |-> 0]
  /\ pid_controller = [m \in Driven |-> [pre_error |-> 0, pre_pre_error |-> 0, error_zero_count |-> 0]]
  /\ pwm_duty = [m \in Driven |-> 0] /\ dir = [m \in Driven |-> 1]
  /\ filter = [m \in Driven |-> [buffer |-> [i \in 0 .. WINDOW_SIZE - 1 |-> 0], index |-> 0, sum |-> 0]]
  /\ current_speed = [m \in Driven |-> 0]
  /\ recent = [m \in Driven |-> [i \in 0 .. WINDOW_SIZE - 1 |-> 0]]
  /\ pit_count = 0
  /\ motor_enable_flag = FALSE /\ applied = FALSE
  /\ straight = 0

-----------------------------------------------------------------------------
(* The middle loop. *)

(* The integral survives a rest. *)
PositionPIDKeepsSum(pid, error) ==
  LET sum == Clamp(pid.error_sum + error, error_limit)
  IN  [error_sum |-> sum,
       error_zero_count |-> IF error # 0 THEN 0 ELSE (pid.error_zero_count + 1) % (ZeroReset + 1),
       pre_error |-> error,
       output |-> 100 * error + 2 * sum + 10 * (error - pid.pre_error)]

(* PID_calculate, PID_POI, with the gains of the angular speed; the two    *)
(* translations have kp 1 and no other gain, they pass their target on.    *)
PositionPID(pid, error) ==
  LET rests == error = 0 /\ pid.error_zero_count + 1 > ZeroReset
      sum == IF rests THEN 0 ELSE Clamp(pid.error_sum + error, error_limit)
  IN  [error_sum |-> sum,
       error_zero_count |-> IF error # 0 \/ rests THEN 0 ELSE pid.error_zero_count + 1,
       pre_error |-> error,
       output |-> 100 * error + 2 * sum + 10 * (error - pid.pre_error)]

(* COS_PI_D_6 is 0.866, SIN_PI_D_6 is 0.5; turn is in 1/100. *)
WheelSpeedsSigns(forward, left, turn) ==
  [m \in MotorIndex |->
     CASE m = "LEFT"  -> Quotient(-866 * forward + 500 * left - 10 * turn, 1000)
       [] m = "RIGHT" -> Quotient( 866 * forward + 500 * left + 10 * turn, 1000)
       [] m = "REAR"  -> Quotient(1000 * left + 10 * turn, 1000)]
WheelSpeeds(forward, left, turn) ==
  [m \in MotorIndex |->
     CASE m = "LEFT"  -> Quotient(-866 * forward + 500 * left - 10 * turn, 1000)
       [] m = "RIGHT" -> Quotient( 866 * forward + 500 * left - 10 * turn, 1000)
       [] m = "REAR"  -> Quotient(1000 * left + 10 * turn, 1000)]

motor_translation_angular_v_pid_calc_apply ==
  /\ angular_v_pid' = PositionPID(angular_v_pid, outputs'.rotation)
  /\ set_speed' = WheelSpeeds(outputs'.forward, outputs'.left, angular_v_pid'.output)
  /\ straight' = IF outputs'.rotation # 0 THEN 0
                 ELSE IF straight > ZeroReset THEN straight ELSE straight + 1

-----------------------------------------------------------------------------
(* The inner loop. *)

(* Gains in 1/10. *)
Gains(m) == IF m = "REAR" THEN [kp |-> -120, ki |-> -40, kd |-> -3]
                          ELSE [kp |-> 120, ki |-> 40, kd |-> 5]

(* PID_calculate, PID_INC: the errors kept, and the output. *)
IncrementPID(pid, error) ==
  [pre_error |-> error,
   pre_pre_error |-> pid.pre_error,
   error_zero_count |->            \* nothing depends on how far it counts
     IF error # 0 THEN 0
     ELSE IF pid.error_zero_count < ZeroCut THEN pid.error_zero_count + 1 ELSE ZeroCut]

Increment(m, pid, error) ==
  LET k == Gains(m)
  IN  Quotient(k.kp * (error - pid.pre_error) + k.ki * error
                 + k.kd * (error - 2 * pid.pre_error + pid.pre_pre_error), 10)

DutyUnlimited(duty) == duty
(* motor_set_duty limits the duty that it stores and puts out. *)
Duty(duty) == Clamp(duty, MOTOR_PWM_DUTY_MAX)

(* motor_plus_duty: a motor without error for long is cut, then added to.  *)
PlusDutyNoCut(m, delta) == Duty(pwm_duty[m] + delta)
PlusDuty(m, delta) ==
  Duty((IF pid_controller'[m].error_zero_count >= ZeroCut THEN 0 ELSE pwm_duty[m]) + delta)

(* The pin keeps its level at duty 0, after the cut as well. *)
Dir(m) == IF pwm_duty'[m] > 0 THEN 1 ELSE IF pwm_duty'[m] < 0 THEN 0 ELSE dir[m]

DutyWhenOff(m) == pwm_duty[m]
DutyOff(m) == 0

motor_speed_pid_calc_apply ==
  LET error(m) == set_speed'[m] - current_speed[m]
  IN  /\ pid_controller' = [m \in Driven |-> IncrementPID(pid_controller[m], error(m))]
      /\ pwm_duty' = [m \in Driven |->
            IF motor_enable_flag THEN PlusDuty(m, Increment(m, pid_controller[m], error(m)))
                                 ELSE DutyOff(m)]
      /\ dir' = [m \in Driven |-> Dir(m)]

-----------------------------------------------------------------------------
(* The interrupts and the key. *)

OuterPeriod == 4
motion_control_pid_callback ==
  /\ pit_count' = (pit_count + 1) % 4
  /\ IF pit_count' % OuterPeriod = 0 THEN outputs' \in Commands ELSE UNCHANGED outputs
  /\ IF pit_count' % 2 = 0 THEN motor_translation_angular_v_pid_calc_apply
                           ELSE UNCHANGED <<angular_v_pid, set_speed, straight>>
  /\ motor_speed_pid_calc_apply
  /\ applied' = TRUE
  /\ UNCHANGED <<sensing, motor_enable_flag>>

(* Takes the value after the oldest out of the sum. *)
MAF_UpdateOffByOne(f, new_value) ==
  [buffer |-> [f.buffer EXCEPT ![f.index] = new_value],
   index |-> (f.index + 1) % WINDOW_SIZE,
   sum |-> Int16(Int16(f.sum - f.buffer[(f.index + 1) % WINDOW_SIZE]) + new_value)]

(* MAF_Update: the two corrections of the sum, each of which may wrap.     *)
MAF_Update(f, new_value) ==
  [buffer |-> [f.buffer EXCEPT ![f.index] = new_value],
   index |-> (f.index + 1) % WINDOW_SIZE,
   sum |-> Int16(Int16(f.sum - f.buffer[f.index]) + new_value)]
motor_encoder_pit_callback ==
  /\ \E turns \in [Driven -> BOOLEAN] :
       LET reading(m) == IF turns[m] THEN Int16(set_speed[m]) ELSE 0
       IN  /\ filter' = [m \in Driven |-> MAF_Update(filter[m], reading(m))]
           /\ recent' = [m \in Driven |->
                 [i \in 0 .. WINDOW_SIZE - 1 |-> IF i = 0 THEN reading(m) ELSE recent[m][i - 1]]]
  /\ current_speed' = [m \in Driven |-> Quotient(filter'[m].sum, WINDOW_SIZE)]
  /\ UNCHANGED <<cascade, motor_enable_flag, applied>>

key_switch_motor ==
  /\ motor_enable_flag' = ~motor_enable_flag
  /\ applied' = FALSE
  /\ UNCHANGED <<cascade, sensing>>

Next == motion_control_pid_callback \/ motor_encoder_pit_callback \/ key_switch_motor

Spec == Init /\ [][Next]_vars

-----------------------------------------------------------------------------
(* Properties. *)

TypeOK ==
  /\ outputs \in Commands \union {[forward |-> 0, left |-> 0, rotation |-> 0]}
  /\ angular_v_pid.error_sum \in -error_limit .. error_limit
  /\ angular_v_pid.error_zero_count \in 0 .. ZeroReset
  /\ angular_v_pid.pre_error \in Int /\ angular_v_pid.output \in Int
  /\ set_speed \in [MotorIndex -> Int]
  /\ pid_controller \in [Driven -> [pre_error : Int, pre_pre_error : Int, error_zero_count : 0 .. ZeroCut]]
  /\ pwm_duty \in [Driven -> -MOTOR_PWM_DUTY_MAX .. MOTOR_PWM_DUTY_MAX]
  /\ dir \in [Driven -> {0, 1}]
  /\ filter \in [Driven -> [buffer : [0 .. WINDOW_SIZE - 1 -> INT16], index : 0 .. WINDOW_SIZE - 1, sum : INT16]]
  /\ current_speed \in [Driven -> INT16]
  /\ recent \in [Driven -> [0 .. WINDOW_SIZE - 1 -> INT16]]
  /\ pit_count \in 0 .. 3
  /\ motor_enable_flag \in BOOLEAN /\ applied \in BOOLEAN
  /\ straight \in 0 .. ZeroReset + 1

(* Once the inner loop has run behind the switch (menu.c:294), a motor     *)
(* that is switched off has no duty, whatever the controllers still add.   *)
OffMeansStill == ~motor_enable_flag /\ applied => \A m \in Driven : pwm_duty[m] = 0

(* motor_plus_duty, 132-137: a motor that has held its speed for so long   *)
(* has no duty; what the same call adds behind the cut is 0.               *)
HeldMotorIsCut == \A m \in Driven :
  pid_controller[m].error_zero_count >= ZeroCut => pwm_duty[m] = 0

(* motor_set_duty, 119-123: the direction pin always fits the duty.        *)
PinFitsDuty == \A m \in Driven : pwm_duty[m] # 0 => (dir[m] = 1 <=> pwm_duty[m] > 0)

(* The speeds of the three wheels (268-270) drive, shift and turn the car  *)
(* as the outer loop asks, but for the fractions: none of the three shows  *)
(* up in another, and no callback leaves the wheels an older command.      *)
WheelsFollowCommand ==
  LET near(a, b) == Magnitude(a - b) < 4000
      l == set_speed["LEFT"]  r == set_speed["RIGHT"]  b == set_speed["REAR"]
  IN  /\ near(1000 * (r - l), 1732 * outputs.forward)
      /\ near(1000 * (l + r + 2 * b), 3000 * outputs.left)
      /\ near(1000 * (b - l - r), 30 * angular_v_pid.output)

(* pid_control.c:19-22: an integral that has built up in a turn does not   *)
(* turn the car for ever: without rotation for long, the car runs straight.*)
StraightAfterRest ==
  straight > ZeroReset =>
    Magnitude(set_speed["REAR"] - set_speed["LEFT"] - set_speed["RIGHT"]) < 3

(* The sums of the first readings of r. *)
Totals(r) ==
  LET total[i \in 0 .. WINDOW_SIZE] == IF i = 0 THEN 0 ELSE total[i - 1] + r[i - 1]
  IN  total

(* MAF_Update, 171-182: the speed is the mean of the last readings, though *)
(* the sum is only ever corrected, never formed anew.  A window whose sum  *)
(* is beyond an int16 gives a wrong speed, and leaves no trace in the      *)
(* speeds after it: the next window that fits has its mean again.          *)
SpeedIsMean == \A m \in Driven :
  LET total == Totals(recent[m])[WINDOW_SIZE]
  IN  total \in INT16 => current_speed[m] = Quotient(total, WINDOW_SIZE)
=============================================================================
