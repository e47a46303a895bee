-------------------------- MODULE WheelDrive_proofs --------------------------
(***************************************************************************)
(* WheelDrive, proved for any set of commands, window, limits and motors:  *)
(* types, the switch, the cut of a motor that holds its speed, the         *)
(* direction pin, the speeds of the wheels and the rest after a turn.      *)
(***************************************************************************)
EXTENDS WheelDrive, TLAPS, WellFoundedInduction

(* Conversions to an integer give integers, and 0 for 0. *)
LEMMA QuotientInt ==
  ASSUME NEW n \in Int, NEW d \in Nat \ {0}
  PROVE  Quotient(n, d) \in Int /\ (n = 0 => Quotient(n, d) = 0)
BY DEF Quotient

(* A limited value is within the limit, and 0 stays 0. *)
LEMMA ClampRange ==
  ASSUME NEW n \in Int, NEW bound \in Nat
  PROVE  Clamp(n, bound) \in -bound .. bound /\ (n = 0 => Clamp(n, bound) = 0)
BY DEF Clamp

LEMMA MaxInt == INT16_MAX \in Nat
BY DriveAssumption DEF DriveAssumption

(* Division leaves a rest below the divisor. *)
LEMMA ModDiv ==
  ASSUME NEW n \in Int, NEW d \in Nat \ {0}
  PROVE  n % d \in 0 .. d - 1 /\ n \div d \in Int /\ n = (n \div d) * d + (n % d)
OBVIOUS

(* Between -d and d lies no multiple of d but 0. *)
LEMMA NoMultipleBetween ==
  ASSUME NEW k \in Int, NEW d \in Nat \ {0}, -d < k * d, k * d < d
  PROVE  k = 0
<1>1. CASE k >= 1
  <2>1. k * d >= d
    BY <1>1
  <2> QED  BY <2>1
<1>2. CASE k <= -1
  <2>1. k * d <= -d
    BY <1>2
  <2> QED  BY <2>1
<1> QED  BY <1>1, <1>2

(* Numbers that differ by a multiple have the same rest. *)
LEMMA SameRest ==
  ASSUME NEW d \in Nat \ {0}, NEW a \in Int, NEW b \in Int, NEW k \in Int, a = b + k * d
  PROVE  a % d = b % d
<1> DEFINE p == a \div d
           q == b \div d
           x == a % d
           y == b % d
<1>1. x \in 0 .. d - 1 /\ y \in 0 .. d - 1 /\ p \in Int /\ q \in Int /\ a = p * d + x /\ b = q * d + y
  BY ModDiv
<1> HIDE DEF p, q, x, y
<1>2. (q + k - p) * d = x - y
  <2>1. (q + k - p) * d = q * d + k * d - p * d
    BY <1>1
  <2> QED  BY <1>1, <2>1
<1>3. q + k - p = 0
  <2> DEFINE j == q + k - p
  <2>1. j \in Int /\ -d < j * d /\ j * d < d
    BY <1>1, <1>2
  <2> HIDE DEF j
  <2>2. j = 0
    BY <2>1, NoMultipleBetween
  <2> QED  BY <2>2 DEF j
<1>4. x - y = 0
  BY <1>2, <1>3
<1> QED  BY <1>1, <1>4 DEF x, y

(* A conversion gives an int16, and keeps a number that is one. *)
LEMMA Int16Value ==
  ASSUME NEW n \in Int
  PROVE  Int16(n) \in INT16 /\ (n \in INT16 => Int16(n) = n)
<1> DEFINE d == 2 * INT16_MAX + 2
           m == n + INT16_MAX + 1
<1>1. d \in Nat \ {0} /\ m \in Int
  BY MaxInt
<1>2. m % d \in 0 .. d - 1
  <2> HIDE DEF d, m
  <2> QED  BY <1>1, ModDiv
<1>3. ASSUME m \in 0 .. d - 1 PROVE m % d = m
  <2> HIDE DEF d, m
  <2> QED  BY <1>1, <1>3
<1>4. Int16(n) = (m % d) - (INT16_MAX + 1)
  BY DEF Int16
<1>5. n \in INT16 => m \in 0 .. d - 1
  BY MaxInt DEF INT16
<1> QED  BY <1>2, <1>3, <1>4, <1>5, MaxInt DEF INT16

(* A conversion before an addition makes no difference to the one behind. *)
LEMMA Int16Adds ==
  ASSUME NEW a \in Int, NEW b \in Int
  PROVE  Int16(Int16(a) + b) = Int16(a + b)
<1> DEFINE d == 2 * INT16_MAX + 2
           m == a + INT16_MAX + 1
           k == m \div d
<1>1. d \in Nat \ {0} /\ m \in Int
  BY MaxInt
<1>2. k \in Int /\ m % d \in Int /\ m = k * d + (m % d)
  <2> HIDE DEF d, m
  <2> QED  BY <1>1, ModDiv
<1>3. Int16(a) = (m % d) - (INT16_MAX + 1)
  BY DEF Int16
<1> DEFINE x == Int16(a) + b + INT16_MAX + 1
           y == a + b + INT16_MAX + 1
<1>4. x \in Int /\ y \in Int /\ -k \in Int /\ x = y + (-k) * d
  <2>1. (-k) * d = - (k * d)
    <3> HIDE DEF k, d
    <3> QED  BY <1>1, <1>2
  <2> HIDE DEF k
  <2>2. k * d \in Int
    BY <1>1, <1>2
  <2> HIDE DEF d
  <2> QED  BY <1>1, <1>2, <1>3, <2>1, <2>2, MaxInt
<1>5. x % d = y % d
  <2> HIDE DEF x, y, d, k
  <2> QED  BY <1>1, <1>4, SameRest
<1> QED  BY <1>5 DEF Int16

(* An int16 is an integer, and 0 is an int16. *)
LEMMA Int16IsInt == \A n \in INT16 : n \in Int
BY MaxInt DEF INT16

LEMMA ZeroIsInt16 == 0 \in INT16
BY MaxInt DEF INT16

(* A part of an int16 is one. *)
LEMMA QuotientInt16 ==
  ASSUME NEW n \in INT16, NEW d \in Nat \ {0}
  PROVE  Quotient(n, d) \in INT16
<1>1. n \in Int
  BY Int16IsInt
<1>2. ASSUME NEW j \in Nat PROVE j \div d \in 0 .. j
  <2>1. j \div d \in Int /\ j % d \in 0 .. d - 1 /\ j = (j \div d) * d + (j % d)
    BY ModDiv
  <2> DEFINE q == j \div d
  <2> HIDE DEF q
  <2>2. CASE q < 0
    <3>1. q * d <= -d
      BY <2>2, <2>1 DEF q
    <3> QED  BY <2>1, <3>1 DEF q
  <2>3. CASE q >= 0
    <3>1. q * d >= q
      BY <2>3, <2>1 DEF q
    <3> QED  BY <2>1, <2>3, <3>1 DEF q
  <2> QED  BY <2>1, <2>2, <2>3 DEF q
<1>3. CASE n < 0
  <2>1. (-n) \div d \in 0 .. -n
    BY <1>1, <1>2, <1>3
  <2> QED  BY <1>1, <1>3, <2>1, MaxInt DEF Quotient, INT16
<1>4. CASE n >= 0
  <2>1. n \div d \in 0 .. n
    BY <1>1, <1>2, <1>4
  <2> QED  BY <1>1, <1>4, <2>1, MaxInt DEF Quotient, INT16
<1> QED  BY <1>1, <1>3, <1>4

(* The gains are integers. *)
LEMMA GainsInt ==
  ASSUME NEW m
  PROVE  Gains(m).kp \in Int /\ Gains(m).ki \in Int /\ Gains(m).kd \in Int
BY DEF Gains

PIDs == [pre_error : Int, pre_pre_error : Int, error_zero_count : 0 .. ZeroCut]

(* The increment of an integer error is an integer, and 0 where the error  *)
(* and the two before it are 0.                                            *)
LEMMA IncrementInt ==
  ASSUME NEW m, NEW pid \in PIDs, NEW error \in Int
  PROVE  /\ Increment(m, pid, error) \in Int
         /\ error = 0 /\ pid.pre_error = 0 /\ pid.pre_pre_error = 0 => Increment(m, pid, error) = 0
<1> DEFINE k == Gains(m)
           a == error - pid.pre_error
           c == error - 2 * pid.pre_error + pid.pre_pre_error
           n == k.kp * a + k.ki * error + k.kd * c
<1>1. a \in Int /\ c \in Int  BY DEF PIDs
<1>2. k.kp \in Int /\ k.ki \in Int /\ k.kd \in Int  BY GainsInt
<1>3. n \in Int  
  <2> HIDE DEF k, a, c
  <2> QED  BY <1>1, <1>2
<1>4. ASSUME error = 0, pid.pre_error = 0, pid.pre_pre_error = 0 PROVE n = 0
  <2>1. a = 0 /\ c = 0  BY <1>4
  <2> HIDE DEF k, a, c
  <2> QED  BY <2>1, <1>2, <1>4
<1>5. Increment(m, pid, error) = Quotient(n, 10)  BY DEF Increment
<1> HIDE DEF n
<1> QED  BY <1>3, <1>4, <1>5, QuotientInt

-----------------------------------------------------------------------------
(* Types. *)

Outputs == Commands \union {[forward |-> 0, left |-> 0, rotation |-> 0]}
AngularPIDs == {p \in [error_sum : Int, error_zero_count : Int, pre_error : Int, output : Int] :
                  /\ p.error_sum \in -error_limit .. error_limit
                  /\ p.error_zero_count \in 0 .. ZeroReset}
Window == 0 .. WINDOW_SIZE - 1
Filters == [buffer : [Window -> INT16], index : Window, sum : INT16]

(* TypeOK, and what it leaves out: the fields of the angular controller.   *)
Typed == TypeOK /\ angular_v_pid \in AngularPIDs

LEMMA OutputsInt ==
  ASSUME NEW o \in Outputs
  PROVE  o.forward \in Int /\ o.left \in Int /\ o.rotation \in Int
BY DriveAssumption DEF DriveAssumption, Outputs

(* The position controller stays within its limits. *)
LEMMA PositionPIDType ==
  ASSUME NEW pid \in AngularPIDs, NEW error \in Int
  PROVE  PositionPID(pid, error) \in AngularPIDs
<1>1. Clamp(pid.error_sum + error, error_limit) \in -error_limit .. error_limit
  <2>1. pid.error_sum + error \in Int  BY DEF AngularPIDs
  <2> QED  BY <2>1, ClampRange, DriveAssumption DEF DriveAssumption
<1> QED
  BY <1>1, DriveAssumption DEF DriveAssumption, AngularPIDs, PositionPID

(* The wheels get integer speeds. *)
LEMMA WheelSpeedsType ==
  ASSUME NEW f \in Int, NEW l \in Int, NEW t \in Int
  PROVE  WheelSpeeds(f, l, t) \in [MotorIndex -> Int]
<1>1. /\ Quotient(-866 * f + 500 * l - 10 * t, 1000) \in Int
      /\ Quotient( 866 * f + 500 * l - 10 * t, 1000) \in Int
      /\ Quotient(1000 * l + 10 * t, 1000) \in Int
  BY QuotientInt
<1> QED
  BY <1>1 DEF WheelSpeeds, MotorIndex

(* The inner controller keeps integer errors. *)
LEMMA IncrementPIDType ==
  ASSUME NEW pid \in PIDs, NEW error \in Int
  PROVE  IncrementPID(pid, error) \in PIDs
BY DriveAssumption DEF DriveAssumption, PIDs, IncrementPID

(* The filter stays a ring of int16. *)
LEMMA FilterType ==
  ASSUME NEW f \in Filters, NEW v \in INT16
  PROVE  MAF_Update(f, v) \in Filters
<1>1. (f.index + 1) % WINDOW_SIZE \in Window
  BY DriveAssumption DEF DriveAssumption, Filters, Window
<1>2. [f.buffer EXCEPT ![f.index] = v] \in [Window -> INT16]
  BY DEF Filters
<1>3. Int16(Int16(f.sum - f.buffer[f.index]) + v) \in INT16
  <2> DEFINE rest == f.sum - f.buffer[f.index]
  <2>1. rest \in Int /\ v \in Int
    BY Int16IsInt DEF Filters
  <2> HIDE DEF rest
  <2>2. Int16(rest) \in Int
    BY <2>1, Int16Value, Int16IsInt
  <2>3. Int16(Int16(rest) + v) \in INT16
    BY <2>1, <2>2, Int16Value
  <2> QED  BY <2>3 DEF rest
<1> QED
  BY <1>1, <1>2, <1>3 DEF MAF_Update, Filters

(* The motors and filters start with well-typed variables. *)
LEMMA InitTyped == Init => Typed
<1> SUFFICES ASSUME Init PROVE Typed
  OBVIOUS
<1> USE DriveAssumption DEF DriveAssumption, Init
<1>1. set_speed \in [MotorIndex -> Int] /\ current_speed \in [Driven -> INT16]
  BY ZeroIsInt16
<1>2. pid_controller \in [Driven -> PIDs]
  BY DEF PIDs
<1>3. pwm_duty \in [Driven -> -MOTOR_PWM_DUTY_MAX .. MOTOR_PWM_DUTY_MAX] /\ dir \in [Driven -> {0, 1}]
  OBVIOUS
<1>4. filter \in [Driven -> Filters] /\ recent \in [Driven -> [Window -> INT16]]
  BY ZeroIsInt16 DEF Filters, Window
<1>5. /\ angular_v_pid \in AngularPIDs
      /\ angular_v_pid.error_sum \in -error_limit .. error_limit
      /\ angular_v_pid.error_zero_count \in 0 .. ZeroReset
      /\ angular_v_pid.pre_error \in Int /\ angular_v_pid.output \in Int
  BY DEF AngularPIDs
<1>6. outputs \in Outputs
  BY DEF Outputs
<1>7. pit_count \in 0 .. 3 /\ straight \in 0 .. ZeroReset + 1
  OBVIOUS
<1>8. motor_enable_flag \in BOOLEAN /\ applied \in BOOLEAN
  OBVIOUS
<1> QED
  BY <1>1, <1>2, <1>3, <1>4, <1>5, <1>6, <1>7, <1>8 DEF Typed, TypeOK, PIDs, Filters, Window, Outputs

(* A callback of the cascade: what the middle loop leaves is well typed.   *)
LEMMA MiddleTyped ==
  ASSUME Typed, motion_control_pid_callback
  PROVE  /\ pit_count' \in 0 .. 3 /\ outputs' \in Outputs
         /\ angular_v_pid' \in AngularPIDs /\ set_speed' \in [MotorIndex -> Int]
         /\ straight' \in 0 .. ZeroReset + 1
<1> USE DEF motion_control_pid_callback
<1>1. pit_count' \in 0 .. 3
  BY DEF Typed, TypeOK
<1>2. outputs' \in Outputs
  BY DEF Typed, TypeOK, Outputs
<1>3. CASE pit_count' % 2 = 0
  <2> USE DEF motor_translation_angular_v_pid_calc_apply
  <2>1. outputs'.forward \in Int /\ outputs'.left \in Int /\ outputs'.rotation \in Int
    BY <1>2, OutputsInt
  <2>2. angular_v_pid' \in AngularPIDs
    BY <1>3, <2>1, PositionPIDType DEF Typed
  <2>3. set_speed' \in [MotorIndex -> Int]
    <3>1. angular_v_pid'.output \in Int
      BY <2>2 DEF AngularPIDs
    <3>2. set_speed' = WheelSpeeds(outputs'.forward, outputs'.left, angular_v_pid'.output)
      BY <1>3
    <3>3. \A f, l, turn \in Int : WheelSpeeds(f, l, turn) \in [MotorIndex -> Int]
      BY WheelSpeedsType
    <3> QED  BY <2>1, <3>1, <3>2, <3>3
  <2>4. straight' \in 0 .. ZeroReset + 1
    BY <1>3, DriveAssumption DEF DriveAssumption, Typed, TypeOK
  <2> QED  BY <1>1, <1>2, <2>2, <2>3, <2>4
<1>4. CASE pit_count' % 2 # 0
  BY <1>1, <1>2, <1>4 DEF Typed, TypeOK
<1> QED  BY <1>3, <1>4

(* A callback of the cascade: what the inner loop leaves.                  *)
LEMMA InnerTyped ==
  ASSUME Typed, motion_control_pid_callback, NEW m \in Driven
  PROVE  LET error == set_speed'[m] - current_speed[m]
         IN  /\ error \in Int
             /\ pid_controller[m] \in PIDs /\ pid_controller'[m] \in PIDs
             /\ pid_controller'[m] = IncrementPID(pid_controller[m], error)
             /\ pwm_duty'[m] = IF motor_enable_flag
                               THEN PlusDuty(m, Increment(m, pid_controller[m], error))
                               ELSE DutyOff(m)
             /\ pwm_duty'[m] \in -MOTOR_PWM_DUTY_MAX .. MOTOR_PWM_DUTY_MAX
             /\ dir'[m] = Dir(m) /\ dir'[m] \in {0, 1}
<1> DEFINE error == set_speed'[m] - current_speed[m]
           delta == Increment(m, pid_controller[m], error)
<1>1. motor_speed_pid_calc_apply
  BY DEF motion_control_pid_callback
<1>2. m \in MotorIndex
  BY DriveAssumption DEF DriveAssumption
<1>3. error \in Int
  BY <1>2, MiddleTyped, Int16IsInt DEF Typed, TypeOK
<1>4. pid_controller[m] \in PIDs
  BY DEF Typed, TypeOK, PIDs
<1>5. pid_controller'[m] = IncrementPID(pid_controller[m], error)
  BY <1>1 DEF motor_speed_pid_calc_apply
<1>6. pid_controller'[m] \in PIDs
  BY <1>3, <1>4, <1>5, IncrementPIDType
<1>7. pwm_duty'[m] = IF motor_enable_flag THEN PlusDuty(m, delta) ELSE DutyOff(m)
  BY <1>1 DEF motor_speed_pid_calc_apply
<1>8. pwm_duty'[m] \in -MOTOR_PWM_DUTY_MAX .. MOTOR_PWM_DUTY_MAX
  <2>1. delta \in Int
    BY <1>3, <1>4, IncrementInt
  <2>2. pwm_duty[m] \in Int
    BY DriveAssumption DEF DriveAssumption, Typed, TypeOK
  <2> HIDE DEF delta
  <2>3. PlusDuty(m, delta) \in -MOTOR_PWM_DUTY_MAX .. MOTOR_PWM_DUTY_MAX
    BY <2>1, <2>2, ClampRange, DriveAssumption DEF DriveAssumption, PlusDuty, Duty
  <2> QED  BY <1>7, <2>3, DriveAssumption DEF DriveAssumption, DutyOff
<1>9. dir'[m] = Dir(m)
  BY <1>1 DEF motor_speed_pid_calc_apply
<1>10. dir'[m] \in {0, 1}
  BY <1>9 DEF Dir, Typed, TypeOK
<1> HIDE DEF error
<1> QED  BY <1>3, <1>4, <1>5, <1>6, <1>7, <1>8, <1>9, <1>10 DEF error

(* Every step keeps the types. *)
LEMMA StepTyped == Typed /\ [Next]_vars => Typed'
<1> SUFFICES ASSUME Typed, [Next]_vars PROVE Typed'
  OBVIOUS
<1>1. CASE motion_control_pid_callback
  <2>1. /\ pid_controller' \in [Driven -> PIDs]
        /\ pwm_duty' \in [Driven -> -MOTOR_PWM_DUTY_MAX .. MOTOR_PWM_DUTY_MAX]
        /\ dir' \in [Driven -> {0, 1}]
    BY <1>1, InnerTyped DEF motion_control_pid_callback, motor_speed_pid_calc_apply
  <2>2. UNCHANGED <<filter, current_speed, recent, motor_enable_flag>> /\ applied' = TRUE
    BY <1>1 DEF motion_control_pid_callback, sensing
  <2> QED
    BY <1>1, <2>1, <2>2, MiddleTyped DEF Typed, TypeOK, PIDs, Outputs, AngularPIDs
<1>2. CASE motor_encoder_pit_callback
  <2> PICK turns \in [Driven -> BOOLEAN] :
        LET reading(m) == IF turns[m] THEN Int16(set_speed[m]) ELSE 0
        IN  /\ filter' = [m \in Driven |-> MAF_Update(filter[m], reading(m))]
            /\ recent' = [m \in Driven |->
                  [i \in Window |-> IF i = 0 THEN reading(m) ELSE recent[m][i - 1]]]
    BY <1>2 DEF motor_encoder_pit_callback, Window
  <2> DEFINE reading(m) == IF turns[m] THEN Int16(set_speed[m]) ELSE 0
  <2>1. \A m \in Driven : reading(m) \in INT16
    <3>1. \A m \in Driven : set_speed[m] \in Int
      BY DriveAssumption DEF DriveAssumption, Typed, TypeOK
    <3> QED  BY <3>1, Int16Value, ZeroIsInt16
  <2>2. filter \in [Driven -> Filters] /\ recent \in [Driven -> [Window -> INT16]]
    BY DEF Typed, TypeOK, Filters, Window
  <2>3. filter' \in [Driven -> Filters]
    <3>1. \A m \in Driven : MAF_Update(filter[m], reading(m)) \in Filters
      BY <2>1, <2>2, FilterType
    <3> QED  BY <3>1
  <2>4. recent' \in [Driven -> [Window -> INT16]]
    <3>1. ASSUME NEW m \in Driven, NEW i \in Window
          PROVE  (IF i = 0 THEN reading(m) ELSE recent[m][i - 1]) \in INT16
      BY <2>1, <2>2, DriveAssumption DEF DriveAssumption, Window
    <3> QED  BY <3>1
  <2>5. current_speed' \in [Driven -> INT16]
    <3>1. \A m \in Driven : filter'[m].sum \in INT16
      BY <2>3 DEF Filters
    <3>2. \A m \in Driven : Quotient(filter'[m].sum, WINDOW_SIZE) \in INT16
      BY <3>1, QuotientInt16, DriveAssumption DEF DriveAssumption
    <3> QED  BY <1>2, <3>2 DEF motor_encoder_pit_callback
  <2>6. UNCHANGED <<cascade, motor_enable_flag, applied>>
    BY <1>2 DEF motor_encoder_pit_callback
  <2> QED
    BY <2>3, <2>4, <2>5, <2>6 DEF Typed, TypeOK, cascade, Filters, Window
<1>3. CASE key_switch_motor
  BY <1>3 DEF key_switch_motor, cascade, sensing, Typed, TypeOK
<1>4. CASE UNCHANGED vars
  BY <1>4 DEF vars, cascade, sensing, Typed, TypeOK
<1> QED  BY <1>1, <1>2, <1>3, <1>4 DEF Next

(* Type correctness: among others, the duty of every motor stays within    *)
(* its limit, and the integral of the angular speed within its own.        *)
THEOREM TypeCorrect == Spec => []TypeOK
<1>1. Typed => TypeOK  BY DEF Typed
<1> QED  BY InitTyped, StepTyped, <1>1, PTL DEF Spec

-----------------------------------------------------------------------------
(* The switch, the cut and the pin.  The cut needs what the count of       *)
(* errors of 0 says of the errors that the controller has kept: behind one *)
(* the last is 0, behind two the last two are.                             *)

CountMeansRest == \A m \in Driven :
  /\ pid_controller[m].error_zero_count >= 1 => pid_controller[m].pre_error = 0
  /\ pid_controller[m].error_zero_count >= 2 => pid_controller[m].pre_pre_error = 0

MotorInv == Typed /\ CountMeansRest /\ OffMeansStill /\ HeldMotorIsCut /\ PinFitsDuty

LEMMA MotorInit == Init => MotorInv
<1> SUFFICES ASSUME Init PROVE MotorInv
  OBVIOUS
<1> QED
  BY InitTyped, DriveAssumption
  DEF DriveAssumption, Init, MotorInv, CountMeansRest, OffMeansStill, HeldMotorIsCut, PinFitsDuty

(* The inner loop, for one motor. *)
LEMMA InnerMotor ==
  ASSUME MotorInv, motion_control_pid_callback, NEW m \in Driven
  PROVE  /\ pid_controller'[m].error_zero_count >= 1 => pid_controller'[m].pre_error = 0
         /\ pid_controller'[m].error_zero_count >= 2 => pid_controller'[m].pre_pre_error = 0
         /\ ~motor_enable_flag => pwm_duty'[m] = 0
         /\ pid_controller'[m].error_zero_count >= ZeroCut => pwm_duty'[m] = 0
         /\ pwm_duty'[m] # 0 => (dir'[m] = 1 <=> pwm_duty'[m] > 0)
<1> DEFINE error == set_speed'[m] - current_speed[m]
           pid == pid_controller[m]
           delta == Increment(m, pid, error)
<1>1. /\ error \in Int /\ pid \in PIDs
      /\ pid_controller'[m] = IncrementPID(pid, error)
      /\ pwm_duty'[m] = IF motor_enable_flag THEN PlusDuty(m, delta) ELSE DutyOff(m)
      /\ pwm_duty'[m] \in -MOTOR_PWM_DUTY_MAX .. MOTOR_PWM_DUTY_MAX
      /\ dir'[m] = Dir(m)
  BY InnerTyped DEF MotorInv
<1>2. /\ pid.error_zero_count >= 1 => pid.pre_error = 0
      /\ pid.error_zero_count >= 2 => pid.pre_pre_error = 0
  BY DEF MotorInv, CountMeansRest
<1> HIDE DEF error, pid
<1>3. /\ pid_controller'[m].error_zero_count >= 1 => pid_controller'[m].pre_error = 0
      /\ pid_controller'[m].error_zero_count >= 2 => pid_controller'[m].pre_pre_error = 0
  BY <1>1, <1>2, DriveAssumption DEF DriveAssumption, IncrementPID, PIDs
<1>4. ~motor_enable_flag => pwm_duty'[m] = 0
  BY <1>1 DEF DutyOff
<1>5. ASSUME pid_controller'[m].error_zero_count >= ZeroCut PROVE pwm_duty'[m] = 0
  <2>1. error = 0 /\ pid.error_zero_count >= 2
    BY <1>1, <1>5, DriveAssumption DEF DriveAssumption, IncrementPID, PIDs
  <2>2. delta = 0
    BY <1>1, <1>2, <2>1, IncrementInt DEF PIDs
  <2>3. PlusDuty(m, 0) = 0
    BY <1>5, ClampRange, DriveAssumption DEF DriveAssumption, PlusDuty, Duty
  <2> QED  BY <1>1, <2>2, <2>3 DEF DutyOff
<1>6. pwm_duty'[m] # 0 => (dir'[m] = 1 <=> pwm_duty'[m] > 0)
  BY <1>1, DriveAssumption DEF DriveAssumption, Dir
<1> QED  BY <1>3, <1>4, <1>5, <1>6

LEMMA MotorStep == MotorInv /\ [Next]_vars => MotorInv'
<1> SUFFICES ASSUME MotorInv, [Next]_vars PROVE MotorInv'
  OBVIOUS
<1> USE DEF CountMeansRest, OffMeansStill, HeldMotorIsCut, PinFitsDuty
<1>1. Typed'
  BY StepTyped DEF MotorInv
<1>2. CASE motion_control_pid_callback
  <2>1. UNCHANGED motor_enable_flag
    BY <1>2 DEF motion_control_pid_callback
  <2> QED  BY <1>1, <1>2, <2>1, InnerMotor DEF MotorInv
<1>3. CASE motor_encoder_pit_callback
  BY <1>1, <1>3 DEF MotorInv, motor_encoder_pit_callback, cascade
<1>4. CASE key_switch_motor
  BY <1>1, <1>4 DEF MotorInv, key_switch_motor, cascade
<1>5. CASE UNCHANGED vars
  BY <1>1, <1>5 DEF MotorInv, vars, cascade, sensing
<1> QED  BY <1>2, <1>3, <1>4, <1>5 DEF Next

(* A motor that is switched off stands without power once the inner loop   *)
(* has run, for every history of the controllers.                          *)
THEOREM OffMeansStillCorrect == Spec => []OffMeansStill
<1>1. MotorInv => OffMeansStill  BY DEF MotorInv
<1> QED  BY MotorInit, MotorStep, <1>1, PTL DEF Spec

(* A motor that has held its speed for ZeroCut periods has no duty.        *)
THEOREM HeldMotorIsCutCorrect == Spec => []HeldMotorIsCut
<1>1. MotorInv => HeldMotorIsCut  BY DEF MotorInv
<1> QED  BY MotorInit, MotorStep, <1>1, PTL DEF Spec

(* The direction pin always fits the duty.                                 *)
THEOREM PinFitsDutyCorrect == Spec => []PinFitsDuty
<1>1. MotorInv => PinFitsDuty  BY DEF MotorInv
<1> QED  BY MotorInit, MotorStep, <1>1, PTL DEF Spec

-----------------------------------------------------------------------------
(* The middle loop: the speeds are those of the last command at any time.  *)

(* What an integer division by 1000 drops is less than 1000.               *)
LEMMA QuotientNear ==
  ASSUME NEW n \in Int
  PROVE  /\ Quotient(n, 1000) \in Int
         /\ 1000 * Quotient(n, 1000) - n < 1000
         /\ n - 1000 * Quotient(n, 1000) < 1000
<1>1. CASE n < 0
  <2>1. -n \in Nat /\ Quotient(n, 1000) = -((-n) \div 1000)
    BY <1>1 DEF Quotient
  <2> QED  BY <2>1
<1>2. CASE ~(n < 0)
  <2>1. Quotient(n, 1000) = n \div 1000
    BY <1>2 DEF Quotient
  <2> QED  BY <1>2, <2>1
<1> QED  BY <1>1, <1>2

(* The three sums of the speeds of the wheels: nothing is left of the two  *)
(* movements that a sum is not about.                                      *)
Follows(s, f, l, t) ==
  /\ s["LEFT"] \in Int /\ s["RIGHT"] \in Int /\ s["REAR"] \in Int
  /\ Magnitude(1000 * (s["RIGHT"] - s["LEFT"]) - 1732 * f) < 4000
  /\ Magnitude(1000 * (s["LEFT"] + s["RIGHT"] + 2 * s["REAR"]) - 3000 * l) < 4000
  /\ Magnitude(1000 * (s["REAR"] - s["LEFT"] - s["RIGHT"]) - 30 * t) < 3000

LEMMA WheelSums ==
  ASSUME NEW f \in Int, NEW l \in Int, NEW t \in Int
  PROVE  Follows(WheelSpeeds(f, l, t), f, l, t)
<1> DEFINE a == -866 * f + 500 * l - 10 * t
           b == 866 * f + 500 * l - 10 * t
           c == 1000 * l + 10 * t
           p == Quotient(a, 1000)
           q == Quotient(b, 1000)
           r == Quotient(c, 1000)
<1>1. WheelSpeeds(f, l, t) = [m \in MotorIndex |-> CASE m = "LEFT" -> p [] m = "RIGHT" -> q [] m = "REAR" -> r]
  BY DEF WheelSpeeds
<1>2. WheelSpeeds(f, l, t)["LEFT"] = p /\ WheelSpeeds(f, l, t)["RIGHT"] = q /\ WheelSpeeds(f, l, t)["REAR"] = r
  <2> HIDE DEF p, q, r
  <2> QED  BY <1>1 DEF MotorIndex
<1>3. a \in Int /\ b \in Int /\ c \in Int
  OBVIOUS
<1>4. /\ p \in Int /\ 1000 * p - a < 1000 /\ a - 1000 * p < 1000
      /\ q \in Int /\ 1000 * q - b < 1000 /\ b - 1000 * q < 1000
      /\ r \in Int /\ 1000 * r - c < 1000 /\ c - 1000 * r < 1000
  <2> HIDE DEF a, b, c
  <2> QED  BY <1>3, QuotientNear
<1>5. /\ Magnitude(1000 * (q - p) - 1732 * f) < 4000
      /\ Magnitude(1000 * (p + q + 2 * r) - 3000 * l) < 4000
      /\ Magnitude(1000 * (r - p - q) - 30 * t) < 3000
  <2> HIDE DEF p, q, r
  <2> QED  BY <1>4 DEF Magnitude
<1> QED  BY <1>2, <1>4, <1>5 DEF Follows

(* The wheels have the speeds of the outputs of the outer loop.            *)
SpeedsInv ==
  set_speed = WheelSpeeds(outputs.forward, outputs.left, angular_v_pid.output)

(* Behind a run without rotation the last error is 0, behind two the rate  *)
(* is; the integral is 0 or waits to be cleared.                           *)
RestInv ==
  /\ straight >= 1 => angular_v_pid.pre_error = 0
  /\ straight >= 2 => angular_v_pid.output = 2 * angular_v_pid.error_sum
  /\ angular_v_pid.error_sum = 0
       \/ (straight <= ZeroReset /\ straight <= angular_v_pid.error_zero_count)

MiddleInv == Typed /\ SpeedsInv /\ RestInv

LEMMA MiddleInit == Init => MiddleInv
<1> SUFFICES ASSUME Init PROVE MiddleInv
  OBVIOUS
<1>1. RestInv
  BY DriveAssumption DEF DriveAssumption, Init, RestInv
<1>2. SpeedsInv
  <2>1. /\ -866 * 0 + 500 * 0 - 10 * 0 = 0 /\ 866 * 0 + 500 * 0 - 10 * 0 = 0
        /\ 1000 * 0 + 10 * 0 = 0
    OBVIOUS
  <2>2. Quotient(0, 1000) = 0
    BY QuotientInt
  <2>3. WheelSpeeds(0, 0, 0) = [m \in MotorIndex |-> 0]
    BY <2>1, <2>2 DEF WheelSpeeds, MotorIndex
  <2> QED  BY <2>3 DEF Init, SpeedsInv
<1> QED  BY <1>1, <1>2, InitTyped DEF MiddleInv

(* One run of the angular controller. *)
LEMMA RestStep ==
  ASSUME MiddleInv, motor_translation_angular_v_pid_calc_apply, outputs' \in Outputs
  PROVE  RestInv'
<1> DEFINE error == outputs'.rotation
           pid == angular_v_pid
<1>1. /\ pid \in AngularPIDs /\ error \in Int /\ straight \in 0 .. ZeroReset + 1
      /\ error_limit \in Nat /\ ZeroReset \in Nat
  BY OutputsInt, DriveAssumption DEF DriveAssumption, MiddleInv, Typed, TypeOK
<1>2. /\ straight >= 1 => pid.pre_error = 0
      /\ pid.error_sum = 0 \/ (straight <= ZeroReset /\ straight <= pid.error_zero_count)
  BY DEF MiddleInv, RestInv
<1>3. /\ angular_v_pid' = PositionPID(pid, error)
      /\ straight' = IF error # 0 THEN 0 ELSE IF straight > ZeroReset THEN straight ELSE straight + 1
  BY DEF motor_translation_angular_v_pid_calc_apply
<1> HIDE DEF error, pid
<1>4. CASE error # 0
  BY <1>1, <1>3, <1>4, PositionPIDType DEF RestInv, PositionPID, AngularPIDs
<1>5. CASE error = 0 /\ pid.error_zero_count + 1 > ZeroReset
  BY <1>1, <1>2, <1>3, <1>5 DEF RestInv, PositionPID, AngularPIDs
<1>6. CASE error = 0 /\ ~(pid.error_zero_count + 1 > ZeroReset)
  <2>1. Clamp(pid.error_sum + error, error_limit) = pid.error_sum
    BY <1>1, <1>6 DEF AngularPIDs, Clamp
  <2> QED  BY <1>1, <1>2, <1>3, <1>6, <2>1 DEF RestInv, PositionPID, AngularPIDs
<1> QED  BY <1>4, <1>5, <1>6

LEMMA MiddleStep == MiddleInv /\ [Next]_vars => MiddleInv'
<1> SUFFICES ASSUME MiddleInv, [Next]_vars PROVE MiddleInv'
  OBVIOUS
<1>1. Typed'
  BY StepTyped DEF MiddleInv
<1>2. CASE motion_control_pid_callback /\ pit_count' % 2 = 0
  <2>1. motor_translation_angular_v_pid_calc_apply /\ outputs' \in Outputs
    BY <1>2, MiddleTyped DEF MiddleInv, motion_control_pid_callback
  <2>2. RestInv'
    BY <2>1, RestStep
  <2>3. SpeedsInv'
    BY <2>1 DEF SpeedsInv, motor_translation_angular_v_pid_calc_apply
  <2> QED  BY <1>1, <2>2, <2>3 DEF MiddleInv
<1>3. CASE motion_control_pid_callback /\ pit_count' % 2 # 0
  <2>1. UNCHANGED <<outputs, angular_v_pid, set_speed, straight>>
    BY <1>3 DEF MiddleInv, Typed, TypeOK, motion_control_pid_callback, OuterPeriod
  <2> QED  BY <1>1, <2>1 DEF MiddleInv, SpeedsInv, RestInv
<1>4. CASE motor_encoder_pit_callback
  BY <1>1, <1>4 DEF MiddleInv, SpeedsInv, RestInv, motor_encoder_pit_callback, cascade
<1>5. CASE key_switch_motor
  BY <1>1, <1>5 DEF MiddleInv, SpeedsInv, RestInv, key_switch_motor, cascade
<1>6. CASE UNCHANGED vars
  BY <1>1, <1>6 DEF MiddleInv, SpeedsInv, RestInv, vars, cascade
<1> QED  BY <1>2, <1>3, <1>4, <1>5, <1>6 DEF Next

(* Whatever the integral, the error and the rate are: the sums of the      *)
(* speeds at any moment are those of the last command.                     *)
LEMMA SumsOfWheels ==
  ASSUME MiddleInv
  PROVE  Follows(set_speed, outputs.forward, outputs.left, angular_v_pid.output)
<1>1. outputs.forward \in Int /\ outputs.left \in Int /\ angular_v_pid.output \in Int
  BY OutputsInt DEF MiddleInv, Typed, TypeOK, Outputs
<1>2. set_speed = WheelSpeeds(outputs.forward, outputs.left, angular_v_pid.output)
  BY DEF MiddleInv, SpeedsInv
<1> QED  BY <1>1, <1>2, WheelSums

(* The wheels drive, shift and turn the car as the outer loop asks         *)
(* (motion_control_new.c:268-270), for all commands and controllers.       *)
THEOREM WheelsFollowCommandCorrect == Spec => []WheelsFollowCommand
<1>1. ASSUME MiddleInv PROVE WheelsFollowCommand
  <2>1. angular_v_pid.output \in Int
    BY <1>1 DEF MiddleInv, Typed, TypeOK
  <2> QED  BY <1>1, <2>1, SumsOfWheels DEF WheelsFollowCommand, Magnitude, Follows
<1> QED  BY MiddleInit, MiddleStep, <1>1, PTL DEF Spec

(* A car that has not turned for more than ZeroReset runs of the middle    *)
(* loop runs straight, whatever it did before (pid_control.c:19-22), if    *)
(* the rest that is waited for is longer than one run (50 in the code).    *)
THEOREM StraightAfterRestCorrect == ASSUME ZeroReset >= 1 PROVE Spec => []StraightAfterRest
<1>1. ASSUME MiddleInv PROVE StraightAfterRest
  <2> SUFFICES ASSUME straight > ZeroReset
               PROVE  Magnitude(set_speed["REAR"] - set_speed["LEFT"] - set_speed["RIGHT"]) < 3
    BY DEF StraightAfterRest
  <2>1. angular_v_pid.output = 0
    BY <1>1, DriveAssumption DEF DriveAssumption, MiddleInv, RestInv, Typed, TypeOK
  <2> QED  BY <1>1, <2>1, SumsOfWheels DEF Magnitude, Follows
<1> QED  BY MiddleInit, MiddleStep, <1>1, PTL DEF Spec

-----------------------------------------------------------------------------
(* The moving average.  Its sum is defined by recursion; the induction     *)
(* over it starts from the least number outside of a set.  The sum of the  *)
(* code may wrap: what stays is that it is the sum of the last readings,   *)
(* converted to an int16.                                                  *)

Below == {p \in Nat \X Nat : p[1] < p[2]}

LEMMA BelowWellFounded == IsWellFoundedOn(Below, Nat)
BY NatLessThanWellFounded DEF OpToRel, Below

LEMMA SetInduction ==
  ASSUME NEW S, 0 \in S, \A n \in Nat : n \in S => n + 1 \in S
  PROVE  \A n \in Nat : n \in S
<1> SUFFICES ASSUME Nat \ S # {} PROVE FALSE
  OBVIOUS
<1>1. PICK least \in Nat \ S : \A n \in Nat \ S : ~(<<n, least>> \in Below)
  BY BelowWellFounded, WFMin
<1>2. least # 0 /\ least - 1 \in Nat /\ <<least - 1, least>> \in Below
  BY DEF Below
<1>3. least - 1 \in S
  BY <1>1, <1>2
<1>4. least - 1 + 1 \in S
  BY <1>2, <1>3
<1> QED  BY <1>2, <1>4

(* The sums exist: the recursion of Totals defines integers. *)
LEMMA TotalsDefined ==
  ASSUME NEW r \in [Window -> Int]
  PROVE  /\ Totals(r) \in [0 .. WINDOW_SIZE -> Int]
         /\ Totals(r)[0] = 0
         /\ \A i \in 0 .. WINDOW_SIZE - 1 : Totals(r)[i + 1] = Totals(r)[i] + r[i]
<1> USE DriveAssumption DEF DriveAssumption, Window
<1> DEFINE Sums(g, n) == /\ g \in [0 .. n -> Int] /\ g[0] = 0
                         /\ \A i \in 1 .. n : g[i] = g[i - 1] + r[i - 1]
           S == {n \in Nat : n <= WINDOW_SIZE => \E g : Sums(g, n)}
<1>1. 0 \in S
  <2>1. Sums([i \in 0 .. 0 |-> 0], 0)
    OBVIOUS
  <2> QED  BY <2>1
<1>2. ASSUME NEW n \in Nat, n \in S, n + 1 <= WINDOW_SIZE PROVE \E g : Sums(g, n + 1)
  <2>1. PICK g : Sums(g, n)
    BY <1>2
  <2> DEFINE h == [i \in 0 .. n + 1 |-> IF i = n + 1 THEN g[n] + r[n] ELSE g[i]]
  <2>2. g[n] + r[n] \in Int
    BY <1>2, <2>1
  <2>3. h \in [0 .. n + 1 -> Int] /\ h[0] = 0
    BY <2>1, <2>2
  <2>4. ASSUME NEW i \in 1 .. n + 1 PROVE h[i] = h[i - 1] + r[i - 1]
    BY <2>1, <2>4
  <2>5. Sums(h, n + 1)
    BY <2>3, <2>4
  <2> QED  BY <2>5
<1>3. \A n \in Nat : n \in S
  <2>1. \A n \in Nat : n \in S => n + 1 \in S
    <3> HIDE DEF Sums
    <3> QED  BY <1>2
  <2> HIDE DEF S
  <2> QED  BY <1>1, <2>1, SetInduction
<1>4. PICK g : Sums(g, WINDOW_SIZE)
  <2> HIDE DEF Sums
  <2> QED  BY <1>3
<1> DEFINE Step(f) == [i \in 0 .. WINDOW_SIZE |-> IF i = 0 THEN 0 ELSE f[i - 1] + r[i - 1]]
<1>5. g = Step(g)
  BY <1>4
<1>6. Totals(r) = Step(Totals(r))
  BY <1>5 DEF Totals
<1>7. /\ Totals(r)[0] = 0
      /\ \A i \in 0 .. WINDOW_SIZE - 1 : Totals(r)[i + 1] = Totals(r)[i] + r[i]
  BY <1>6
<1>8. \A i \in 0 .. WINDOW_SIZE : Totals(r)[i] \in Int
  <2> DEFINE T == {n \in Nat : n <= WINDOW_SIZE => Totals(r)[n] \in Int}
  <2>1. 0 \in T
    BY <1>7
  <2>2. \A n \in Nat : n \in T => n + 1 \in T
    BY <1>7
  <2>3. \A n \in Nat : n \in T
    <3> HIDE DEF T
    <3> QED  BY <2>1, <2>2, SetInduction
  <2> QED  BY <2>3
<1> QED  BY <1>6, <1>7, <1>8

LEMMA WindowSize == WINDOW_SIZE \in Nat /\ WINDOW_SIZE > 0
BY DriveAssumption DEF DriveAssumption

(* A window that begins with v and drops the last reading of r. *)
LEMMA TotalsShift ==
  ASSUME NEW r \in [Window -> Int], NEW v \in Int, NEW s,
         s = [i \in Window |-> IF i = 0 THEN v ELSE r[i - 1]]
  PROVE  Totals(s)[WINDOW_SIZE] = Totals(r)[WINDOW_SIZE] - r[WINDOW_SIZE - 1] + v
<1> DEFINE R == Totals(r)
           T == Totals(s)
           S == {n \in Nat : n < WINDOW_SIZE => T[n + 1] = v + R[n]}
<1>1. s \in [Window -> Int]
  BY WindowSize DEF Window
<1>2. /\ R \in [0 .. WINDOW_SIZE -> Int] /\ R[0] = 0
      /\ \A i \in 0 .. WINDOW_SIZE - 1 : R[i + 1] = R[i] + r[i]
  BY TotalsDefined
<1>3. /\ T \in [0 .. WINDOW_SIZE -> Int] /\ T[0] = 0
      /\ \A i \in 0 .. WINDOW_SIZE - 1 : T[i + 1] = T[i] + s[i]
  BY <1>1, TotalsDefined
<1> HIDE DEF R, T
<1>4. 0 \in S
  <2>1. s[0] = v /\ T[0 + 1] = T[0] + s[0]
    BY <1>3, WindowSize DEF Window
  <2> QED  BY <1>2, <1>3, <2>1
<1>5. ASSUME NEW n \in Nat, n \in S PROVE n + 1 \in S
  <2> SUFFICES ASSUME n + 1 < WINDOW_SIZE PROVE T[n + 1 + 1] = v + R[n + 1]
    OBVIOUS
  <2>1. n \in 0 .. WINDOW_SIZE - 1 /\ n + 1 \in 0 .. WINDOW_SIZE - 1 /\ n \in 0 .. WINDOW_SIZE
    BY WindowSize
  <2>2. T[n + 1] = v + R[n]
    BY <1>5, <2>1, WindowSize
  <2>3. T[n + 1 + 1] = T[n + 1] + s[n + 1]
    BY <1>3, <2>1
  <2>4. R[n + 1] = R[n] + r[n] /\ R[n] \in Int
    BY <1>2, <2>1
  <2>5. s[n + 1] = r[n] /\ r[n] \in Int
    BY <2>1, WindowSize DEF Window
  <2> QED  BY <2>2, <2>3, <2>4, <2>5
<1>6. \A n \in Nat : n \in S
  <2> HIDE DEF S
  <2> QED  BY <1>4, <1>5, SetInduction
<1> DEFINE last == WINDOW_SIZE - 1
<1>7. last \in Nat /\ last < WINDOW_SIZE /\ last \in Window /\ last + 1 = WINDOW_SIZE
  BY WindowSize DEF Window
<1> HIDE DEF last
<1>8. T[last + 1] = v + R[last]
  BY <1>6, <1>7
<1>9. R[last + 1] = R[last] + r[last] /\ R[last] \in Int /\ r[last] \in Int
  BY <1>2, <1>7 DEF Window
<1> QED  BY <1>7, <1>8, <1>9 DEF last, R, T

(* A window of zeroes. *)
LEMMA TotalsZero == Totals([i \in Window |-> 0])[WINDOW_SIZE] = 0
<1> USE WindowSize DEF Window
<1> DEFINE r == [i \in Window |-> 0]
           S == {n \in Nat : n <= WINDOW_SIZE => Totals(r)[n] = 0}
<1>1. r \in [Window -> Int]
  OBVIOUS
<1>2. 0 \in S
  BY <1>1, TotalsDefined
<1>3. \A n \in Nat : n \in S => n + 1 \in S
  <2> SUFFICES ASSUME NEW n \in Nat, n \in S, n + 1 <= WINDOW_SIZE PROVE Totals(r)[n + 1] = 0
    OBVIOUS
  <2>1. n \in Window /\ Totals(r)[n] = 0 /\ r[n] = 0
    OBVIOUS
  <2>2. Totals(r)[n + 1] = Totals(r)[n] + r[n]
    BY <1>1, <2>1, TotalsDefined
  <2> QED  BY <2>1, <2>2
<1>4. \A n \in Nat : n \in S
  <2> HIDE DEF S
  <2> QED  BY <1>2, <1>3, SetInduction
<1> QED  BY <1>4

(* The buffer of the filter is a ring that holds the readings of the       *)
(* history: the reading of j calls ago lies j slots before the last one.   *)
Slot(index, j) == IF j < index THEN index - 1 - j ELSE WINDOW_SIZE + index - 1 - j

Holds(f, r) ==
  /\ \A j \in Window : r[j] = f.buffer[Slot(f.index, j)]
  /\ f.sum = Int16(Totals(r)[WINDOW_SIZE])

(* How the slots move when the index does. *)
LEMMA NextIndex ==
  ASSUME NEW i \in Window
  PROVE  (i + 1) % WINDOW_SIZE = IF i + 1 = WINDOW_SIZE THEN 0 ELSE i + 1
<1>1. CASE i + 1 = WINDOW_SIZE
  BY <1>1, WindowSize DEF Window
<1>2. CASE i + 1 < WINDOW_SIZE
  <2>1. i + 1 \in Nat  BY DEF Window
  <2> QED  BY <1>2, <2>1, WindowSize
<1> QED  BY <1>1, <1>2, WindowSize DEF Window

LEMMA SlotsMove ==
  ASSUME NEW i \in Window, NEW n, n = (i + 1) % WINDOW_SIZE
  PROVE  /\ Slot(i, WINDOW_SIZE - 1) = i /\ Slot(n, 0) = i
         /\ \A j \in Window : Slot(n, j) \in Window
         /\ \A j \in Window \ {0} : Slot(n, j) # i /\ Slot(n, j) = Slot(i, j - 1)
<1>1. i \in Int /\ n = IF i + 1 = WINDOW_SIZE THEN 0 ELSE i + 1
  BY NextIndex DEF Window
<1> QED  BY <1>1, WindowSize DEF Slot, Window

(* MAF_Update overwrites the oldest reading of the ring with the newest.   *)
LEMMA RingTurns ==
  ASSUME NEW f \in Filters, NEW r \in [Window -> INT16], NEW v \in INT16, Holds(f, r), NEW s,
         s = [i \in Window |-> IF i = 0 THEN v ELSE r[i - 1]]
  PROVE  Holds(MAF_Update(f, v), s)
<1> DEFINE g == MAF_Update(f, v)
           i == f.index
           last == WINDOW_SIZE - 1
<1>1. /\ i \in Window /\ f.buffer \in [Window -> Int]
      /\ r \in [Window -> Int] /\ v \in Int
  BY Int16IsInt DEF Filters
<1>2. /\ g.buffer = [f.buffer EXCEPT ![i] = v] /\ g.index = (i + 1) % WINDOW_SIZE
      /\ g.sum = Int16(Int16(f.sum - f.buffer[i]) + v)
  BY DEF MAF_Update
<1>3. (\A j \in Window : r[j] = f.buffer[Slot(i, j)]) /\ f.sum = Int16(Totals(r)[WINDOW_SIZE])
  BY DEF Holds
<1>4. last \in Window /\ \A j \in Window \ {0} : j - 1 \in Window
  BY WindowSize DEF Window
<1> HIDE DEF g, i
<1>5. r[last] = f.buffer[i]
  <2> HIDE DEF last
  <2>1. Slot(i, last) = i
    BY <1>1, SlotsMove DEF last
  <2> QED  BY <1>3, <1>4, <2>1
<1>6. g.sum = Int16(Totals(s)[WINDOW_SIZE])
  <2> DEFINE total == Totals(r)[WINDOW_SIZE]
             old == r[last]
  <2>1. total \in Int /\ old \in Int
    BY <1>1, <1>4, TotalsDefined, WindowSize
  <2>2. Totals(s)[WINDOW_SIZE] = total - old + v
    BY <1>1, TotalsShift
  <2>3. g.sum = Int16(Int16(Int16(total) - old) + v)
    BY <1>2, <1>3, <1>5
  <2> HIDE DEF total, old
  <2>4. Int16(Int16(total) + (-old)) = Int16(total + (-old))
    BY <2>1, Int16Adds
  <2>5. Int16(Int16(total - old) + v) = Int16(total - old + v)
    BY <1>1, <2>1, Int16Adds
  <2>6. Int16(total) \in Int
    BY <2>1, Int16Value, Int16IsInt
  <2>7. Int16(total) + (-old) = Int16(total) - old /\ total + (-old) = total - old
    BY <2>1, <2>6
  <2> QED  BY <2>2, <2>3, <2>4, <2>5, <2>7
<1>7. ASSUME NEW j \in Window PROVE s[j] = g.buffer[Slot(g.index, j)]
  <2>1. CASE j = 0
    <3>1. Slot(g.index, j) = i
      BY <1>1, <1>2, <2>1, SlotsMove
    <3> QED  BY <1>1, <1>2, <2>1, <3>1
  <2>2. CASE j # 0
    <3>1. Slot(g.index, j) \in Window /\ Slot(g.index, j) # i /\ Slot(g.index, j) = Slot(i, j - 1)
      BY <1>1, <1>2, <2>2, SlotsMove
    <3>2. s[j] = r[j - 1] /\ r[j - 1] = f.buffer[Slot(i, j - 1)]
      BY <1>3, <1>4, <2>2
    <3> QED  BY <1>1, <1>2, <3>1, <3>2
  <2> QED  BY <2>1, <2>2
<1> QED  BY <1>6, <1>7 DEF Holds, g

SpeedInv ==
  /\ Typed
  /\ \A m \in Driven : Holds(filter[m], recent[m])
  /\ \A m \in Driven : current_speed[m] = Quotient(filter[m].sum, WINDOW_SIZE)

LEMMA SpeedInit == Init => SpeedInv
<1> SUFFICES ASSUME Init PROVE SpeedInv
  OBVIOUS
<1>1. ASSUME NEW m \in Driven
      PROVE  /\ filter[m] = [buffer |-> [i \in Window |-> 0], index |-> 0, sum |-> 0]
             /\ recent[m] = [i \in Window |-> 0] /\ current_speed[m] = 0
  BY DEF Init, Window
<1>2. ASSUME NEW m \in Driven PROVE Holds(filter[m], recent[m])
  <2>1. filter[m].sum = Int16(Totals(recent[m])[WINDOW_SIZE])
    BY <1>1, TotalsZero, Int16Value, ZeroIsInt16
  <2>2. \A j \in Window : Slot(0, j) \in Window
    BY DriveAssumption DEF DriveAssumption, Slot, Window
  <2>3. \A j \in Window : recent[m][j] = filter[m].buffer[Slot(filter[m].index, j)]
    BY <1>1, <2>2
  <2> QED  BY <2>1, <2>3 DEF Holds
<1>3. Quotient(0, WINDOW_SIZE) = 0
  BY QuotientInt, DriveAssumption DEF DriveAssumption
<1> QED  BY <1>1, <1>2, <1>3, InitTyped DEF SpeedInv

LEMMA SpeedStep == SpeedInv /\ [Next]_vars => SpeedInv'
<1> SUFFICES ASSUME SpeedInv, [Next]_vars PROVE SpeedInv'
  OBVIOUS
<1>1. Typed'
  BY StepTyped DEF SpeedInv
<1>2. CASE motor_encoder_pit_callback
  <2> PICK turns \in [Driven -> BOOLEAN] :
        LET reading(m) == IF turns[m] THEN Int16(set_speed[m]) ELSE 0
        IN  /\ filter' = [m \in Driven |-> MAF_Update(filter[m], reading(m))]
            /\ recent' = [m \in Driven |->
                  [i \in Window |-> IF i = 0 THEN reading(m) ELSE recent[m][i - 1]]]
    BY <1>2 DEF motor_encoder_pit_callback, Window
  <2> DEFINE reading(m) == IF turns[m] THEN Int16(set_speed[m]) ELSE 0
  <2>1. \A m \in Driven : reading(m) \in INT16
    <3>1. \A m \in Driven : set_speed[m] \in Int
      BY DriveAssumption DEF DriveAssumption, SpeedInv, Typed, TypeOK
    <3> QED  BY <3>1, Int16Value, ZeroIsInt16
  <2>2. filter \in [Driven -> Filters] /\ recent \in [Driven -> [Window -> INT16]]
    BY DEF SpeedInv, Typed, TypeOK, Filters, Window
  <2>3. ASSUME NEW m \in Driven PROVE Holds(filter'[m], recent'[m])
    <3> DEFINE s == [i \in Window |-> IF i = 0 THEN reading(m) ELSE recent[m][i - 1]]
    <3>1. Holds(MAF_Update(filter[m], reading(m)), s)
      <4> HIDE DEF reading
      <4>1. Holds(filter[m], recent[m]) /\ filter[m] \in Filters /\ recent[m] \in [Window -> INT16]
        BY <2>2 DEF SpeedInv
      <4> QED  BY <2>1, <4>1, RingTurns
    <3>2. filter'[m] = MAF_Update(filter[m], reading(m)) /\ recent'[m] = s
      OBVIOUS
    <3> QED  BY <3>1, <3>2
  <2>4. \A m \in Driven : current_speed'[m] = Quotient(filter'[m].sum, WINDOW_SIZE)
    BY <1>2 DEF motor_encoder_pit_callback
  <2> QED  BY <1>1, <2>3, <2>4 DEF SpeedInv
<1>3. CASE UNCHANGED sensing
  BY <1>1, <1>3 DEF SpeedInv, sensing
<1>4. CASE motion_control_pid_callback
  BY <1>3, <1>4 DEF motion_control_pid_callback
<1>5. CASE key_switch_motor
  BY <1>3, <1>5 DEF key_switch_motor
<1>6. CASE UNCHANGED vars
  BY <1>3, <1>6 DEF vars
<1> QED  BY <1>2, <1>4, <1>5, <1>6 DEF Next

(* The speed of a motor is the mean of its last WINDOW_SIZE readings       *)
(* (motion_control_new.c:171-182) whenever their sum is an int16, however  *)
(* long the filter has run and however often its sum has wrapped before.   *)
THEOREM SpeedIsMeanCorrect == Spec => []SpeedIsMean
<1>1. ASSUME SpeedInv PROVE SpeedIsMean
  <2> SUFFICES ASSUME NEW m \in Driven, Totals(recent[m])[WINDOW_SIZE] \in INT16
               PROVE  current_speed[m] = Quotient(Totals(recent[m])[WINDOW_SIZE], WINDOW_SIZE)
    BY DEF SpeedIsMean
  <2>1. filter[m].sum = Int16(Totals(recent[m])[WINDOW_SIZE])
    BY <1>1 DEF SpeedInv, Holds
  <2>2. filter[m].sum = Totals(recent[m])[WINDOW_SIZE]
    BY <2>1, Int16Value, Int16IsInt
  <2> QED  BY <1>1, <2>2 DEF SpeedInv
<1> QED  BY SpeedInit, SpeedStep, <1>1, PTL DEF Spec
=============================================================================
