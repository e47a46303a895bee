SPECIFICATION Spec
CONSTANTS
  Commands <- MCCommands
  Driven <- MCDriven
  WINDOW_SIZE = 2
  INT16_MAX = 127
  MOTOR_PWM_DUTY_MAX = 100
  error_limit = 120
  ZeroReset = 2
  ZeroCut = 3
INVARIANT TypeOK
INVARIANT OffMeansStill
INVARIANT HeldMotorIsCut
INVARIANT WheelsFollowCommand
INVARIANT StraightAfterRest
INVARIANT SpeedIsMean
