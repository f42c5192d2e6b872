SPECIFICATION FairSpec
CONSTANTS
  window = window
  exhaust = exhaust
  Window = window
  Fans = {}
  Air <- SomeAir
  Feedback <- Limits
  Requests <- OfWindow
  Policies <- OnOff
  Settle = 1
  Limit = 2
  Minimum = 2
  RingSize = 1
  QueueSize = 1
  MaxCommands = 2
INVARIANTS
  TypeOK
  MotionIsLicensed
PROPERTIES
  ReversalPauses
  MotorRests
CHECK_DEADLOCK FALSE
