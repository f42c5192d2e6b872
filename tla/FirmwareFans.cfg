SPECIFICATION Spec
CONSTANTS
  window = window
  exhaust = exhaust
  Window = window
  Fans = {exhaust}
  Air <- SomeAir
  Feedback <- Turning
  Requests <- OfBoth
  Policies <- OnOff
  Settle = 1
  Limit = 2
  Minimum = 2
  RingSize = 1
  QueueSize = 1
  MaxCommands = 2
INVARIANTS
  FansAreLicensed
PROPERTIES
  OverrideIsRespected
  OutcomesAreFinal
CHECK_DEADLOCK FALSE
