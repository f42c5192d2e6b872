SPECIFICATION Spec
CONSTANTS
  Target = {window}
  MaxBatch = 2
  MaxEra = 1
  MaxTime = 2
  ManualLife = 2
  AutomaticLife = 1
  Skew = 0
  MaxDelay = 1
  MaxWait = 1
  Retention = 1
  ClockSteps = FALSE
INVARIANTS
  TypeOK
  DesiredFollowsIntent
  NoAutomaticRepeat
PROPERTIES
  AppliedIsObserved
  ImplementsCommandLife
