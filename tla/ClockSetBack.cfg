SPECIFICATION FairSpec
CONSTANTS
  Target = {window}
  MaxBatch = 2
  MaxEra = 0
  MaxTime = 1
  ManualLife = 1
  AutomaticLife = 1
  Skew = 0
  MaxDelay = 1
  MaxWait = 1
  Retention = 0
  ClockSteps = TRUE
PROPERTIES
  ImplementsLastCommands
  FeedbackNeverRegresses
  FeedbackRecovers
