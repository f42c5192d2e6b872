SPECIFICATION FairSpec
CONSTANTS
  window = window
  exhaust = exhaust
  job1 = job1
  job2 = job2
  Window = window
  Fan = {}
  Job = {job1, job2}
  Air <- RoomAir
  Requests <- SingleRequests
  Coverage = {{}, {window}}
  OverrideLife = 1
  AutoWindow = TRUE
  Forgets = TRUE
INVARIANT
  TypeOK
PROPERTIES
  OverrideEnds
  WindowClosesInBadAir
