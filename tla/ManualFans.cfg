SPECIFICATION ObservedSpec
CONSTANTS
  window = window
  exhaust = exhaust
  job1 = job1
  Window = window
  Fan = {exhaust}
  Job = {job1}
  Air <- RoomAir
  Requests <- SingleRequests
  Coverage = {{window, exhaust}}
  OverrideLife = 1
  AutoWindow = TRUE
  Forgets = FALSE
PROPERTY
  ManualFansKeepRunning
