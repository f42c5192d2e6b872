SPECIFICATION FairSpec
CONSTANTS
  window = window
  exhaust = exhaust
  job1 = job1
  job2 = job2
  Window = window
  Fan = {exhaust}
  Job = {job1}
  Air <- RoomAir
  Requests <- SingleRequests
  Coverage = {{window, exhaust}}
  OverrideLife = 1
  AutoWindow = FALSE
  Forgets = FALSE
PROPERTIES
  CriticalAirIsVentilated
  AutomaticFansStop
