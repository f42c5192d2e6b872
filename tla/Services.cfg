\* The smaller parts, each on its own instance: see MCServices.
SPECIFICATION FairSpec
CONSTANTS
  w1 = w1
  w2 = w2
  x1 = x1
  x2 = x2
  none = none
  Process = {w1, w2}
  TelFrames = 2
  TelPrunes = 1
  SesProcess = {w1}
  SesFrames = 3
  IngKey = {x1}
  IngFaults = 3
  ConDurations = {0, 2}
  ConPauses = {3}
  ConGap = 2
  ConTime = 5
  ConChecks = 3
  DelChat = {x1, x2}
  DelBatch = 1
  DelEvents = 1
  DelFaults = 1
  DelChanges = 1
  BatChat = {x1}
  BatBatch = 2
  BatEvents = 2
  UplSlots = 2
  UplQueue = 1
  UplGeneration = 10
  UplPackets = 3
  UplFaults = 1
  SimCommands = 2
  SimFaults = 1
  ModCli = {x1}
  ModReader = {x2}
  ModJobs = 2
  ModRollbacks = 1
  ModFaults = 1
  AccUser = {x1, x2}
  AccPool = 2
  AccChanges = 2
  AvaUser = {x1}
  AvaImages = 2
  AvaFaults = 1
INVARIANTS
  TypeOK AnsweredIsDone ForecastIsUsed EventsTellTheCondition FewMessages
  NothingForgotten FreshAnswers AuditExplainsRoles ImageExists
PROPERTIES
  SnapshotMovesOn EachIsAnswered AlertsWhenDue SentIsSent EventsSettle
  ImplementsRecordLog CardIsEmptied NewestStands CommandsEnd LastModelIsKept
  AdminEnds
\* A part stops where its bounds end.
CHECK_DEADLOCK FALSE
