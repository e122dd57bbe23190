SPECIFICATION LiveSpec
CONSTANTS
  TotalPages = 1
  Width = 1
  PagesPerBuffer = 1
  InitSteps = 2
  ScrollOffStep = 1
  OfflineThreshold = 1
  HasDisplayOnDelay = TRUE
  HasChargePump = FALSE
  HasFlushTimeout = FALSE
PROPERTIES
  FlushEnds
  OperationEnds
  ContractKept
