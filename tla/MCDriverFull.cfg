SPECIFICATION Spec
CONSTANTS
  TotalPages = 2
  Width = 1
  PagesPerBuffer = 2
  InitSteps = 2
  ScrollOffStep = 1
  OfflineThreshold = 1
  HasDisplayOnDelay = TRUE
  HasChargePump = TRUE
  HasFlushTimeout = TRUE
INVARIANTS
  PowerModel
  PowerDuringOperation
  PowerTruth
  ControlTruth
  FlushNeverBlocked
  NoDataWhileScrolling
  SyncSound
  BaselineRebuildable
  JobOwnership
  EffectHonest
PROPERTIES
  NoStaleWake
  ResultKept
