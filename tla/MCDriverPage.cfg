SPECIFICATION Spec
CONSTANTS
  TotalPages = 2
  Width = 1
  PagesPerBuffer = 1
  InitSteps = 2
  ScrollOffStep = 1
  OfflineThreshold = 2
  HasDisplayOnDelay = FALSE
  HasChargePump = FALSE
  HasFlushTimeout = FALSE
INVARIANTS
  TypeOK
  WindowsBehindShown
  OutcomePublishedOnce
  HealthMatchesCounter
