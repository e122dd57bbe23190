SPECIFICATION MCSpec
CONSTANTS
  OfflineThreshold = 2
  RunLimit = 3
  TotalLimit = 5
  MaxOutcomes = 8
  NoBuffer = NoBuffer
  BoundConfigs <- MCBoundConfigs
  CallerMemory <- MCCallerMemory
  HeapMemory <- MCHeapMemory
  Profiles <- MCProfiles
  SetConfigs <- MCSetConfigs
  Contrasts <- MCContrasts
  Toggles <- MCToggles
  Fades <- MCFades
  Areas <- MCAreas
  Offsets <- MCOffsets
  RawCommands <- MCRawCommands
  PowerOnReset <- MCPowerOnReset
  MaxFailures = 1
  MaxCalls = 5
CHECK_DEADLOCK FALSE
INVARIANTS
  StateIsEarned
  FramebufferIsSound
  SettingsAreTrue
PROPERTIES
  WhatWorksIsKept
