SPECIFICATION LiveSpec
CONSTANTS
  Modulus = 8
  GuardFactor = 2
  GuardOffset = 1
  GuardFloor = 2
  GuardCap = 3
  HasClock = TRUE
  I2cTimeout = 2
  FlushTimeout = 3
  DisplayOnDelay = 2
  DefaultWait = 5
  MaxTransactions = 2
  MaxLength = 2
  Budgets = {0, 2, 7}
  StartTime = 6
  MaxTime = 13
INVARIANTS
  AttemptsEndInTime
  DelayIsFull
PROPERTIES
  NothingEndsEarly
  WaitsEnd
