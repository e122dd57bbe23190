SPECIFICATION Spec
CONSTANTS
  Modulus = 16
  GuardFactor = 2
  GuardOffset = 1
  GuardFloor = 2
  GuardCap = 3
  HasClock = FALSE
  I2cTimeout = 1
  FlushTimeout = 0
  DisplayOnDelay = 3
  DefaultWait = 5
  MaxTransactions = 1
  MaxLength = 2
  Budgets = {}
  StartTime = 6
  MaxTime = 9
INVARIANT DelayIsFull
