SPECIFICATION LiveSpec
CONSTANTS
  Tasks = {display, sensor}
  Timeouts = {1, 2, 3}
  PerMs = 2
  TickMs = 2
  Timeout = 2
  Users = {display, sensor}
CHECK_DEADLOCK FALSE
INVARIANTS
  ResultsAreTrue
  BusIsGivenBack
PROPERTIES
  CallsReturnInTime
