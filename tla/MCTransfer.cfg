SPECIFICATION Spec
CONSTANTS
  Width = 2
  TotalPages = 3
  BufferSizes = {2, 3}
  ChunkBytes = 2
  WriteBytes = 8
  Budgets = {1, 3}
  MaxWrites = 2
  MaxChanges = 2
  MaxFaults = 1
INVARIANTS
  RightPage
  CleanIsShown
  BaselineIsWhole
