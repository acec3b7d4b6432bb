CONSTANTS
  r1 = r1
  r2 = r2
  s1 = s1
  Runners <- OneRunner
  Sweepers <- OneSweeper
  Plans <- TwoChannels
  Reports <- SomeReports
  MaxMoves = 1
  MaxFaults = 0
SPECIFICATION DispatchSpec
INVARIANT DeclaredTransitions
CHECK_DEADLOCK FALSE
