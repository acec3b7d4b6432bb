CONSTANTS
  r1 = r1
  r2 = r2
  s1 = s1
  Runners <- OneRunner
  Sweepers <- OneSweeper
  Plans <- EveryPlan
  Reports <- SomeReports
  MaxMoves = 3
  MaxFaults = 1
SPECIFICATION DispatchSpec
INVARIANTS CouriersMoveLegally WalkInOrder RunFollowsJob
PROPERTIES KeepsErrand WalkEnds DeliveryClosesOrder
CHECK_DEADLOCK FALSE
