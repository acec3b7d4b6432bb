CONSTANTS
  r1 = r1
  r2 = r2
  Drains <- AllSagas
  Price = 3
  Amounts <- RefundAmounts
  Runners <- OneRunner
  MaxRequests = 1
  MaxDecisions = 2
  MaxFaults = 2
SPECIFICATION SettlementSpec
INVARIANTS MoneyFollowsOrder RecordedOnce OneDecision RunFollowsLog
PROPERTIES KeepsEscrow EndedIsSettled ApprovedIsRefunded
CHECK_DEADLOCK FALSE
