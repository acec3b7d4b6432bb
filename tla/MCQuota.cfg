CONSTANTS
  n1 = n1
  n2 = n2
  c1 = c1
  c2 = c2
  Everybody = Everybody
  Numbers <- OneNumber
  Callers <- TwoCallers
  Window <- ShortWindows
  Limit <- SmallLimits
  Backoff <- OneRung
  Keep = 4
  MaxLag = 1
  MaxClock = 6
  MaxFaults = 1
SYMMETRY CallersSymmetry
SPECIFICATION QuotaSpec
INVARIANTS AtMostTwoAllowances EverySendIsPaid AnswersAgree
PROPERTIES LadderIsKept
CHECK_DEADLOCK FALSE
