CONSTANTS
  w1 = w1
  w2 = w2
  NoWorker = NoWorker
  Workers <- TwoWorkers
  Messages = 2
  MaxAppends = 3
  MaxTroubles = 2
SPECIFICATION ActivationSpec
INVARIANTS HeldWasLog ObsoleteStaysOut
PROPERTIES VerdictIsFresh EventuallyAnswered
CHECK_DEADLOCK FALSE
