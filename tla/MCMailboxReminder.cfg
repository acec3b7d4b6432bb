CONSTANTS
  w1 = w1
  w2 = w2
  a = a
  b = b
  c = c
  Workers <- TwoWorkers
  NoWorker = NoWorker
  Width = 1
  MaxClaims = 1
  MaxChurn = 2
  Commands <- OneCommand
  Reminders <- OneReminder
  Undecodable <- OnlyC
  LaneOf <- OneLane
  Cap = 1
  Batch = 1
SPECIFICATION LiveMailboxSpec
INVARIANTS ExactlyOnce
PROPERTIES MeetsPromise
CHECK_DEADLOCK FALSE
