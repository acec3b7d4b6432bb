CONSTANTS
  w1 = w1
  w2 = w2
  a = a
  b = b
  c = c
  Workers <- TwoWorkers
  NoWorker = NoWorker
  Width = 2
  MaxClaims = 2
  MaxChurn = 1
  Commands <- TwoCommands
  Reminders <- OneReminder
  Undecodable <- NoMessage
  LaneOf <- TwoLanes
  Cap = 1
  Batch = 2
SPECIFICATION MailboxSpec
INVARIANTS HeadOfLine CheckpointIsHighWater
PROPERTIES NewestBeliefCommits
CHECK_DEADLOCK FALSE
