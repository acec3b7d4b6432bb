CONSTANTS
  placed = placed
  expired = expired
  paid = paid
  order = order
  payment = payment
  Order = Order
  Network = Network
  w1 = w1
  NoGroup = NoGroup
  Facts <- OrderAndPayment
  Births <- FactBirths
  Expiries <- OrderExpiry
  StreamOf <- StreamOfFact
  Workers <- OneWorker
  Groups <- OrderGroup
  GroupsOf <- AllGroups
  Reads <- ReadsOf
  Fresh <- NoGroups
  Batch = 1
  MaxFaults = 0
SPECIFICATION ErasureSpec
INVARIANTS ActsOnFoldedFacts
CHECK_DEADLOCK FALSE
