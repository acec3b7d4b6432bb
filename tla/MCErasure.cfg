CONSTANTS
  placed = placed
  expired = expired
  paid = paid
  order = order
  payment = payment
  Order = Order
  Network = Network
  w1 = w1
  NoGroup = NoGroup
  Facts <- OrderAndPayment
  Births <- FactBirths
  Expiries <- OrderExpiry
  StreamOf <- StreamOfFact
  Workers <- OneWorker
  Groups <- BothGroups
  GroupsOf <- AllGroups
  Reads <- ReadsOf
  Fresh <- NewGroup
  Batch = 1
  MaxFaults = 1
SPECIFICATION ErasureSpec
INVARIANTS ReceiptIffErased ErasedWereFolded NothingBehindCheckpoint
PROPERTIES KeepsRetention ReleasedIsErased EventuallyFolded
CHECK_DEADLOCK FALSE
