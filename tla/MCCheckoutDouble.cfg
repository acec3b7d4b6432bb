CONSTANTS
  o1 = o1
  o2 = o2
  o3 = o3
  l1 = l1
  l2 = l2
  NoOrder = NoOrder
  Orders <- TwoAttempts
  Lanes <- TwoLanes
  LaneOf <- Apart
  Routed = TRUE
  MaxSends = 2
  MaxDeclines = 0
  MaxFaults = 0
SPECIFICATION CheckoutSpec
INVARIANTS NoDoubleHold
CHECK_DEADLOCK FALSE
