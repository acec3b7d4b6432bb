CONSTANTS
  o1 = o1
  o2 = o2
  o3 = o3
  l1 = l1
  l2 = l2
  NoOrder = NoOrder
  Orders <- ThreeAttempts
  Lanes <- TwoLanes
  LaneOf <- Shared
  Routed = TRUE
  MaxSends = 4
  MaxDeclines = 1
  MaxFaults = 1
SPECIFICATION CheckoutSpec
INVARIANTS PlacedIsPaid OneOrderOfALane RunFollowsOrder
PROPERTIES KeepsPurchase AuthorizedIsOrdered
CHECK_DEADLOCK FALSE
