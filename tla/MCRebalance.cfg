CONSTANTS
  w1 = w1
  w2 = w2
  w3 = w3
  Workers <- ThreeWorkers
  NoWorker = NoWorker
  Width = 2
  MaxClaims = 2
  MaxChurn = 1
  MaxVersion = 8
SPECIFICATION RebalanceSpec
INVARIANTS NoSharedAuthority
PROPERTIES StealsWithinShare Converges
CHECK_DEADLOCK FALSE
