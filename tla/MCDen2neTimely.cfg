\* No losses, ideal timing, two rounds, a surplus and a deficit, fair timers.
CONSTANTS
  r = r
  a = a
  b = b
  c = c
  Nodes <- Diamond
  Root = r
  Nbr <- DiamondNbr
  number_id <- DiamondId
  MaxHlmac = 1
  TableCapacity = 255
  MacPayloads = {104}
  AddrSize = 8
  MaxRound = 1
  FreedIntact = TRUE
  Loads = {40, 150}
  Lossy = FALSE
  MaxUnicast = 2
  Timely = TRUE
SPECIFICATION FairSpec
INVARIANTS ExchangeComplete SurplusAtRoot FirstFlowsMatch
PROPERTIES DetectsConvergence Converges
CHECK_DEADLOCK FALSE
