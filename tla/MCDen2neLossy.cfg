\* Losses, delays and overlapping rounds on a chain.
CONSTANTS
  r = r
  a = a
  b = b
  c = c
  Nodes <- Chain
  Root = r
  Nbr <- ChainNbr
  number_id <- ChainId
  MaxHlmac = 1
  TableCapacity = 255
  MacPayloads = {104}
  AddrSize = 8
  MaxRound = 1
  FreedIntact = FALSE
  Loads = {40, 150}
  Lossy = TRUE
  MaxUnicast = 2
  Timely = FALSE
SPECIFICATION Spec
INVARIANTS TypeOK LoadConserved
CHECK_DEADLOCK FALSE
