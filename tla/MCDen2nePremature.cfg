\* What the comment at iotorii-csma.c:1641 says of the root, with ideal timing and
\* losses.
CONSTANTS
  r = r
  a = a
  b = b
  c = c
  Nodes <- Triangle
  Root = r
  Nbr <- TriangleNbr
  number_id <- TriangleId
  MaxHlmac = 1
  TableCapacity = 255
  MacPayloads = {104}
  AddrSize = 8
  MaxRound = 0
  FreedIntact = TRUE
  Loads = {40}
  Lossy = TRUE
  MaxUnicast = 2
  Timely = TRUE
SPECIFICATION Spec
INVARIANT ExchangeComplete
CHECK_DEADLOCK FALSE
