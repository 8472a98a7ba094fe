\* What the comment at iotorii-csma.c:1760 says of in_out, over two rounds.
CONSTANTS
  r = r
  a = a
  b = b
  c = c
  Nodes <- Chain
  Root = r
  Nbr <- ChainNbr
  number_id <- ChainId
  MaxHlmac = 1
  TableCapacity = 255
  MacPayloads = {104}
  AddrSize = 8
  MaxRound = 1
  FreedIntact = TRUE
  Loads = {40, 150}
  Lossy = FALSE
  MaxUnicast = 2
  Timely = TRUE
SPECIFICATION Spec
INVARIANT FlowsMatch
CHECK_DEADLOCK FALSE
