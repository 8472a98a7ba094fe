\* Two addresses per node, freed buffers intact: the loop check of the root.
CONSTANTS
  r = r
  a = a
  b = b
  c = c
  Nodes <- MCNodes
  Root = r
  Nbr <- MCNbr
  number_id <- MCId
  MaxHlmac = 2
  TableCapacity = 255
  MacPayloads = {104}
  AddrSize = 8
  MaxRound = 1
  FreedIntact = TRUE
SPECIFICATION AssignmentSpec
INVARIANT NoLoopAccepted
CHECK_DEADLOCK FALSE
