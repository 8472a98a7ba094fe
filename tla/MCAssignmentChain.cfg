\* The sizes of the default configuration: 125 bytes of a frame less the 15 of a
\* broadcast header, link addresses of 8 bytes; one round.
CONSTANTS
  Depth = 98
  Nodes <- MCNodes
  Root = 1
  Nbr <- MCNbr
  number_id <- MCId
  MaxHlmac = 1
  TableCapacity = 255
  MacPayloads = {110}
  AddrSize = 8
  MaxRound = 0
  FreedIntact = TRUE
SPECIFICATION AssignmentSpec
INVARIANT PayloadBelowMaximum
CHECK_DEADLOCK FALSE
