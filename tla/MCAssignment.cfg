\* Two rounds that may overlap, one address per node, freed buffers arbitrary.
CONSTANTS
  r = r
  a = a
  b = b
  c = c
  Nodes <- MCNodes
  Root = r
  Nbr <- MCNbr
  number_id <- MCId
  MaxHlmac = 1
  TableCapacity = 255
  MacPayloads = {12, 24, 104}
  AddrSize = 8
  MaxRound = 1
  FreedIntact = FALSE
SPECIFICATION AssignmentSpec
INVARIANTS AssignmentTypeOK TimerMatchesQueue TreeOrder NoParentCycle
  AddressesDistinct CountsUnheard SeveralEntriesFit
CHECK_DEADLOCK FALSE
