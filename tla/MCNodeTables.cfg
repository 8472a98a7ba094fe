\* Discovery: three peers and room for two of them in the table.  HLMAC table:
\* up to two addresses of up to three ids, two rounds.
CONSTANTS
  p1 = p1
  p2 = p2
  p3 = p3
  Peers = {p1, p2, p3}
  MaxHelloDiff = 2
  HelloLimit = 6
  TableLimit = 2
  IdRange = 4
  MaxHlmac = 2
  TableCapacity = 255
  Ids = {0, 1, 2}
  MaxLen = 3
  MaxStamp = 1
SPECIFICATION NodeSpec
INVARIANTS TypeOK CountMatchesList ExpiryLagBounded IdsDistinctUntilExpiry
  CountIsLength CmpIsValueOrder LoopIffDescendant
PROPERTIES OnlySilentRemoved AddIsFunctional
