\* What the comment at iotorii-csma.c:1027 says of a Hello timer.
CONSTANTS
  p1 = p1
  p2 = p2
  p3 = p3
  Peers = {p1, p2, p3}
  MaxHelloDiff = 2
  HelloLimit = 6
  TableLimit = 4
  IdRange = 4
SPECIFICATION Spec
PROPERTY NoStaleNeighbourLeft
