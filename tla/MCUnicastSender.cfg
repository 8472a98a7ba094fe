\* Two payloads to one receiver, the second sent while the first is queued.
CONSTANTS
  bc = bc
  r1 = r1
  r2 = r2
  Dests <- MCDests
  Broadcast <- bc
  MaxNeighborQueues = 2
  MaxPacketsPerNeighbor = 2
  MaxQueuedPackets = 2
  QueuebufNum = 2
  MaxTransmissions = 2
  MaxBackoff = 1
  SeqnoRange = 3
  MaxPackets = 3
  MaxPayloads = 2
SPECIFICATION Spec
INVARIANT OnlyRefusedQueuedAgain
CHECK_DEADLOCK FALSE
