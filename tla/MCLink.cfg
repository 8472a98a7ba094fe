\* Three packets through pools of two, two queues for three destinations, attempts and backoffs of two.
SPECIFICATION Spec
CONSTANTS
  bc = bc
  r1 = r1
  r2 = r2
  Dests <- MCDests
  Broadcast <- bc
  MaxNeighborQueues = 2
  MaxPacketsPerNeighbor = 2
  MaxQueuedPackets = 2
  QueuebufNum = 2
  MaxTransmissions = 2
  MaxBackoff = 1
  SeqnoRange = 3
  MaxPackets = 3
  Receiver <- r1
  Forgets = TRUE
INVARIANTS TypeOK PoolsMatchQueues AckedIsDelivered RepeatedAfterAnother
PROPERTIES ImplementsPacketService ImplementsUnicastChannel
CHECK_DEADLOCK FALSE
