\* Three packets a session, so that the head, the middle and the tail of the
\* list are removed; a packet is slow before it is overdue.
SPECIFICATION FairSpec
CONSTANTS
  MaxPacket = 3
  AckTimeout = 2
  ParityDelayThres = 0
INVARIANTS
  ListConsistent
PROPERTIES
  NoneOverdue
  ParityFollows
  Implements
  Settled
