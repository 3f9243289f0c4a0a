\* Safety of the receive queue: three groups of two packets, so that group_id
\* wraps; a list of at most three packets, so that one in turn can stand behind
\* the copy of another; a timeout of two ticks.
SPECIFICATION FairSpec
CONSTANTS
  GroupMod = 3
  DataNum = 2
  RxNum = 3
  RxTimeout = 2
INVARIANTS
  TypeOK
  RxNumIsLength
  Sorted
  RxBounded
  OnlyCopyDelays
  ExpectedFollowsTun
  DataPacketKept
PROPERTIES
  WritesInOrder
  Implements
  Drains
