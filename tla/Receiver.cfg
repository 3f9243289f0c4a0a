\* One group in two is enough for the decoders: two groups of two data packets
\* and one parity packet, and both timeouts as short as they can be.
\* Every session is in a mode of its own, with parity blocks or with copies.
SPECIFICATION FairSpec
CONSTANTS
  GroupMod = 2
  DataNum = 2
  ParityNum = 1
  DecodeTimeout = 0
  RxNum = 2
  RxTimeout = 1
INVARIANTS
  DecoderInUseKept
  HandedOnce
  HandedGenuine
  HandedComplete
PROPERTIES
  UsesRxQueue
  ServeReturns
