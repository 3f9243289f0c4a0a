\* The same instance: what is behind the end of the packets.
SPECIFICATION Spec
CONSTANTS
  Group <- MCGroup
INVARIANTS
  Reconstructed
CHECK_DEADLOCK FALSE
