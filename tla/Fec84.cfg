\* Every loss of four packets; the run ends when the packets are recovered.
SPECIFICATION Spec
CONSTANTS
  Group <- MCGroup
INVARIANTS
  Restores
  SingularIsLost
CHECK_DEADLOCK FALSE
