SPECIFICATION Spec
CONSTANTS
  GroupMod = 3
  DataNum = 2
  RxNum = 2
  RxTimeout = 1
INVARIANTS
  DataPacketSent
