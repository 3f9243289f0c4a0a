\* Two packets from the TUN device before any client is known fill a group.
SPECIFICATION Spec
CONSTANTS
  GroupMod = 8
  DataNum = 2
  ParityNum = 1
  Addr = {a1, a2}
  Unset = Unset
  Null = Null
  MaxPacket = 5
PROPERTIES
  IndexInRange
