\* Groups of two packets and one parity block, up to two full groups and the
\* start of a third; two addresses, so that each type has one.
SPECIFICATION Spec
CONSTANTS
  GroupMod = 8
  DataNum = 2
  ParityNum = 1
  Addr = {a1, a2}
  Unset = Unset
  Null = Null
  MaxPacket = 5
INVARIANTS
  GroupDecodes
  InSequence
PROPERTIES
  SeparatePaths
