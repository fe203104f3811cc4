SPECIFICATION Spec
CONSTANTS
  a = a
  b = b
  Peers = {a, b}
  Windows = {b}
  NoPeer = NoPeer
  MaxPacket = 2
  MaxSent = 2
  QueueSize = 2
  Receivers = {a, b}
INVARIANTS
  TypeOK
  PacketIntegrity
  UnmixedPackets
  OffsetInsidePacket
PROPERTIES
  NoPacketCutShort
  EmptyDatagramBlocksQueue
