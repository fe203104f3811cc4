SPECIFICATION FairSpec
CONSTANTS
  a = a
  b = b
  Peers = {a, b}
  Windows = {b}
  NoPeer = NoPeer
  MaxPacket = 1
  MaxSent = 2
  QueueSize = 2
  Receivers = {a, b}
PROPERTY HeadIsParsed
