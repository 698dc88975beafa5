SPECIFICATION WireSpec
CONSTANTS
  MaxUint8 = 7
  MaxUint16 = 63
  HeaderSize = 3
  BlockSize = 4
  NonceSize = 1
  Overhead = 1
  PayloadSize = 18
  FakeBytes <- MCFakeBytes
  CompressedLengths = {3, 5}
  ZSTDOverhead = 4
  Failed = Failed
  Paths <- MCPaths
  Keys <- MCKeys
  ToServer <- MCToServer
  ToClient <- MCToClient
  IpPacketMinLength = 2
  PieceSize = 3
  MaxSends = 2
  MaxReads = 3
INVARIANT FramedRight
INVARIANT Intact
INVARIANT RoundTrip
CHECK_DEADLOCK FALSE
