\* A ring of five cells and a spare one.  Lengths: one that a RawPacket holds, one
\* that only the ring holds, one that neither does; a slot used twice.  A
\* handler that failed stops its session (ServerIo).
SPECIFICATION BufferFairSpec
CHECK_DEADLOCK FALSE
CONSTANTS
  BufferSize = 5
  HeaderSize = 2
  PacketSize = 2
  Sizes = {2, 3, 4}
  Faults = {"code", "checksum"}
  MaxPackets = 3
  MaxSessions = 2
INVARIANTS
  RingHoldsStream
  RecvIntoFreeCells
  ExtractedInOrder
PROPERTY
  PacketsAreExtracted
