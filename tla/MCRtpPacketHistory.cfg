CONSTANTS
  kMaxCapacity = 3
  SeqSpace = 4
  PacketSize = {60}
  kMinPacketRequestBytes = 50
  NoPacket = NoPacket
  NewPacket <- SmallPackets
  NumberToStore = {1, 2}
  MinElapsed = {0, 2}
  MaxTime = 2
SPECIFICATION HistorySpec
INVARIANTS HistoryTypeOK RingShape LookupExact
PROPERTY UnsentPacketsKept
