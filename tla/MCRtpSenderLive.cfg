CONSTANTS
  kMaxCapacity = 3
  SeqSpace = 8
  PacketSize = {60}
  kMinPacketRequestBytes = 50
  NoPacket = NoPacket
  NewPacket = {}
  NumberToStore = {1}
  MinElapsed = {0}
  MaxTime = 1
  RtxModes <- OffOrBoth
  RtxMappings = {TRUE, FALSE}
  StorageTypes = {"kAllowRetransmission", "kDontRetransmit"}
  PaddingRequest = {70}
  HeaderBytes = 12
  PaddingBytes = 224
  MinResendTime = 2
  FirstSeq = 7
  MaxNumbers = 2
  MaxNacks = 1
  MaxNackLength = 1
  MaxCalls = 2
SPECIFICATION FairSpec
INVARIANTS NoMediaLost
PROPERTY QueueDrains
CHECK_DEADLOCK FALSE
