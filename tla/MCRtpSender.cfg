CONSTANTS
  kMaxCapacity = 4
  SeqSpace = 8
  PacketSize = {60}
  kMinPacketRequestBytes = 50
  NoPacket = NoPacket
  NewPacket = {}
  NumberToStore = {2}
  MinElapsed = {0}
  MaxTime = 2
  RtxModes <- OffOrBoth
  RtxMappings = {TRUE, FALSE}
  StorageTypes = {"kAllowRetransmission"}
  PaddingRequest = {70}
  HeaderBytes = 12
  PaddingBytes = 224
  MinResendTime = 2
  FirstSeq = 6
  MaxNumbers = 3
  MaxNacks = 1
  MaxNackLength = 1
  MaxCalls = 0
SPECIFICATION Spec
INVARIANTS TypeOK NoMediaLost PaddingOnlyBetweenFrames
PROPERTY FirstTransmissionsInOrder
CHECK_DEADLOCK FALSE
