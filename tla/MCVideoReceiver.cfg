SPECIFICATION FairSpec
CONSTANTS
  None = None
  SeqSpace = 16
  kMaxPacketAge = 2
  kMaxNackPackets = 2
  kMaxNackRetries = 3
  StartSize = 2
  MaxSize = 4
  kMaxFramesBuffered = 2
  kMaxFramesHistory = 2
  Lens <- MCLens
  FirstSeq = 14
  kPicIdLength = 8
  FirstPid = 6
  MaxReorder = 1
  MaxLosses = 2
  MaxDecodeErrors = 1
INVARIANTS TypeOK MissingIsAskedFor FramesWhole DecodesInOrder NothingLeftBehind
PROPERTIES EveryFrameDecoded
CHECK_DEADLOCK FALSE
