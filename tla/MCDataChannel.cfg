CONSTANTS
  A = A
  B = B
  Peers <- MCPeers
  Opener = A
  Sids <- MCSids
  Configs <- MCConfigs
  MaxChannels = 1
  MaxMessages <- MCMaxMessages
  MaxSendQueue = 1
  MaxRecvQueue = 1
  MaxBlocks = 1
  MaxErrors = 1
SPECIFICATION FairSpec
CHECK_DEADLOCK FALSE
INVARIANTS TypeOK NoDataBeforeOpen NoStreamLeak CloseFlushes
PROPERTIES ImplementsMessagePipe ClosesBothEnds ClosingCloses
