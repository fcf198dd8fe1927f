CONSTANTS
  k1 = k1
  k2 = k2
  kbad = kbad
  Key = {k1, k2, kbad}
  UsableKey = {k1, k2}
  NoKey = NoKey
  SeqSpace = 6
  Window = 2
  ohb_size = 2
  AuthTag = 3
  MaxPayload = 14
  kRtxHeaderSize = 2
  FramePackets = {2}
  Spare = {0, 1}
  Reach = 2
  MaxNumber = 7
  MaxCalls = 3
SPECIFICATION Spec
INVARIANT HandedOnDecrypted
CHECK_DEADLOCK FALSE
