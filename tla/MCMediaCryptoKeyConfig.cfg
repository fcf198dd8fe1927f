CONSTANTS
  k1 = k1
  k2 = k2
  kbad = kbad
  Key = {k1, k2, kbad}
  UsableKey = {k1, k2}
  NoKey = NoKey
  SeqSpace = 6
  Window = 2
  ohb_size = 2
  AuthTag = 3
  Layers = {1, 2}
  MaxCalls = 6
SPECIFICATION Spec
INVARIANTS KeyedOnceIsInForce NeverAnotherKey LayersAgree
SYMMETRY UsableKeys
CHECK_DEADLOCK FALSE
