CONSTANTS
  T1 = T1
  T2 = T2
  T3 = T3
  NoSource = NoSource
  First = T1
  Threads <- MCThreads
  Stopped <- MCStopped
  MaxCalls = 3
  MaxDelayed = 2
SPECIFICATION FairSpec
CHECK_DEADLOCK FALSE
INVARIANTS TypeOK NoDanglingReady NoStrangersDuringSend HandledOnce
PROPERTIES SendReturns PostedIsHandled
