CONSTANTS
  MaxCaptures = 2
  Frames <- MCFrames
  SeqSpace = 16
  ReorderWindow = 2
  MaxCompleted = 3
  MaxPackets = 3
  FirstSeq = 12
  MaxLoss = 1
  MaxDelay = 2
  MaxFaults = 1
SPECIFICATION FairSpec
INVARIANTS TypeOK FrameIsWhole WaiterIsServed JoinedMeansQuiet
PROPERTIES FrameIsFresh ParametersAdvance CloseReleases
CHECK_DEADLOCK FALSE
