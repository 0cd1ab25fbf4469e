CONSTANTS
  a = a
  b = b
  d1 = d1
  d2 = d2
  Calls = {a, b}
  NoCall = NoCall
  Devices = {d1, d2}
  Cases <- MCCases
  Closers = {"beside", "last"}
  Traced = {b}
  Flush = Flush
  QueueSize = 1
SPECIFICATION FairSpec
INVARIANTS TypeOK AdmissionSafe NothingLost
PROPERTIES ShutdownEnds
