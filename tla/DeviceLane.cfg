CONSTANTS
  a = a
  b = b
  Jobs = {a, b}
  NoJob = NoJob
  Cases <- MCCases
  Keys = 2
  Probes = 2
SPECIFICATION Spec
INVARIANTS TypeOK HIDIsolated LeftoversRemoved
PROPERTIES ReplyIsHonest MountedIsTheFile
