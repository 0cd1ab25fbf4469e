CONSTANTS
  Calls = {c1, c2}
  Mutations = {}
  Releases = {}
  Takeovers = {}
  Stops = {}
  NoCall = NoCall
  MayPanic = FALSE
SPECIFICATION Spec
INVARIANTS CancelsOnlyItself
CHECK_DEADLOCK FALSE
