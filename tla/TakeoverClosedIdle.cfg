CONSTANTS
  Calls = {c1}
  Mutations = {}
  Releases = {}
  Takeovers = {}
  Stops = {}
  NoCall = NoCall
  MayPanic = FALSE
SPECIFICATION Spec
PROPERTIES TakeoverLatched
CHECK_DEADLOCK FALSE
