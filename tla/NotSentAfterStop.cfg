CONSTANTS
  Calls = {c1}
  Mutations = {c1}
  Releases = {}
  Takeovers = {}
  Stops = {s1}
  NoCall = NoCall
  MayPanic = FALSE
SPECIFICATION Spec
INVARIANTS ReturnHonest
CHECK_DEADLOCK FALSE
