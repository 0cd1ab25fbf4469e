CONSTANTS
  Calls = {c1}
  Mutations = {}
  Releases = {}
  Takeovers = {t1}
  Stops = {s1}
  NoCall = NoCall
  MayPanic = FALSE
SPECIFICATION FairSpec
INVARIANTS SessionsAccountedFor
PROPERTIES StopCompletes CallersReturn
CHECK_DEADLOCK FALSE
