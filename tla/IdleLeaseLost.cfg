CONSTANTS
  Calls = {c1}
  Mutations = {}
  Releases = {}
  Takeovers = {t1}
  Stops = {}
  NoCall = NoCall
  MayPanic = FALSE
SPECIFICATION Spec
INVARIANTS IdleLeaseRuns
CHECK_DEADLOCK FALSE
