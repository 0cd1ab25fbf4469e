CONSTANTS
  Calls = {c1, c2}
  Mutations = {}
  Releases = {}
  Takeovers = {}
  Stops = {s1}
  NoCall = NoCall
  MayPanic = FALSE
SPECIFICATION Spec
SYMMETRY Symmetry
INVARIANTS TypeOK CallersAndWorkersPair StopJoins IdleLeaseRuns
CHECK_DEADLOCK FALSE
