CONSTANTS
  Calls = {c1}
  Mutations = {c1}
  Releases = {r1}
  Takeovers = {t1}
  Stops = {s1, s2}
  NoCall = NoCall
  MayPanic = TRUE
SPECIFICATION Spec
SYMMETRY Symmetry
INVARIANTS OneSlot OwnershipMatches QueueHasDriver LifecycleReplyOwed CompletionHonest
PROPERTIES ImplementsOwnership
CHECK_DEADLOCK FALSE
