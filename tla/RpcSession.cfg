CONSTANTS
  Requests = {r1, r2}
  NoRequest = NoRequest
  MaxPending = 1
SPECIFICATION FairSpec
INVARIANTS TypeOK OneHand TableIsLive
PROPERTIES ContextsWake ImplementsRpcCall
CHECK_DEADLOCK FALSE
