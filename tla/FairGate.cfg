CONSTANTS
  Callers = {c1, c2, c3}
  NoCaller = NoCaller
SPECIFICATION FairSpec
INVARIANTS TypeOK MutualExclusion TokenConserved NoLostWakeup
PROPERTIES NoStarvation ImplementsFifoGate
