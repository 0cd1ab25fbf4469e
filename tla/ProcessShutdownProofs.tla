------------------------ MODULE ProcessShutdownProofs ------------------------
(***************************************************************************)
(* Proofs about ProcessShutdown: the permits, the exclusion of lifecycle   *)
(* operations and the join of Manager.Close hold for every set of calls    *)
(* and devices and every configured limit, and the telemetry loses no      *)
(* event it does not count, with queues of any size.                       *)
(***************************************************************************)
EXTENDS ProcessShutdown, FiniteSetTheorems, TLAPS

Operating == {c \in Calls : HoldsOperation(c)}
OnDevice(d) == {c \in Calls : HoldsDevice(c, d)}
Counted(d) == {c \in Calls : CountedOn(c, d)}
Capturing == {c \in Calls : HoldsCapture(c)}
Decoders == {c \in Calls : HoldsDecoder(c)}
Workers == {c \in Calls : at[c] = "decoding"}

Typed ==
  /\ kind \in [Calls -> Kinds] /\ target \in [Calls -> Devices]
  /\ limit.operations \in Nat /\ limit.device \in Nat
  /\ limit.captures \in Nat /\ limit.decoders \in Nat
  /\ at \in [Calls -> Places] /\ got \subseteq Calls
  /\ mutex \in [Devices -> Calls \cup {NoCall}]
  /\ ordinary \in [Devices -> Int] /\ lifecycle \in [Devices -> BOOLEAN]
  /\ operations \in Int /\ deviceOps \in [Devices -> Int]
  /\ captures \in Int /\ decoders \in Int /\ decoderWorkers \in Int
  /\ closed \in BOOLEAN /\ stopped \subseteq Devices
  /\ closer \in [Closers -> {"idle", "called", "stopping", "joining", "closed"}]
  /\ closeErr \subseteq Closers

\* Only ordinary calls come to these places, and only lifecycle calls to those.
KindPlaces ==
  \A c \in Calls :
    /\ at[c] \in {"admitting", "admitted", "scheduled", "staging", "leaving", "leavingDevice",
                  "uncounting"} => Ordinary(c)
    /\ at[c] \in {"latched", "unlatching"} => ~Ordinary(c)

\* What makes a lifecycle call alone: an ordinary call between its two permits holds
\* admission.mu, so nobody latches then; and the latch is set for a latched call.
Latching ==
  \A c \in Calls :
    /\ at[c] = "admitting" => mutex[target[c]] = c /\ ~lifecycle[target[c]]
    /\ LatchedOn(c, target[c]) => lifecycle[target[c]]

\* What Close has done so far.
Closing ==
  \A k \in Closers :
    /\ closer[k] \in {"stopping", "joining", "closed"} => closed
    /\ closer[k] \in {"joining", "closed"} => stopped = Devices
    /\ closer[k] = "joining" /\ k \notin closeErr => \A c \in Calls : at[c] # "operating"

IInv ==
  Typed /\ KindPlaces /\ Latching /\ Closing /\ PermitsHeld /\ LifecycleAlone /\ CloseJoins

B(p) == IF p THEN 1 ELSE 0

-----------------------------------------------------------------------------
(* Counting                                                                *)

\* A set that differs from another in at most one element has its cardinality,
\* give or take that element.
LEMMA CardMove ==
  ASSUME NEW F, NEW G, NEW c, IsFiniteSet(F), IsFiniteSet(G), G \ {c} = F \ {c}
  PROVE  Cardinality(G) = Cardinality(F) + B(c \in G) - B(c \in F)
<1>1. ASSUME NEW S, IsFiniteSet(S)
      PROVE  /\ Cardinality(S) \in Nat
             /\ Cardinality(S) = Cardinality(S \ {c}) + B(c \in S)
             /\ Cardinality(S \ {c}) \in Nat
  <2>1. Cardinality(S) \in Nat
    BY <1>1, FS_CardinalityType
  <2>2. Cardinality(S \ {c}) = IF c \in S THEN Cardinality(S) - 1 ELSE Cardinality(S)
    BY <1>1, FS_RemoveElement
  <2>3. IsFiniteSet(S \ {c})
    BY <1>1, FS_RemoveElement
  <2>4. Cardinality(S \ {c}) \in Nat
    BY <2>3, FS_CardinalityType
  <2> QED BY <2>1, <2>2, <2>4 DEF B
<1>2. /\ Cardinality(F) \in Nat /\ Cardinality(F \ {c}) \in Nat
      /\ Cardinality(F) = Cardinality(F \ {c}) + B(c \in F)
  BY <1>1
<1>3. /\ Cardinality(G) \in Nat /\ Cardinality(G) = Cardinality(G \ {c}) + B(c \in G)
  BY <1>1
<1>4. Cardinality(G \ {c}) = Cardinality(F \ {c})
  OBVIOUS
<1>5. B(c \in F) \in Int /\ B(c \in G) \in Int
  BY DEF B
<1> QED BY <1>2, <1>3, <1>4, <1>5

\* Any set of calls is finite and has a size.
LEMMA CallsFinite == ASSUME NEW S, S \subseteq Calls
                     PROVE  IsFiniteSet(S) /\ Cardinality(S) \in Nat
  BY FS_Subset, FS_CardinalityType, AdmissionConstants

\* When one call moves, each permit is held by the same other calls.
LEMMA OthersStay ==
  ASSUME Typed, NEW c \in Calls, NEW q, Goto(c, q), UNCHANGED caseVars
  PROVE  /\ Operating' \ {c} = Operating \ {c}
         /\ \A d \in Devices : OnDevice(d)' \ {c} = OnDevice(d) \ {c}
         /\ \A d \in Devices : Counted(d)' \ {c} = Counted(d) \ {c}
         /\ Capturing' \ {c} = Capturing \ {c}
         /\ Decoders' \ {c} = Decoders \ {c}
         /\ Workers' \ {c} = Workers \ {c}
<1>1. \A o \in Calls \ {c} : at'[o] = at[o]
  BY DEF Typed, Goto
<1>2. kind' = kind /\ target' = target
  BY DEF caseVars
<1>3. Operating' \ {c} = Operating \ {c}
  BY <1>1, <1>2 DEF Operating, HoldsOperation, Ordinary
<1>4. \A d \in Devices : OnDevice(d)' \ {c} = OnDevice(d) \ {c}
  BY <1>1, <1>2 DEF OnDevice, HoldsDevice, Ordinary
<1>5. \A d \in Devices : Counted(d)' \ {c} = Counted(d) \ {c}
  BY <1>1, <1>2 DEF Counted, CountedOn, Ordinary
<1>6. Capturing' \ {c} = Capturing \ {c}
  BY <1>1, <1>2 DEF Capturing, HoldsCapture, Capture
<1>7. Decoders' \ {c} = Decoders \ {c}
  BY <1>1 DEF Decoders, HoldsDecoder
<1>8. Workers' \ {c} = Workers \ {c}
  BY <1>1 DEF Workers
<1> QED BY <1>3, <1>4, <1>5, <1>6, <1>7, <1>8

\* So each count changes by what the call itself takes or gives back.
LEMMA Moves ==
  ASSUME Typed, NEW c \in Calls, NEW q, Goto(c, q), UNCHANGED caseVars
  PROVE  /\ Cardinality(Operating') =
              Cardinality(Operating) + B(HoldsOperation(c)') - B(HoldsOperation(c))
         /\ \A d \in Devices :
              /\ Cardinality(OnDevice(d)') =
                   Cardinality(OnDevice(d)) + B(HoldsDevice(c, d)') - B(HoldsDevice(c, d))
              /\ Cardinality(Counted(d)') =
                   Cardinality(Counted(d)) + B(CountedOn(c, d)') - B(CountedOn(c, d))
         /\ Cardinality(Capturing') =
              Cardinality(Capturing) + B(HoldsCapture(c)') - B(HoldsCapture(c))
         /\ Cardinality(Decoders') =
              Cardinality(Decoders) + B(HoldsDecoder(c)') - B(HoldsDecoder(c))
         /\ Cardinality(Workers') =
              Cardinality(Workers) + B(at'[c] = "decoding") - B(at[c] = "decoding")
<1>1. Cardinality(Operating') =
        Cardinality(Operating) + B(HoldsOperation(c)') - B(HoldsOperation(c))
  <2>1. Operating' \subseteq Calls /\ Operating \subseteq Calls BY DEF Operating
  <2>2. Cardinality(Operating') =
          Cardinality(Operating) + B(c \in Operating') - B(c \in Operating)
    BY <2>1, OthersStay, CallsFinite, CardMove
  <2> QED BY <2>2 DEF Operating, B
<1>2. ASSUME NEW d \in Devices
      PROVE  Cardinality(OnDevice(d)') =
               Cardinality(OnDevice(d)) + B(HoldsDevice(c, d)') - B(HoldsDevice(c, d))
  <2>1. OnDevice(d)' \subseteq Calls /\ OnDevice(d) \subseteq Calls BY DEF OnDevice
  <2>2. Cardinality(OnDevice(d)') =
          Cardinality(OnDevice(d)) + B(c \in OnDevice(d)') - B(c \in OnDevice(d))
    BY <2>1, OthersStay, CallsFinite, CardMove
  <2> QED BY <2>2 DEF OnDevice, B
<1>3. ASSUME NEW d \in Devices
      PROVE  Cardinality(Counted(d)') =
               Cardinality(Counted(d)) + B(CountedOn(c, d)') - B(CountedOn(c, d))
  <2>1. Counted(d)' \subseteq Calls /\ Counted(d) \subseteq Calls BY DEF Counted
  <2>2. Cardinality(Counted(d)') =
          Cardinality(Counted(d)) + B(c \in Counted(d)') - B(c \in Counted(d))
    BY <2>1, OthersStay, CallsFinite, CardMove
  <2> QED BY <2>2 DEF Counted, B
<1>4. Cardinality(Capturing') =
        Cardinality(Capturing) + B(HoldsCapture(c)') - B(HoldsCapture(c))
  <2>1. Capturing' \subseteq Calls /\ Capturing \subseteq Calls BY DEF Capturing
  <2>2. Cardinality(Capturing') =
          Cardinality(Capturing) + B(c \in Capturing') - B(c \in Capturing)
    BY <2>1, OthersStay, CallsFinite, CardMove
  <2> QED BY <2>2 DEF Capturing, B
<1>5. Cardinality(Decoders') =
        Cardinality(Decoders) + B(HoldsDecoder(c)') - B(HoldsDecoder(c))
  <2>1. Decoders' \subseteq Calls /\ Decoders \subseteq Calls BY DEF Decoders
  <2>2. Cardinality(Decoders') =
          Cardinality(Decoders) + B(c \in Decoders') - B(c \in Decoders)
    BY <2>1, OthersStay, CallsFinite, CardMove
  <2> QED BY <2>2 DEF Decoders, B
<1>6. Cardinality(Workers') =
        Cardinality(Workers) + B(at'[c] = "decoding") - B(at[c] = "decoding")
  <2>1. Workers' \subseteq Calls /\ Workers \subseteq Calls BY DEF Workers
  <2>2. Cardinality(Workers') =
          Cardinality(Workers) + B(c \in Workers') - B(c \in Workers)
    BY <2>1, OthersStay, CallsFinite, CardMove
  <2> QED BY <2>2 DEF Workers, B
<1> QED BY <1>1, <1>2, <1>3, <1>4, <1>5, <1>6

-----------------------------------------------------------------------------
(* What a step of one call does to the permits                             *)

OperationsMove(c) ==
  /\ operations' = operations + B(HoldsOperation(c)') - B(HoldsOperation(c))
  /\ operations' <= limit.operations

\* The call is at a place where it holds a permit of its device, or is counted there.
OnItsDevice(c) == Ordinary(c) /\ at[c] \in Scheduling
CountedThere(c) == Ordinary(c) /\ at[c] \in Scheduling \cup {"leavingDevice", "uncounting"}

DevicesMove(c) ==
  LET d == target[c] IN
  /\ \A o \in Devices \ {d} : deviceOps'[o] = deviceOps[o] /\ ordinary'[o] = ordinary[o]
  /\ deviceOps'[d] = deviceOps[d] + B(OnItsDevice(c)') - B(OnItsDevice(c))
  /\ deviceOps'[d] <= limit.device
  /\ ordinary'[d] = ordinary[d] + B(CountedThere(c)') - B(CountedThere(c))

CapturesMove(c) ==
  /\ captures' = captures + B(HoldsCapture(c)') - B(HoldsCapture(c))
  /\ captures' <= limit.captures

DecodersMove(c) ==
  /\ decoders' = decoders + B(HoldsDecoder(c)') - B(HoldsDecoder(c))
  /\ decoders' <= limit.decoders
  /\ decoderWorkers' = decoderWorkers + B(at'[c] = "decoding") - B(at[c] = "decoding")

PermitsMove(c) == OperationsMove(c) /\ DevicesMove(c) /\ CapturesMove(c) /\ DecodersMove(c)

\* A call whose step moves each counter by what it takes keeps the permits counted.
LEMMA PermitsStep ==
  ASSUME IInv, NEW c \in Calls, NEW q, Goto(c, q), UNCHANGED caseVars, PermitsMove(c)
  PROVE  PermitsHeld'
<1> USE DEF IInv, caseVars
<1>1. operations' = Cardinality(Operating') /\ operations' <= limit'.operations
  BY Moves DEF PermitsMove, OperationsMove, PermitsHeld, Operating
<1>2. ASSUME NEW d \in Devices
      PROVE  /\ deviceOps'[d] = Cardinality(OnDevice(d)') /\ deviceOps'[d] <= limit'.device
             /\ ordinary'[d] = Cardinality(Counted(d)')
  <2>1. target' = target /\ limit' = limit /\ target[c] \in Devices
    BY DEF Typed
  <2>2. deviceOps[d] = Cardinality(OnDevice(d)) /\ ordinary[d] = Cardinality(Counted(d))
    BY DEF PermitsHeld, OnDevice, Counted
  <2>3. deviceOps[d] <= limit.device
    BY DEF PermitsHeld
  <2>4. /\ Cardinality(OnDevice(d)') =
             Cardinality(OnDevice(d)) + B(HoldsDevice(c, d)') - B(HoldsDevice(c, d))
        /\ Cardinality(Counted(d)') =
             Cardinality(Counted(d)) + B(CountedOn(c, d)') - B(CountedOn(c, d))
    BY Moves
  <2>5. CASE d = target[c]
    <3>1. (HoldsDevice(c, d) <=> OnItsDevice(c)) /\ (HoldsDevice(c, d)' <=> OnItsDevice(c)')
      BY <2>1, <2>5 DEF HoldsDevice, OnItsDevice
    <3>2. (CountedOn(c, d) <=> CountedThere(c)) /\ (CountedOn(c, d)' <=> CountedThere(c)')
      BY <2>1, <2>5 DEF CountedOn, CountedThere
    <3> QED BY <2>1, <2>2, <2>4, <2>5, <3>1, <3>2 DEF PermitsMove, DevicesMove, B
  <2>6. CASE d # target[c]
    <3>1. ~HoldsDevice(c, d) /\ ~HoldsDevice(c, d)' /\ ~CountedOn(c, d) /\ ~CountedOn(c, d)'
      BY <2>1, <2>6 DEF HoldsDevice, CountedOn
    <3>2. B(HoldsDevice(c, d)) = 0 /\ B(HoldsDevice(c, d)') = 0
          /\ B(CountedOn(c, d)) = 0 /\ B(CountedOn(c, d)') = 0
      BY <3>1 DEF B
    <3>3. deviceOps'[d] = deviceOps[d] /\ ordinary'[d] = ordinary[d]
      BY <2>6 DEF PermitsMove, DevicesMove
    <3>4. Cardinality(OnDevice(d)) \in Nat /\ Cardinality(Counted(d)) \in Nat
      BY CallsFinite DEF OnDevice, Counted
    <3> QED BY <2>1, <2>2, <2>3, <2>4, <3>2, <3>3, <3>4
  <2> QED BY <2>5, <2>6
<1>3. captures' = Cardinality(Capturing') /\ captures' <= limit'.captures
  BY Moves DEF PermitsMove, CapturesMove, PermitsHeld, Capturing
<1>4. /\ decoders' = Cardinality(Decoders') /\ decoders' <= limit'.decoders
      /\ decoderWorkers' = Cardinality(Workers')
  BY Moves DEF PermitsMove, DecodersMove, PermitsHeld, Decoders, Workers
<1> QED
  BY <1>1, <1>2, <1>3, <1>4
  DEF PermitsHeld, Operating, OnDevice, Counted, Capturing, Decoders, Workers

\* No permit is over its limit.
Within ==
  /\ operations <= limit.operations /\ captures <= limit.captures /\ decoders <= limit.decoders
  /\ \A d \in Devices : deviceOps[d] <= limit.device

\* The permits out do not exceed the limits.
LEMMA WithinLimits == IInv => Within
  BY DEF IInv, PermitsHeld, Within

\* A call that is refused moves one call between the counters, or none.
LEMMA RefuseMoves ==
  ASSUME IInv, NEW c \in Calls, Refuse(c)
  PROVE  PermitsMove(c)
<1> USE WithinLimits DEF Refuse, Within, IInv, Typed, KindPlaces, Goto, caseVars, permitVars,
                         deviceVars, Ordinary, Scheduling, B
<1>1. OperationsMove(c) BY DEF OperationsMove, HoldsOperation
<1>2. DevicesMove(c) BY DEF DevicesMove, OnItsDevice, CountedThere
<1>3. CapturesMove(c) BY DEF CapturesMove, HoldsCapture, Capture
<1>4. DecodersMove(c) BY DEF DecodersMove, HoldsDecoder
<1> QED BY <1>1, <1>2, <1>3, <1>4 DEF PermitsMove

\* Taking the global permit moves one call between the counters, or none.
LEMMA TakeOperationMoves ==
  ASSUME IInv, NEW c \in Calls, TakeOperation(c)
  PROVE  PermitsMove(c)
<1> USE WithinLimits DEF TakeOperation, Within, IInv, Typed, KindPlaces, Goto, caseVars, permitVars,
                         deviceVars, Ordinary, Scheduling, B
<1>1. OperationsMove(c) BY DEF OperationsMove, HoldsOperation
<1>2. DevicesMove(c) BY DEF DevicesMove, OnItsDevice, CountedThere
<1>3. CapturesMove(c) BY DEF CapturesMove, HoldsCapture, Capture
<1>4. DecodersMove(c) BY DEF DecodersMove, HoldsDecoder
<1> QED BY <1>1, <1>2, <1>3, <1>4 DEF PermitsMove

\* Taking the device permit moves one call between the counters, or none.
LEMMA TakeDeviceMoves ==
  ASSUME IInv, NEW c \in Calls, TakeDevice(c)
  PROVE  PermitsMove(c)
<1> USE WithinLimits DEF TakeDevice, Within, IInv, Typed, KindPlaces, Goto, caseVars, permitVars,
                         deviceVars, Ordinary, Scheduling, B
<1>1. OperationsMove(c) BY DEF OperationsMove, HoldsOperation
<1>2. DevicesMove(c) BY DEF DevicesMove, OnItsDevice, CountedThere
<1>3. CapturesMove(c) BY DEF CapturesMove, HoldsCapture, Capture
<1>4. DecodersMove(c) BY DEF DecodersMove, HoldsDecoder
<1> QED BY <1>1, <1>2, <1>3, <1>4 DEF PermitsMove

\* Taking a capture permit moves one call between the counters, or none.
LEMMA TakeCaptureMoves ==
  ASSUME IInv, NEW c \in Calls, TakeCapture(c)
  PROVE  PermitsMove(c)
<1> USE WithinLimits DEF TakeCapture, Within, IInv, Typed, KindPlaces, Goto, caseVars, permitVars,
                         deviceVars, Ordinary, Scheduling, B
<1>1. OperationsMove(c) BY DEF OperationsMove, HoldsOperation
<1>2. DevicesMove(c) BY DEF DevicesMove, OnItsDevice, CountedThere
<1>3. CapturesMove(c) BY DEF CapturesMove, HoldsCapture, Capture
<1>4. DecodersMove(c) BY DEF DecodersMove, HoldsDecoder
<1> QED BY <1>1, <1>2, <1>3, <1>4 DEF PermitsMove

\* Handing an operation to its owner moves one call between the counters, or none.
LEMMA OperateMoves ==
  ASSUME IInv, NEW c \in Calls, Operate(c)
  PROVE  PermitsMove(c)
<1> USE WithinLimits DEF Operate, Within, IInv, Typed, KindPlaces, Goto, caseVars, permitVars,
                         deviceVars, Ordinary, Scheduling, B
<1>1. OperationsMove(c) BY DEF OperationsMove, HoldsOperation
<1>2. DevicesMove(c) BY DEF DevicesMove, OnItsDevice, CountedThere
<1>3. CapturesMove(c) BY DEF CapturesMove, HoldsCapture, Capture
<1>4. DecodersMove(c) BY DEF DecodersMove, HoldsDecoder
<1> QED BY <1>1, <1>2, <1>3, <1>4 DEF PermitsMove

\* An owner's answer moves one call between the counters, or none.
LEMMA OwnerReturnsMoves ==
  ASSUME IInv, NEW c \in Calls, OwnerReturns(c)
  PROVE  PermitsMove(c)
<1> USE WithinLimits DEF OwnerReturns, Within, IInv, Typed, KindPlaces, Goto, caseVars, permitVars,
                         deviceVars, Ordinary, Scheduling, B
<1>1. OperationsMove(c) BY DEF OperationsMove, HoldsOperation
<1>2. DevicesMove(c) BY DEF DevicesMove, OnItsDevice, CountedThere
<1>3. CapturesMove(c) BY DEF CapturesMove, HoldsCapture, Capture
<1>4. DecodersMove(c) BY DEF DecodersMove, HoldsDecoder
<1> QED BY <1>1, <1>2, <1>3, <1>4 DEF PermitsMove

\* Giving back the device permit moves one call between the counters, or none.
LEMMA GiveDeviceMoves ==
  ASSUME IInv, NEW c \in Calls, GiveDevice(c)
  PROVE  PermitsMove(c)
<1> USE WithinLimits DEF GiveDevice, Within, IInv, Typed, KindPlaces, Goto, caseVars, permitVars,
                         deviceVars, Ordinary, Scheduling, B
<1>1. OperationsMove(c) BY DEF OperationsMove, HoldsOperation
<1>2. DevicesMove(c) BY DEF DevicesMove, OnItsDevice, CountedThere
<1>3. CapturesMove(c) BY DEF CapturesMove, HoldsCapture, Capture
<1>4. DecodersMove(c) BY DEF DecodersMove, HoldsDecoder
<1> QED BY <1>1, <1>2, <1>3, <1>4 DEF PermitsMove

\* Giving back the global permit moves one call between the counters, or none.
LEMMA GiveOperationMoves ==
  ASSUME IInv, NEW c \in Calls, GiveOperation(c)
  PROVE  PermitsMove(c)
<1> USE WithinLimits DEF GiveOperation, Within, IInv, Typed, KindPlaces, Goto, caseVars, permitVars,
                         deviceVars, Ordinary, Scheduling, B
<1>1. OperationsMove(c) BY DEF OperationsMove, HoldsOperation
<1>2. DevicesMove(c) BY DEF DevicesMove, OnItsDevice, CountedThere
<1>3. CapturesMove(c) BY DEF CapturesMove, HoldsCapture, Capture
<1>4. DecodersMove(c) BY DEF DecodersMove, HoldsDecoder
<1> QED BY <1>1, <1>2, <1>3, <1>4 DEF PermitsMove

\* Leaving the count of a device moves one call between the counters, or none.
LEMMA UncountMoves ==
  ASSUME IInv, NEW c \in Calls, Uncount(c)
  PROVE  PermitsMove(c)
<1> USE WithinLimits DEF Uncount, Within, IInv, Typed, KindPlaces, Goto, caseVars, permitVars,
                         deviceVars, Ordinary, Scheduling, B
<1>1. OperationsMove(c) BY DEF OperationsMove, HoldsOperation
<1>2. DevicesMove(c) BY DEF DevicesMove, OnItsDevice, CountedThere
<1>3. CapturesMove(c) BY DEF CapturesMove, HoldsCapture, Capture
<1>4. DecodersMove(c) BY DEF DecodersMove, HoldsDecoder
<1> QED BY <1>1, <1>2, <1>3, <1>4 DEF PermitsMove

\* Latching a device moves one call between the counters, or none.
LEMMA LatchMoves ==
  ASSUME IInv, NEW c \in Calls, Latch(c)
  PROVE  PermitsMove(c)
<1> USE WithinLimits DEF Latch, Within, IInv, Typed, KindPlaces, Goto, caseVars, permitVars,
                         deviceVars, Ordinary, Scheduling, B
<1>1. OperationsMove(c) BY DEF OperationsMove, HoldsOperation
<1>2. DevicesMove(c) BY DEF DevicesMove, OnItsDevice, CountedThere
<1>3. CapturesMove(c) BY DEF CapturesMove, HoldsCapture, Capture
<1>4. DecodersMove(c) BY DEF DecodersMove, HoldsDecoder
<1> QED BY <1>1, <1>2, <1>3, <1>4 DEF PermitsMove

\* The permit of a lifecycle call moves one call between the counters, or none.
LEMMA LatchedTakesOperationMoves ==
  ASSUME IInv, NEW c \in Calls, LatchedTakesOperation(c)
  PROVE  PermitsMove(c)
<1> USE WithinLimits DEF LatchedTakesOperation, Within, IInv, Typed, KindPlaces, Goto, caseVars, permitVars,
                         deviceVars, Ordinary, Scheduling, B
<1>1. OperationsMove(c) BY DEF OperationsMove, HoldsOperation
<1>2. DevicesMove(c) BY DEF DevicesMove, OnItsDevice, CountedThere
<1>3. CapturesMove(c) BY DEF CapturesMove, HoldsCapture, Capture
<1>4. DecodersMove(c) BY DEF DecodersMove, HoldsDecoder
<1> QED BY <1>1, <1>2, <1>3, <1>4 DEF PermitsMove

\* The end of a lifecycle call moves one call between the counters, or none.
LEMMA LifecycleReturnsMoves ==
  ASSUME IInv, NEW c \in Calls, LifecycleReturns(c)
  PROVE  PermitsMove(c)
<1> USE WithinLimits DEF LifecycleReturns, Within, IInv, Typed, KindPlaces, Goto, caseVars, permitVars,
                         deviceVars, Ordinary, Scheduling, B
<1>1. OperationsMove(c) BY DEF OperationsMove, HoldsOperation
<1>2. DevicesMove(c) BY DEF DevicesMove, OnItsDevice, CountedThere
<1>3. CapturesMove(c) BY DEF CapturesMove, HoldsCapture, Capture
<1>4. DecodersMove(c) BY DEF DecodersMove, HoldsDecoder
<1> QED BY <1>1, <1>2, <1>3, <1>4 DEF PermitsMove

\* Unlatching a device moves one call between the counters, or none.
LEMMA UnlatchMoves ==
  ASSUME IInv, NEW c \in Calls, Unlatch(c)
  PROVE  PermitsMove(c)
<1> USE WithinLimits DEF Unlatch, Within, IInv, Typed, KindPlaces, Goto, caseVars, permitVars,
                         deviceVars, Ordinary, Scheduling, B
<1>1. OperationsMove(c) BY DEF OperationsMove, HoldsOperation
<1>2. DevicesMove(c) BY DEF DevicesMove, OnItsDevice, CountedThere
<1>3. CapturesMove(c) BY DEF CapturesMove, HoldsCapture, Capture
<1>4. DecodersMove(c) BY DEF DecodersMove, HoldsDecoder
<1> QED BY <1>1, <1>2, <1>3, <1>4 DEF PermitsMove

\* Taking a decoder permit moves one call between the counters, or none.
LEMMA TakeDecoderMoves ==
  ASSUME IInv, NEW c \in Calls, TakeDecoder(c)
  PROVE  PermitsMove(c)
<1> USE WithinLimits DEF TakeDecoder, Within, IInv, Typed, KindPlaces, Goto, caseVars, permitVars,
                         deviceVars, Ordinary, Scheduling, B
<1>1. OperationsMove(c) BY DEF OperationsMove, HoldsOperation
<1>2. DevicesMove(c) BY DEF DevicesMove, OnItsDevice, CountedThere
<1>3. CapturesMove(c) BY DEF CapturesMove, HoldsCapture, Capture
<1>4. DecodersMove(c) BY DEF DecodersMove, HoldsDecoder
<1> QED BY <1>1, <1>2, <1>3, <1>4 DEF PermitsMove

\* The start of a decoder moves one call between the counters, or none.
LEMMA BeginDecoderMoves ==
  ASSUME IInv, NEW c \in Calls, BeginDecoder(c)
  PROVE  PermitsMove(c)
<1> USE WithinLimits DEF BeginDecoder, Within, IInv, Typed, KindPlaces, Goto, caseVars, permitVars,
                         deviceVars, Ordinary, Scheduling, B
<1>1. OperationsMove(c) BY DEF OperationsMove, HoldsOperation
<1>2. DevicesMove(c) BY DEF DevicesMove, OnItsDevice, CountedThere
<1>3. CapturesMove(c) BY DEF CapturesMove, HoldsCapture, Capture
<1>4. DecodersMove(c) BY DEF DecodersMove, HoldsDecoder
<1> QED BY <1>1, <1>2, <1>3, <1>4 DEF PermitsMove

\* The end of a decoder moves one call between the counters, or none.
LEMMA DecodedMoves ==
  ASSUME IInv, NEW c \in Calls, Decoded(c)
  PROVE  PermitsMove(c)
<1> USE WithinLimits DEF Decoded, Within, IInv, Typed, KindPlaces, Goto, caseVars, permitVars,
                         deviceVars, Ordinary, Scheduling, B
<1>1. OperationsMove(c) BY DEF OperationsMove, HoldsOperation
<1>2. DevicesMove(c) BY DEF DevicesMove, OnItsDevice, CountedThere
<1>3. CapturesMove(c) BY DEF CapturesMove, HoldsCapture, Capture
<1>4. DecodersMove(c) BY DEF DecodersMove, HoldsDecoder
<1> QED BY <1>1, <1>2, <1>3, <1>4 DEF PermitsMove

\* Giving back a decoder permit moves one call between the counters, or none.
LEMMA GiveDecoderMoves ==
  ASSUME IInv, NEW c \in Calls, GiveDecoder(c)
  PROVE  PermitsMove(c)
<1> USE WithinLimits DEF GiveDecoder, Within, IInv, Typed, KindPlaces, Goto, caseVars, permitVars,
                         deviceVars, Ordinary, Scheduling, B
<1>1. OperationsMove(c) BY DEF OperationsMove, HoldsOperation
<1>2. DevicesMove(c) BY DEF DevicesMove, OnItsDevice, CountedThere
<1>3. CapturesMove(c) BY DEF CapturesMove, HoldsCapture, Capture
<1>4. DecodersMove(c) BY DEF DecodersMove, HoldsDecoder
<1> QED BY <1>1, <1>2, <1>3, <1>4 DEF PermitsMove

-----------------------------------------------------------------------------
(* Each step of a call keeps the invariant                                 *)

\* Nobody is counted on a device whose counter is zero.
LEMMA NobodyCounted ==
  ASSUME IInv, NEW d \in Devices, ordinary[d] = 0
  PROVE  \A c \in Calls : ~CountedOn(c, d)
<1>1. Counted(d) \subseteq Calls /\ Cardinality(Counted(d)) = 0
  BY DEF IInv, PermitsHeld, Counted
<1>2. Counted(d) = {}
  BY <1>1, CallsFinite, FS_EmptySet
<1> QED BY <1>2 DEF Counted

\* A call that is refused keeps the invariant.
LEMMA RefuseKeeps ==
  ASSUME IInv, NEW c \in Calls, Refuse(c)
  PROVE  IInv'
<1> USE AdmissionConstants DEF Refuse, Goto, Ordinary, caseVars, permitVars, deviceVars, closeVars
<1>1. Typed' BY DEF IInv, Typed, Places, Scheduling
<1>2. KindPlaces' BY DEF IInv, Typed, KindPlaces
<1>3. Latching' BY DEF IInv, Typed, KindPlaces, Latching, LatchedOn, LifecycleAlone, Unlocked
<1>4. LifecycleAlone'
  BY DEF IInv, Typed, KindPlaces, Latching, LatchedOn, CountedOn, LifecycleAlone, Scheduling,
         Unlocked
<1>5. Closing' /\ CloseJoins' BY DEF IInv, Typed, Closing, CloseJoins
<1>6. PermitsHeld'
  <2>1. PICK q \in Places : Goto(c, q) BY DEF Places, Scheduling
  <2> QED BY <2>1, PermitsStep, RefuseMoves
<1> QED BY <1>1, <1>2, <1>3, <1>4, <1>5, <1>6 DEF IInv

\* Taking the global permit keeps the invariant.
LEMMA TakeOperationKeeps ==
  ASSUME IInv, NEW c \in Calls, TakeOperation(c)
  PROVE  IInv'
<1> USE AdmissionConstants DEF TakeOperation, Goto, Ordinary, caseVars, permitVars, deviceVars, closeVars
<1>1. Typed' BY DEF IInv, Typed, Places, Scheduling
<1>2. KindPlaces' BY DEF IInv, Typed, KindPlaces
<1>3. Latching' BY DEF IInv, Typed, KindPlaces, Latching, LatchedOn, LifecycleAlone, Unlocked
<1>4. LifecycleAlone'
  BY DEF IInv, Typed, KindPlaces, Latching, LatchedOn, CountedOn, LifecycleAlone, Scheduling,
         Unlocked
<1>5. Closing' /\ CloseJoins' BY DEF IInv, Typed, Closing, CloseJoins
<1>6. PermitsHeld'
  <2>1. PICK q \in Places : Goto(c, q) BY DEF Places, Scheduling
  <2> QED BY <2>1, PermitsStep, TakeOperationMoves
<1> QED BY <1>1, <1>2, <1>3, <1>4, <1>5, <1>6 DEF IInv

\* Taking the device permit keeps the invariant.
LEMMA TakeDeviceKeeps ==
  ASSUME IInv, NEW c \in Calls, TakeDevice(c)
  PROVE  IInv'
<1> USE AdmissionConstants DEF TakeDevice, Goto, Ordinary, caseVars, permitVars, deviceVars, closeVars
<1>1. Typed' BY DEF IInv, Typed, Places, Scheduling
<1>2. KindPlaces' BY DEF IInv, Typed, KindPlaces
<1>3. Latching' BY DEF IInv, Typed, KindPlaces, Latching, LatchedOn, LifecycleAlone, Unlocked
<1>4. LifecycleAlone'
  BY DEF IInv, Typed, KindPlaces, Latching, LatchedOn, CountedOn, LifecycleAlone, Scheduling,
         Unlocked
<1>5. Closing' /\ CloseJoins' BY DEF IInv, Typed, Closing, CloseJoins
<1>6. PermitsHeld'
  <2>1. PICK q \in Places : Goto(c, q) BY DEF Places, Scheduling
  <2> QED BY <2>1, PermitsStep, TakeDeviceMoves
<1> QED BY <1>1, <1>2, <1>3, <1>4, <1>5, <1>6 DEF IInv

\* Taking a capture permit keeps the invariant.
LEMMA TakeCaptureKeeps ==
  ASSUME IInv, NEW c \in Calls, TakeCapture(c)
  PROVE  IInv'
<1> USE AdmissionConstants DEF TakeCapture, Goto, Ordinary, caseVars, permitVars, deviceVars, closeVars
<1>1. Typed' BY DEF IInv, Typed, Places, Scheduling
<1>2. KindPlaces' BY DEF IInv, Typed, KindPlaces
<1>3. Latching' BY DEF IInv, Typed, KindPlaces, Latching, LatchedOn, LifecycleAlone, Unlocked
<1>4. LifecycleAlone'
  BY DEF IInv, Typed, KindPlaces, Latching, LatchedOn, CountedOn, LifecycleAlone, Scheduling,
         Unlocked
<1>5. Closing' /\ CloseJoins' BY DEF IInv, Typed, Closing, CloseJoins
<1>6. PermitsHeld'
  <2>1. PICK q \in Places : Goto(c, q) BY DEF Places, Scheduling
  <2> QED BY <2>1, PermitsStep, TakeCaptureMoves
<1> QED BY <1>1, <1>2, <1>3, <1>4, <1>5, <1>6 DEF IInv

\* Handing an operation to its owner keeps the invariant.
LEMMA OperateKeeps ==
  ASSUME IInv, NEW c \in Calls, Operate(c)
  PROVE  IInv'
<1> USE AdmissionConstants DEF Operate, Goto, Ordinary, caseVars, permitVars, deviceVars, closeVars
<1>1. Typed' BY DEF IInv, Typed, Places, Scheduling
<1>2. KindPlaces' BY DEF IInv, Typed, KindPlaces
<1>3. Latching' BY DEF IInv, Typed, KindPlaces, Latching, LatchedOn, LifecycleAlone, Unlocked
<1>4. LifecycleAlone'
  BY DEF IInv, Typed, KindPlaces, Latching, LatchedOn, CountedOn, LifecycleAlone, Scheduling,
         Unlocked
<1>5. Closing' /\ CloseJoins' BY DEF IInv, Typed, Closing, CloseJoins
<1>6. PermitsHeld'
  <2>1. PICK q \in Places : Goto(c, q) BY DEF Places, Scheduling
  <2> QED BY <2>1, PermitsStep, OperateMoves
<1> QED BY <1>1, <1>2, <1>3, <1>4, <1>5, <1>6 DEF IInv

\* An owner's answer keeps the invariant.
LEMMA OwnerReturnsKeeps ==
  ASSUME IInv, NEW c \in Calls, OwnerReturns(c)
  PROVE  IInv'
<1> USE AdmissionConstants DEF OwnerReturns, Goto, Ordinary, caseVars, permitVars, deviceVars, closeVars
<1>1. Typed' BY DEF IInv, Typed, Places, Scheduling
<1>2. KindPlaces' BY DEF IInv, Typed, KindPlaces
<1>3. Latching' BY DEF IInv, Typed, KindPlaces, Latching, LatchedOn, LifecycleAlone, Unlocked
<1>4. LifecycleAlone'
  BY DEF IInv, Typed, KindPlaces, Latching, LatchedOn, CountedOn, LifecycleAlone, Scheduling,
         Unlocked
<1>5. Closing' /\ CloseJoins' BY DEF IInv, Typed, Closing, CloseJoins
<1>6. PermitsHeld'
  <2>1. PICK q \in Places : Goto(c, q) BY DEF Places, Scheduling
  <2> QED BY <2>1, PermitsStep, OwnerReturnsMoves
<1> QED BY <1>1, <1>2, <1>3, <1>4, <1>5, <1>6 DEF IInv

\* Giving back the device permit keeps the invariant.
LEMMA GiveDeviceKeeps ==
  ASSUME IInv, NEW c \in Calls, GiveDevice(c)
  PROVE  IInv'
<1> USE AdmissionConstants DEF GiveDevice, Goto, Ordinary, caseVars, permitVars, deviceVars, closeVars
<1>1. Typed' BY DEF IInv, Typed, Places, Scheduling
<1>2. KindPlaces' BY DEF IInv, Typed, KindPlaces
<1>3. Latching' BY DEF IInv, Typed, KindPlaces, Latching, LatchedOn, LifecycleAlone, Unlocked
<1>4. LifecycleAlone'
  BY DEF IInv, Typed, KindPlaces, Latching, LatchedOn, CountedOn, LifecycleAlone, Scheduling,
         Unlocked
<1>5. Closing' /\ CloseJoins' BY DEF IInv, Typed, Closing, CloseJoins
<1>6. PermitsHeld'
  <2>1. PICK q \in Places : Goto(c, q) BY DEF Places, Scheduling
  <2> QED BY <2>1, PermitsStep, GiveDeviceMoves
<1> QED BY <1>1, <1>2, <1>3, <1>4, <1>5, <1>6 DEF IInv

\* Giving back the global permit keeps the invariant.
LEMMA GiveOperationKeeps ==
  ASSUME IInv, NEW c \in Calls, GiveOperation(c)
  PROVE  IInv'
<1> USE AdmissionConstants DEF GiveOperation, Goto, Ordinary, caseVars, permitVars, deviceVars, closeVars
<1>1. Typed' BY DEF IInv, Typed, Places, Scheduling
<1>2. KindPlaces' BY DEF IInv, Typed, KindPlaces
<1>3. Latching' BY DEF IInv, Typed, KindPlaces, Latching, LatchedOn, LifecycleAlone, Unlocked
<1>4. LifecycleAlone'
  BY DEF IInv, Typed, KindPlaces, Latching, LatchedOn, CountedOn, LifecycleAlone, Scheduling,
         Unlocked
<1>5. Closing' /\ CloseJoins' BY DEF IInv, Typed, Closing, CloseJoins
<1>6. PermitsHeld'
  <2>1. PICK q \in Places : Goto(c, q) BY DEF Places, Scheduling
  <2> QED BY <2>1, PermitsStep, GiveOperationMoves
<1> QED BY <1>1, <1>2, <1>3, <1>4, <1>5, <1>6 DEF IInv

\* Leaving the count of a device keeps the invariant.
LEMMA UncountKeeps ==
  ASSUME IInv, NEW c \in Calls, Uncount(c)
  PROVE  IInv'
<1> USE AdmissionConstants DEF Uncount, Goto, Ordinary, caseVars, permitVars, deviceVars, closeVars
<1>1. Typed' BY DEF IInv, Typed, Places, Scheduling
<1>2. KindPlaces' BY DEF IInv, Typed, KindPlaces
<1>3. Latching' BY DEF IInv, Typed, KindPlaces, Latching, LatchedOn, LifecycleAlone, Unlocked
<1>4. LifecycleAlone'
  BY DEF IInv, Typed, KindPlaces, Latching, LatchedOn, CountedOn, LifecycleAlone, Scheduling,
         Unlocked
<1>5. Closing' /\ CloseJoins' BY DEF IInv, Typed, Closing, CloseJoins
<1>6. PermitsHeld'
  <2>1. PICK q \in Places : Goto(c, q) BY DEF Places, Scheduling
  <2> QED BY <2>1, PermitsStep, UncountMoves
<1> QED BY <1>1, <1>2, <1>3, <1>4, <1>5, <1>6 DEF IInv

\* Latching a device keeps the invariant.
LEMMA LatchKeeps ==
  ASSUME IInv, NEW c \in Calls, Latch(c)
  PROVE  IInv'
<1> USE AdmissionConstants DEF Latch, Goto, Ordinary, caseVars, permitVars, deviceVars, closeVars
<1>1. Typed' BY DEF IInv, Typed, Places, Scheduling
<1>2. KindPlaces' BY DEF IInv, Typed, KindPlaces
<1>3. Latching' BY DEF IInv, Typed, KindPlaces, Latching, LatchedOn, LifecycleAlone, Unlocked
<1>4. LifecycleAlone'
  BY NobodyCounted DEF IInv, Typed, KindPlaces, Latching, LatchedOn, CountedOn, LifecycleAlone, Scheduling,
         Unlocked
<1>5. Closing' /\ CloseJoins' BY DEF IInv, Typed, Closing, CloseJoins
<1>6. PermitsHeld'
  <2>1. PICK q \in Places : Goto(c, q) BY DEF Places, Scheduling
  <2> QED BY <2>1, PermitsStep, LatchMoves
<1> QED BY <1>1, <1>2, <1>3, <1>4, <1>5, <1>6 DEF IInv

\* The permit of a lifecycle call keeps the invariant.
LEMMA LatchedTakesOperationKeeps ==
  ASSUME IInv, NEW c \in Calls, LatchedTakesOperation(c)
  PROVE  IInv'
<1> USE AdmissionConstants DEF LatchedTakesOperation, Goto, Ordinary, caseVars, permitVars, deviceVars, closeVars
<1>1. Typed' BY DEF IInv, Typed, Places, Scheduling
<1>2. KindPlaces' BY DEF IInv, Typed, KindPlaces
<1>3. Latching' BY DEF IInv, Typed, KindPlaces, Latching, LatchedOn, LifecycleAlone, Unlocked
<1>4. LifecycleAlone'
  BY DEF IInv, Typed, KindPlaces, Latching, LatchedOn, CountedOn, LifecycleAlone, Scheduling,
         Unlocked
<1>5. Closing' /\ CloseJoins' BY DEF IInv, Typed, Closing, CloseJoins
<1>6. PermitsHeld'
  <2>1. PICK q \in Places : Goto(c, q) BY DEF Places, Scheduling
  <2> QED BY <2>1, PermitsStep, LatchedTakesOperationMoves
<1> QED BY <1>1, <1>2, <1>3, <1>4, <1>5, <1>6 DEF IInv

\* The end of a lifecycle call keeps the invariant.
LEMMA LifecycleReturnsKeeps ==
  ASSUME IInv, NEW c \in Calls, LifecycleReturns(c)
  PROVE  IInv'
<1> USE AdmissionConstants DEF LifecycleReturns, Goto, Ordinary, caseVars, permitVars, deviceVars, closeVars
<1>1. Typed' BY DEF IInv, Typed, Places, Scheduling
<1>2. KindPlaces' BY DEF IInv, Typed, KindPlaces
<1>3. Latching' BY DEF IInv, Typed, KindPlaces, Latching, LatchedOn, LifecycleAlone, Unlocked
<1>4. LifecycleAlone'
  BY DEF IInv, Typed, KindPlaces, Latching, LatchedOn, CountedOn, LifecycleAlone, Scheduling,
         Unlocked
<1>5. Closing' /\ CloseJoins' BY DEF IInv, Typed, Closing, CloseJoins
<1>6. PermitsHeld'
  <2>1. PICK q \in Places : Goto(c, q) BY DEF Places, Scheduling
  <2> QED BY <2>1, PermitsStep, LifecycleReturnsMoves
<1> QED BY <1>1, <1>2, <1>3, <1>4, <1>5, <1>6 DEF IInv

\* Unlatching a device keeps the invariant.
LEMMA UnlatchKeeps ==
  ASSUME IInv, NEW c \in Calls, Unlatch(c)
  PROVE  IInv'
<1> USE AdmissionConstants DEF Unlatch, Goto, Ordinary, caseVars, permitVars, deviceVars, closeVars
<1>1. Typed' BY DEF IInv, Typed, Places, Scheduling
<1>2. KindPlaces' BY DEF IInv, Typed, KindPlaces
<1>3. Latching' BY DEF IInv, Typed, KindPlaces, Latching, LatchedOn, LifecycleAlone, Unlocked
<1>4. LifecycleAlone'
  BY DEF IInv, Typed, KindPlaces, Latching, LatchedOn, CountedOn, LifecycleAlone, Scheduling,
         Unlocked
<1>5. Closing' /\ CloseJoins' BY DEF IInv, Typed, Closing, CloseJoins
<1>6. PermitsHeld'
  <2>1. PICK q \in Places : Goto(c, q) BY DEF Places, Scheduling
  <2> QED BY <2>1, PermitsStep, UnlatchMoves
<1> QED BY <1>1, <1>2, <1>3, <1>4, <1>5, <1>6 DEF IInv

\* Taking a decoder permit keeps the invariant.
LEMMA TakeDecoderKeeps ==
  ASSUME IInv, NEW c \in Calls, TakeDecoder(c)
  PROVE  IInv'
<1> USE AdmissionConstants DEF TakeDecoder, Goto, Ordinary, caseVars, permitVars, deviceVars, closeVars
<1>1. Typed' BY DEF IInv, Typed, Places, Scheduling
<1>2. KindPlaces' BY DEF IInv, Typed, KindPlaces
<1>3. Latching' BY DEF IInv, Typed, KindPlaces, Latching, LatchedOn, LifecycleAlone, Unlocked
<1>4. LifecycleAlone'
  BY DEF IInv, Typed, KindPlaces, Latching, LatchedOn, CountedOn, LifecycleAlone, Scheduling,
         Unlocked
<1>5. Closing' /\ CloseJoins' BY DEF IInv, Typed, Closing, CloseJoins
<1>6. PermitsHeld'
  <2>1. PICK q \in Places : Goto(c, q) BY DEF Places, Scheduling
  <2> QED BY <2>1, PermitsStep, TakeDecoderMoves
<1> QED BY <1>1, <1>2, <1>3, <1>4, <1>5, <1>6 DEF IInv

\* The start of a decoder keeps the invariant.
LEMMA BeginDecoderKeeps ==
  ASSUME IInv, NEW c \in Calls, BeginDecoder(c)
  PROVE  IInv'
<1> USE AdmissionConstants DEF BeginDecoder, Goto, Ordinary, caseVars, permitVars, deviceVars, closeVars
<1>1. Typed' BY DEF IInv, Typed, Places, Scheduling
<1>2. KindPlaces' BY DEF IInv, Typed, KindPlaces
<1>3. Latching' BY DEF IInv, Typed, KindPlaces, Latching, LatchedOn, LifecycleAlone, Unlocked
<1>4. LifecycleAlone'
  BY DEF IInv, Typed, KindPlaces, Latching, LatchedOn, CountedOn, LifecycleAlone, Scheduling,
         Unlocked
<1>5. Closing' /\ CloseJoins' BY DEF IInv, Typed, Closing, CloseJoins
<1>6. PermitsHeld'
  <2>1. PICK q \in Places : Goto(c, q) BY DEF Places, Scheduling
  <2> QED BY <2>1, PermitsStep, BeginDecoderMoves
<1> QED BY <1>1, <1>2, <1>3, <1>4, <1>5, <1>6 DEF IInv

\* The end of a decoder keeps the invariant.
LEMMA DecodedKeeps ==
  ASSUME IInv, NEW c \in Calls, Decoded(c)
  PROVE  IInv'
<1> USE AdmissionConstants DEF Decoded, Goto, Ordinary, caseVars, permitVars, deviceVars, closeVars
<1>1. Typed' BY DEF IInv, Typed, Places, Scheduling
<1>2. KindPlaces' BY DEF IInv, Typed, KindPlaces
<1>3. Latching' BY DEF IInv, Typed, KindPlaces, Latching, LatchedOn, LifecycleAlone, Unlocked
<1>4. LifecycleAlone'
  BY DEF IInv, Typed, KindPlaces, Latching, LatchedOn, CountedOn, LifecycleAlone, Scheduling,
         Unlocked
<1>5. Closing' /\ CloseJoins' BY DEF IInv, Typed, Closing, CloseJoins
<1>6. PermitsHeld'
  <2>1. PICK q \in Places : Goto(c, q) BY DEF Places, Scheduling
  <2> QED BY <2>1, PermitsStep, DecodedMoves
<1> QED BY <1>1, <1>2, <1>3, <1>4, <1>5, <1>6 DEF IInv

\* Giving back a decoder permit keeps the invariant.
LEMMA GiveDecoderKeeps ==
  ASSUME IInv, NEW c \in Calls, GiveDecoder(c)
  PROVE  IInv'
<1> USE AdmissionConstants DEF GiveDecoder, Goto, Ordinary, caseVars, permitVars, deviceVars, closeVars
<1>1. Typed' BY DEF IInv, Typed, Places, Scheduling
<1>2. KindPlaces' BY DEF IInv, Typed, KindPlaces
<1>3. Latching' BY DEF IInv, Typed, KindPlaces, Latching, LatchedOn, LifecycleAlone, Unlocked
<1>4. LifecycleAlone'
  BY DEF IInv, Typed, KindPlaces, Latching, LatchedOn, CountedOn, LifecycleAlone, Scheduling,
         Unlocked
<1>5. Closing' /\ CloseJoins' BY DEF IInv, Typed, Closing, CloseJoins
<1>6. PermitsHeld'
  <2>1. PICK q \in Places : Goto(c, q) BY DEF Places, Scheduling
  <2> QED BY <2>1, PermitsStep, GiveDecoderMoves
<1> QED BY <1>1, <1>2, <1>3, <1>4, <1>5, <1>6 DEF IInv

\* Every step of a call keeps the invariant.
LEMMA CallKeeps ==
  ASSUME IInv, NEW c \in Calls, Call(c)
  PROVE  IInv'
<1> USE DEF Call, Goto, Ordinary, caseVars, permitVars, deviceVars, closeVars
<1>1. PICK q \in Places : Goto(c, q) BY DEF Places, Scheduling
<1>2. Typed' BY <1>1 DEF IInv, Typed
<1>3. KindPlaces' BY DEF IInv, Typed, KindPlaces
<1>4. Latching' /\ LifecycleAlone'
  BY DEF IInv, Typed, KindPlaces, Latching, LatchedOn, CountedOn, LifecycleAlone, Scheduling
<1>5. Closing' /\ CloseJoins' BY DEF IInv, Typed, Closing, CloseJoins
<1>6. PermitsMove(c)
  <2> USE WithinLimits DEF Within, IInv, Typed, KindPlaces, Scheduling, B
  <2>1. OperationsMove(c) BY DEF OperationsMove, HoldsOperation
  <2>2. DevicesMove(c) BY DEF DevicesMove, OnItsDevice, CountedThere
  <2>3. CapturesMove(c) BY DEF CapturesMove, HoldsCapture, Capture
  <2>4. DecodersMove(c) BY DEF DecodersMove, HoldsDecoder
  <2> QED BY <2>1, <2>2, <2>3, <2>4 DEF PermitsMove
<1>7. PermitsHeld' BY <1>1, <1>6, PermitsStep
<1> QED BY <1>2, <1>3, <1>4, <1>5, <1>7 DEF IInv

\* So does the start of its recording, which gives back nothing.
LEMMA StartRecordingKeeps ==
  ASSUME IInv, NEW c \in Calls, StartRecording(c)
  PROVE  IInv'
<1> USE DEF StartRecording, Goto, Ordinary, caseVars, permitVars, deviceVars, closeVars
<1>1. PICK q \in Places : Goto(c, q) BY DEF Places, Scheduling
<1>2. Typed' BY <1>1 DEF IInv, Typed
<1>3. KindPlaces' BY DEF IInv, Typed, KindPlaces
<1>4. Latching' /\ LifecycleAlone'
  BY DEF IInv, Typed, KindPlaces, Latching, LatchedOn, CountedOn, LifecycleAlone, Scheduling
<1>5. Closing' /\ CloseJoins' BY DEF IInv, Typed, Closing, CloseJoins
<1>6. PermitsMove(c)
  <2> USE WithinLimits DEF Within, IInv, Typed, KindPlaces, Scheduling, B
  <2>1. OperationsMove(c) BY DEF OperationsMove, HoldsOperation
  <2>2. DevicesMove(c) BY DEF DevicesMove, OnItsDevice, CountedThere
  <2>3. CapturesMove(c) BY DEF CapturesMove, HoldsCapture, Capture
  <2>4. DecodersMove(c) BY DEF DecodersMove, HoldsDecoder
  <2> QED BY <2>1, <2>2, <2>3, <2>4 DEF PermitsMove
<1>7. PermitsHeld' BY <1>1, <1>6, PermitsStep
<1> QED BY <1>2, <1>3, <1>4, <1>5, <1>7 DEF IInv

\* So does the end of its recording.
LEMMA FinishRecordingKeeps ==
  ASSUME IInv, NEW c \in Calls, FinishRecording(c)
  PROVE  IInv'
<1>1. /\ \/ at[c] = "staging" /\ Goto(c, "waiting")
         \/ at[c] = "reporting" /\ Goto(c, "replied")
      /\ UNCHANGED <<caseVars, got, deviceVars, permitVars, decoderWorkers, closeVars>>
  BY DEF FinishRecording
<1>2. PICK q \in Places : Goto(c, q) BY <1>1 DEF Places, Scheduling
<1> USE DEF Goto, Ordinary, caseVars, permitVars, deviceVars, closeVars
<1>3. Typed' BY <1>1, <1>2 DEF IInv, Typed
<1>4. KindPlaces' BY <1>1 DEF IInv, Typed, KindPlaces
<1>5. Latching' /\ LifecycleAlone'
  BY <1>1
  DEF IInv, Typed, KindPlaces, Latching, LatchedOn, CountedOn, LifecycleAlone, Scheduling
<1>6. Closing' /\ CloseJoins' BY <1>1 DEF IInv, Typed, Closing, CloseJoins
<1>7. PermitsMove(c)
  <2> USE <1>1, WithinLimits DEF Within, IInv, Typed, KindPlaces, Scheduling, B
  <2>1. OperationsMove(c) BY DEF OperationsMove, HoldsOperation
  <2>2. DevicesMove(c) BY DEF DevicesMove, OnItsDevice, CountedThere
  <2>3. CapturesMove(c) BY DEF CapturesMove, HoldsCapture, Capture
  <2>4. DecodersMove(c) BY DEF DecodersMove, HoldsDecoder
  <2> QED BY <2>1, <2>2, <2>3, <2>4 DEF PermitsMove
<1>8. PermitsHeld' BY <1>1, <1>2, <1>7, PermitsStep
<1> QED BY <1>3, <1>4, <1>5, <1>6, <1>8 DEF IInv

-----------------------------------------------------------------------------
(* The steps of Close and of run move no call                              *)

\* What only depends on the calls stays when they do.
LEMMA CallsStand ==
  ASSUME IInv, UNCHANGED <<caseVars, at, got, deviceVars, permitVars, decoderWorkers>>
  PROVE  KindPlaces' /\ Latching' /\ PermitsHeld' /\ LifecycleAlone'
<1> USE DEF IInv, caseVars, deviceVars, permitVars, Ordinary, LatchedOn, CountedOn
<1>1. KindPlaces' BY DEF KindPlaces
<1>2. Latching' BY DEF Latching
<1>3. PermitsHeld'
  BY DEF PermitsHeld, HoldsOperation, HoldsDevice, HoldsCapture, HoldsDecoder, Capture
<1>4. LifecycleAlone' BY DEF LifecycleAlone
<1> QED BY <1>1, <1>2, <1>3, <1>4

\* So does every step of Manager.Close.
LEMMA CloserKeeps ==
  ASSUME IInv,
         \/ \E k \in Closers : \/ CloseBegins(k) \/ JoinOwners(k, Expired)
                              \/ JoinDecoders(k, Expired)
         \/ \E d \in Devices : StopOwner(d)
         \/ StartCloser
  PROVE  IInv'
<1>1. ASSUME NEW k \in Closers, CloseBegins(k) PROVE IInv'
  <2>1. KindPlaces' /\ Latching' /\ PermitsHeld' /\ LifecycleAlone'
    BY <1>1, CallsStand DEF CloseBegins
  <2>2. Typed' /\ Closing' /\ CloseJoins'
    BY <1>1 DEF CloseBegins, IInv, Typed, Closing, CloseJoins, caseVars, deviceVars, permitVars
  <2> QED BY <2>1, <2>2 DEF IInv
<1>2. ASSUME NEW d \in Devices, StopOwner(d) PROVE IInv'
  <2>1. KindPlaces' /\ Latching' /\ PermitsHeld' /\ LifecycleAlone'
    BY <1>2, CallsStand DEF StopOwner
  <2>2. Typed' /\ Closing' /\ CloseJoins'
    BY <1>2 DEF StopOwner, IInv, Typed, Closing, CloseJoins, caseVars, deviceVars, permitVars
  <2> QED BY <2>1, <2>2 DEF IInv
<1>3. ASSUME NEW k \in Closers, JoinOwners(k, Expired) PROVE IInv'
  <2>1. KindPlaces' /\ Latching' /\ PermitsHeld' /\ LifecycleAlone'
    BY <1>3, CallsStand DEF JoinOwners
  <2>2. Typed' /\ Closing' /\ CloseJoins'
    BY <1>3 DEF JoinOwners, GivesUp, IInv, Typed, Closing, CloseJoins, caseVars, deviceVars,
                permitVars
  <2> QED BY <2>1, <2>2 DEF IInv
<1>4. ASSUME NEW k \in Closers, JoinDecoders(k, Expired) PROVE IInv'
  <2>1. KindPlaces' /\ Latching' /\ PermitsHeld' /\ LifecycleAlone'
    BY <1>4, CallsStand DEF JoinDecoders
  <2>2. decoderWorkers = 0 => \A c \in Calls : at[c] # "decoding"
    <3>1. Workers \subseteq Calls /\ decoderWorkers = Cardinality(Workers)
      BY DEF IInv, PermitsHeld, Workers
    <3>2. decoderWorkers = 0 => Workers = {}
      BY <3>1, CallsFinite, FS_EmptySet
    <3> QED BY <3>2 DEF Workers
  <2>3. Typed' /\ Closing' /\ CloseJoins'
    BY <1>4, <2>2 DEF JoinDecoders, GivesUp, IInv, Typed, Closing, CloseJoins, caseVars,
                      deviceVars, permitVars
  <2> QED BY <2>1, <2>3 DEF IInv
<1>5. CASE StartCloser
  <2>1. KindPlaces' /\ Latching' /\ PermitsHeld' /\ LifecycleAlone'
    BY <1>5, CallsStand DEF StartCloser
  <2>2. Typed' /\ Closing' /\ CloseJoins'
    BY <1>5, ShutdownConstants DEF StartCloser, IInv, Typed, Closing, CloseJoins, caseVars,
                                   deviceVars, permitVars
  <2> QED BY <2>1, <2>2 DEF IInv
<1> QED BY <1>1, <1>2, <1>3, <1>4, <1>5

\* The invariant looks only at the variables of the admission.
LEMMA Unmoved == IInv /\ UNCHANGED admissionVars => IInv'
<1> SUFFICES ASSUME IInv, UNCHANGED admissionVars PROVE IInv'
  OBVIOUS
<1>1. KindPlaces' /\ Latching' /\ PermitsHeld' /\ LifecycleAlone'
  BY CallsStand DEF admissionVars
<1>2. Typed' /\ Closing' /\ CloseJoins'
  BY DEF admissionVars, closeVars, IInv, Typed, Closing, CloseJoins, caseVars, deviceVars,
         permitVars
<1> QED BY <1>1, <1>2 DEF IInv

-----------------------------------------------------------------------------
(* The theorem                                                             *)

\* The invariant of the admission holds at first.
LEMMA InitHolds == Init => IInv
<1> SUFFICES ASSUME Init PROVE IInv
  OBVIOUS
<1> USE DEF Init, AdmissionInit
<1>1. Typed
  <2>1. PICK case \in Cases : kind = case.kind /\ target = case.target /\ limit = case.limit
    OBVIOUS
  <2>2. \A l \in {"operations", "device", "captures", "decoders"} : case.limit[l] \in Nat \ {0}
    BY AdmissionConstants
  <2>3. /\ limit["operations"] \in Nat /\ limit["device"] \in Nat
        /\ limit["captures"] \in Nat /\ limit["decoders"] \in Nat
    BY <2>1, <2>2
  <2>4. kind \in [Calls -> Kinds] /\ target \in [Calls -> Devices]
    BY <2>1, AdmissionConstants
  <2>5. closer \in [Closers -> {"idle", "called", "stopping", "joining", "closed"}]
    OBVIOUS
  <2>6. at \in [Calls -> Places] /\ got \subseteq Calls
    BY DEF Places
  <2>7. /\ mutex \in [Devices -> Calls \cup {NoCall}] /\ lifecycle \in [Devices -> BOOLEAN]
        /\ ordinary \in [Devices -> Int] /\ deviceOps \in [Devices -> Int]
    OBVIOUS
  <2>8. /\ operations \in Int /\ captures \in Int /\ decoders \in Int
        /\ decoderWorkers \in Int
    OBVIOUS
  <2>9. closed \in BOOLEAN
    OBVIOUS
  <2>10. stopped \subseteq Devices /\ closeErr \subseteq Closers
    OBVIOUS
  <2> HIDE DEF Init, AdmissionInit
  <2> QED BY <2>3, <2>4, <2>5, <2>6, <2>7, <2>8, <2>9, <2>10 DEF Typed
<1>2. KindPlaces /\ Latching /\ LifecycleAlone
  BY DEF KindPlaces, Latching, LifecycleAlone, LatchedOn
<1>3. Closing /\ CloseJoins
  BY DEF Closing, CloseJoins
<1>4. PermitsHeld
  <2>1. /\ {c \in Calls : HoldsOperation(c)} = {} /\ {c \in Calls : HoldsCapture(c)} = {}
        /\ {c \in Calls : HoldsDecoder(c)} = {} /\ {c \in Calls : at[c] = "decoding"} = {}
        /\ \A d \in Devices : /\ {c \in Calls : HoldsDevice(c, d)} = {}
                              /\ {c \in Calls : CountedOn(c, d)} = {}
    BY DEF HoldsOperation, HoldsCapture, HoldsDecoder, HoldsDevice, CountedOn, Scheduling
  <2>2. Cardinality({}) = 0
    BY FS_EmptySet
  <2>3. /\ 0 <= limit.operations /\ 0 <= limit.device
        /\ 0 <= limit.captures /\ 0 <= limit.decoders
    BY <1>1 DEF Typed
  <2>4. operations = 0 /\ captures = 0 /\ decoders = 0 /\ decoderWorkers = 0
    OBVIOUS
  <2>5. \A d \in Devices : deviceOps[d] = 0 /\ ordinary[d] = 0
    OBVIOUS
  <2> HIDE DEF Init, AdmissionInit
  <2> QED BY <2>1, <2>2, <2>3, <2>4, <2>5 DEF PermitsHeld
<1> QED BY <1>1, <1>2, <1>3, <1>4 DEF IInv

\* Every step keeps it.
LEMMA StepHolds == IInv /\ [Next]_vars => IInv'
<1> SUFFICES ASSUME IInv, [Next]_vars PROVE IInv'
  OBVIOUS
<1>1. ASSUME NEW c \in Calls, Call(c) \/ StartRecording(c) \/ FinishRecording(c) \/ Manage(c)
      PROVE  IInv'
  BY <1>1, CallKeeps, StartRecordingKeeps, FinishRecordingKeeps, RefuseKeeps, TakeOperationKeeps,
     TakeDeviceKeeps, TakeCaptureKeeps, OperateKeeps, OwnerReturnsKeeps, GiveDeviceKeeps,
     GiveOperationKeeps, UncountKeeps, LatchKeeps, LatchedTakesOperationKeeps,
     LifecycleReturnsKeeps, UnlatchKeeps, TakeDecoderKeeps, BeginDecoderKeeps, DecodedKeeps,
     GiveDecoderKeeps
  DEF Manage, ManagerStep
<1>2. CASE Signal
  BY <1>2, CloserKeeps DEF Signal
<1>3. CASE ServingEnds \/ ReportError
  BY <1>3, Unmoved DEF ServingEnds, ReportError
<1>4. CASE MainStep
  BY <1>4, Unmoved, CloserKeeps, ShutdownConstants
  DEF MainStep, Drained, BesideJoined, LastClose, ManagerClosed, RecordShutdown, CloseRecorder,
      RequestFlush, FlushEnds
<1>5. CASE CloserStep
  BY <1>5, CloserKeeps, ShutdownConstants DEF CloserStep
<1>6. CASE BudgetEnds \/ Writing \/ UNCHANGED vars
  BY <1>6, Unmoved DEF BudgetEnds, Writing, vars
<1> QED BY <1>1, <1>2, <1>3, <1>4, <1>5, <1>6 DEF Next, Running

\* However calls, captures and lifecycle operations of any number meet a shutdown, the
\* permits stay counted and within their limits, a release or takeover is alone on its
\* device, and a Close that did not give up has joined every operation and decoder.
THEOREM AdmissionIsSafe == Spec => []AdmissionSafe
<1>1. Init => IInv BY InitHolds
<1>2. IInv /\ [Next]_vars => IInv' BY StepHolds
<1>3. IInv => AdmissionSafe BY DEF IInv, AdmissionSafe
<1> QED BY <1>1, <1>2, <1>3, PTL DEF Spec

-----------------------------------------------------------------------------
(* The telemetry: the queues                                               *)

In(q) == {q[i] : i \in 1 .. Len(q)}
Once(q) == \A i, j \in 1 .. Len(q) : q[i] = Flush /\ q[j] = Flush => i = j

\* What is in a queue after an append.
LEMMA InAppend ==
  ASSUME NEW S, NEW q \in Seq(S), NEW e \in S
  PROVE  In(Append(q, e)) = In(q) \cup {e}
  BY DEF In

\* What was in a queue is its head or in its tail.
LEMMA InTail ==
  ASSUME NEW S, NEW q \in Seq(S), q # <<>>
  PROVE  In(q) = In(Tail(q)) \cup {Head(q)} /\ In(q) \subseteq S
<1>1. /\ Len(q) \in Nat \ {0} /\ Len(Tail(q)) = Len(q) - 1 /\ Head(q) = q[1]
      /\ \A i \in 1 .. Len(q) - 1 : Tail(q)[i] = q[i + 1]
  OBVIOUS
<1>2. \A i \in 2 .. Len(q) : i - 1 \in 1 .. Len(q) - 1 /\ q[i] = Tail(q)[i - 1]
  BY <1>1
<1>3. \A i \in 1 .. Len(q) - 1 : i + 1 \in 1 .. Len(q)
  BY <1>1
<1>4. In(q) \subseteq In(Tail(q)) \cup {Head(q)}
  <2> SUFFICES ASSUME NEW i \in 1 .. Len(q) PROVE q[i] \in In(Tail(q)) \cup {Head(q)}
    BY DEF In
  <2>1. CASE i = 1
    BY <1>1, <2>1
  <2>2. CASE i # 1
    <3>1. i \in 2 .. Len(q)
      BY <1>1, <2>2
    <3>2. i - 1 \in 1 .. Len(Tail(q)) /\ q[i] = Tail(q)[i - 1]
      BY <1>1, <1>2, <3>1
    <3> QED BY <3>2 DEF In
  <2> QED BY <2>1, <2>2
<1>5. In(Tail(q)) \cup {Head(q)} \subseteq In(q)
  <2>1. Head(q) \in In(q)
    BY <1>1 DEF In
  <2>2. \A i \in 1 .. Len(Tail(q)) : Tail(q)[i] \in In(q)
    <3> TAKE i \in 1 .. Len(Tail(q))
    <3>1. i \in 1 .. Len(q) - 1
      BY <1>1
    <3>2. Tail(q)[i] = q[i + 1] /\ i + 1 \in 1 .. Len(q)
      BY <1>1, <1>3, <3>1
    <3> QED BY <3>2 DEF In
  <2> QED BY <2>1, <2>2 DEF In
<1>6. In(q) \subseteq S
  BY DEF In
<1> QED BY <1>4, <1>5, <1>6

\* The rest of a queue that holds the flush once holds it at most once.
LEMMA OnceTail ==
  ASSUME NEW S, NEW q \in Seq(S), q # <<>>, Once(q)
  PROVE  Once(Tail(q)) /\ (Head(q) = Flush => Flush \notin In(Tail(q)))
<1>1. /\ Len(q) \in Nat \ {0} /\ Len(Tail(q)) = Len(q) - 1 /\ Head(q) = q[1]
      /\ \A i \in 1 .. Len(q) - 1 : Tail(q)[i] = q[i + 1] /\ i + 1 \in 1 .. Len(q)
  OBVIOUS
<1>2. Once(Tail(q))
  <2>1. SUFFICES ASSUME NEW i \in 1 .. Len(q) - 1, NEW j \in 1 .. Len(q) - 1,
                        Tail(q)[i] = Flush, Tail(q)[j] = Flush
                 PROVE  i = j
    BY <1>1 DEF Once
  <2>2. i + 1 = j + 1
    BY <1>1, <2>1 DEF Once
  <2> QED BY <2>2
<1>3. ASSUME Head(q) = Flush, NEW i \in 1 .. Len(q) - 1, Tail(q)[i] = Flush PROVE FALSE
  <2>1. 1 = i + 1
    BY <1>1, <1>3 DEF Once
  <2> QED BY <2>1
<1> QED BY <1>1, <1>2, <1>3 DEF In

\* An append keeps the flush to one.
LEMMA OnceAppend ==
  ASSUME NEW S, NEW q \in Seq(S), NEW e \in S, Once(q), e # Flush \/ Flush \notin In(q)
  PROVE  Once(Append(q, e))
<1>1. /\ Len(q) \in Nat /\ Len(Append(q, e)) = Len(q) + 1
      /\ Append(q, e)[Len(q) + 1] = e
      /\ \A i \in 1 .. Len(q) : Append(q, e)[i] = q[i]
  OBVIOUS
<1>2. \A i \in 1 .. Len(q) + 1 : i \in 1 .. Len(q) \/ i = Len(q) + 1
  BY <1>1
<1> QED BY <1>1, <1>2 DEF Once, In

\* The events are told apart.
LEMMA EventNames ==
  /\ \A c, o \in Calls : /\ Stage(c) = Stage(o) => c = o
                         /\ Tool(c) = Tool(o) => c = o
                         /\ Stage(c) # Tool(o)
  /\ \A c \in Calls : Stage(c) # ShutdownEvent /\ Tool(c) # ShutdownEvent
<1>1. ASSUME NEW c \in Calls, NEW o \in Calls
      PROVE  /\ Stage(c) = Stage(o) => c = o
             /\ Tool(c) = Tool(o) => c = o
             /\ Stage(c) # Tool(o)
  BY DEF Stage, Tool
<1>2. ASSUME NEW c \in Calls PROVE Stage(c) # ShutdownEvent /\ Tool(c) # ShutdownEvent
  BY AdmissionConstants DEF Stage, Tool, ShutdownEvent
<1> QED BY <1>1, <1>2

\* There are finitely many events.
LEMMA EventsFinite == IsFiniteSet(Events)
<1>1. ASSUME NEW f, NEW T, f \in Surjection(Calls, T) PROVE IsFiniteSet(T)
  BY <1>1, AdmissionConstants, FS_Surjection
<1>2. IsFiniteSet({Stage(c) : c \in Calls})
  <2>1. [c \in Calls |-> Stage(c)] \in Surjection(Calls, {Stage(c) : c \in Calls})
    BY DEF Surjection
  <2> QED BY <1>1, <2>1
<1>3. IsFiniteSet({Tool(c) : c \in Calls})
  <2>1. [c \in Calls |-> Tool(c)] \in Surjection(Calls, {Tool(c) : c \in Calls})
    BY DEF Surjection
  <2> QED BY <1>1, <2>1
<1>4. IsFiniteSet({ShutdownEvent})
  BY FS_Singleton
<1> QED BY <1>2, <1>3, <1>4, FS_Union DEF Events

-----------------------------------------------------------------------------
(* The invariant of the telemetry                                          *)

RecorderTyped ==
  /\ events \in Seq(Events \cup {Flush}) /\ Len(events) <= QueueSize
  /\ terminal \in Seq(Events) /\ Len(terminal) <= QueueSize
  /\ recorderClosed \in BOOLEAN
  /\ dropped \subseteq Events /\ lines \subseteq Events /\ early \subseteq Events
  /\ writer \in {"prefer", "either", "drain", "rest", "summary", "stopped"}
  /\ summary \in Nat

MainTyped ==
  /\ budget \in {"unset", "running", "expired"}
  /\ main \in {"serving", "draining", "waiting", "ended", "closing", "recording", "marking",
               "asking", "flushing", "reporting", "exited"}
  /\ flushExpired \in BOOLEAN

\* Close asks for the flush once, after it closed the recorder, and the writer drains
\* only once it has taken that request.
FlushOnce ==
  /\ recorderClosed <=> main \in {"asking", "flushing", "reporting", "exited"}
  /\ main \notin {"flushing", "reporting", "exited"} =>
       Flush \notin In(events) /\ writer \in {"prefer", "either"}
  /\ writer \notin {"prefer", "either"} => Flush \notin In(events)
  /\ Once(events)

\* Where an event that was recorded before Close can be, as the flush goes on.
Kept ==
  /\ writer \in {"prefer", "either", "drain"} =>
       early \subseteq lines \cup dropped \cup In(events) \cup In(terminal)
  /\ writer = "rest" => early \subseteq lines \cup dropped \cup In(events)
  /\ writer \in {"summary", "stopped"} => early \subseteq lines \cup dropped
  /\ writer = "stopped" => summary >= Cardinality(early \cap dropped)

\* A call is past the place where it records what it recorded, so no event is recorded
\* twice: one of before Close is not dropped again behind the summary.
Entered ==
  {"waiting", "operating", "leaving", "leavingDevice", "uncounting", "unlatching", "framed",
   "beginning", "decoding", "decoded", "returned", "reporting", "replied"}
Recorded ==
  \A c \in Calls : /\ Stage(c) \in early => at[c] \in Entered
                   /\ Tool(c) \in early => at[c] = "replied"

Telemetry == RecorderTyped /\ FlushOnce /\ Kept /\ Recorded

\* The calls only go on.
GoOn ==
  \A c \in Calls : /\ at[c] \in Entered => at'[c] \in Entered
                   /\ at[c] = "replied" => at'[c] = "replied"
MainGoesOn ==
  /\ main' \in {"asking", "flushing", "reporting", "exited"} <=> main \in {"asking", "flushing", "reporting", "exited"}
  /\ main \in {"flushing", "reporting", "exited"} => main' \in {"flushing", "reporting", "exited"}

-----------------------------------------------------------------------------
(* Each step keeps it                                                      *)

\* The invariant of the recorder looks only at its variables, and main only goes on.
LEMMA RecorderStays ==
  ASSUME Telemetry, UNCHANGED recorderVars, GoOn, MainGoesOn
  PROVE  Telemetry'
<1> USE DEF recorderVars
<1>1. RecorderTyped' BY DEF Telemetry, RecorderTyped
<1>2. FlushOnce' BY DEF Telemetry, FlushOnce, MainGoesOn, In, Once
<1>3. Kept' BY DEF Telemetry, Kept, In
<1>4. Recorded' BY DEF Telemetry, Recorded, GoOn
<1> QED BY <1>1, <1>2, <1>3, <1>4 DEF Telemetry

\* An event recorded for the first time, where Close has not begun or has.
LEMMA EnqueueKeeps ==
  ASSUME Telemetry, NEW e \in Events, NEW tool \in BOOLEAN, Enqueue(e, tool), MainGoesOn,
         recorderClosed => e \notin early
  PROVE  RecorderTyped' /\ FlushOnce' /\ Kept'
<1>1. /\ events \in Seq(Events \cup {Flush}) /\ terminal \in Seq(Events) /\ e # Flush
      /\ e \in Events \cup {Flush} /\ QueueSize \in Nat
      /\ Len(events) \in Nat /\ Len(terminal) \in Nat
  BY FlushIsNoEvent, QueueConstant DEF Telemetry, RecorderTyped
<1>2. RecorderTyped'
  <2>1. /\ events' \in Seq(Events \cup {Flush}) /\ Len(events') <= QueueSize
        /\ terminal' \in Seq(Events) /\ Len(terminal') <= QueueSize
    <3>1. CASE events' = Append(events, e) /\ terminal' = terminal /\ Room(events)
      BY <1>1, <3>1 DEF Telemetry, RecorderTyped, Room
    <3>2. CASE terminal' = Append(terminal, e) /\ events' = events /\ Room(terminal)
      BY <1>1, <3>2 DEF Telemetry, RecorderTyped, Room
    <3>3. CASE UNCHANGED <<events, terminal>>
      BY <3>3 DEF Telemetry, RecorderTyped
    <3> QED BY <3>1, <3>2, <3>3 DEF Enqueue
  <2>2. /\ recorderClosed' \in BOOLEAN /\ dropped' \subseteq Events /\ lines' \subseteq Events
        /\ early' \subseteq Events /\ writer' = writer /\ summary' = summary
    BY DEF Telemetry, RecorderTyped, Enqueue
  <2> QED BY <2>1, <2>2 DEF Telemetry, RecorderTyped
<1>3. /\ In(events) \subseteq In(events') /\ In(events') \subseteq In(events) \cup {e}
      /\ In(terminal) \subseteq In(terminal')
      /\ dropped \subseteq dropped' /\ dropped' \subseteq dropped \cup {e}
      /\ e \in dropped' \cup In(events') \cup In(terminal')
  <2>1. CASE events' = Append(events, e) /\ UNCHANGED <<terminal, dropped>>
    <3>1. In(events') = In(events) \cup {e} /\ terminal' = terminal /\ dropped' = dropped
      BY <1>1, <2>1, InAppend
    <3> QED BY <3>1 DEF In
  <2>2. CASE terminal' = Append(terminal, e) /\ UNCHANGED <<events, dropped>>
    <3>1. In(terminal') = In(terminal) \cup {e} /\ events' = events /\ dropped' = dropped
      BY <1>1, <2>2, InAppend
    <3> QED BY <3>1 DEF In
  <2>3. CASE dropped' = dropped \cup {e} /\ UNCHANGED <<events, terminal>>
    BY <2>3 DEF In
  <2> QED BY <2>1, <2>2, <2>3 DEF Enqueue
<1>4. /\ Once(events')
      /\ UNCHANGED <<recorderClosed, lines, writer, summary>>
      /\ early' = IF recorderClosed THEN early ELSE early \cup {e}
  BY <1>1, OnceAppend DEF Enqueue, Once, Telemetry, FlushOnce
<1>5. FlushOnce'
  BY <1>1, <1>3, <1>4 DEF Telemetry, FlushOnce, MainGoesOn
<1>6. writer \notin {"prefer", "either"} => recorderClosed
  BY DEF Telemetry, FlushOnce
<1>7. Kept'
  <2>1. CASE writer \in {"prefer", "either"}
    BY <1>3, <1>4, <2>1 DEF Telemetry, Kept
  <2>2. CASE writer \notin {"prefer", "either"}
    <3>1. early' = early /\ e \notin early
      BY <1>4, <1>6, <2>2
    <3>2. early' \cap dropped' = early \cap dropped
      BY <1>3, <3>1
    <3> QED BY <1>3, <1>4, <2>2, <3>1, <3>2 DEF Telemetry, Kept
  <2> QED BY <2>1, <2>2
<1> QED BY <1>2, <1>5, <1>7

\* The ways of a call.
LEMMA ManageGoesOn ==
  ASSUME IInv, NEW c \in Calls, Call(c) \/ StartRecording(c) \/ FinishRecording(c) \/ Manage(c)
  PROVE  GoOn /\ main' = main
<1>1. main' = main
  BY DEF Call, StartRecording, FinishRecording, Manage, mainVars
<1>2. PICK q : Goto(c, q) /\ (at[c] \in Entered => q \in Entered) /\ (at[c] = "replied" => FALSE)
  <2> USE DEF Entered, IInv, Typed, KindPlaces, Ordinary
  <2>1. CASE Call(c) BY <2>1 DEF Call
  <2>2. CASE StartRecording(c) BY <2>2 DEF StartRecording
  <2>3. CASE FinishRecording(c) BY <2>3 DEF FinishRecording
  <2>4. CASE Manage(c)
    BY <2>4
    DEF Manage, ManagerStep, Refuse, TakeOperation, TakeDevice, TakeCapture, Operate,
        OwnerReturns, GiveDevice, GiveOperation, Uncount, Latch, LatchedTakesOperation,
        LifecycleReturns, Unlatch, TakeDecoder, BeginDecoder, Decoded, GiveDecoder
  <2> QED BY <2>1, <2>2, <2>3, <2>4
<1>3. GoOn
  BY <1>2 DEF GoOn, Goto, IInv, Typed
<1> QED BY <1>1, <1>3

\* An event that is recorded is queued or counted.
LEMMA FinishRecordingTold ==
  ASSUME IInv, Telemetry, NEW c \in Calls, FinishRecording(c)
  PROVE  Telemetry'
<1>1. GoOn /\ MainGoesOn
  BY ManageGoesOn DEF MainGoesOn
<1>2. PICK e \in {Stage(c), Tool(c)}, tool \in BOOLEAN :
        /\ Enqueue(e, tool)
        /\ e = Stage(c) => at[c] = "staging" /\ at'[c] = "waiting"
        /\ e = Tool(c) => at[c] = "reporting" /\ at'[c] = "replied"
  BY DEF FinishRecording, Goto, IInv, Typed, Stage, Tool
<1>3. e \in Events
  BY DEF Events
<1>4. e \notin early
  BY <1>2 DEF Telemetry, Recorded, Entered
<1>5. RecorderTyped' /\ FlushOnce' /\ Kept'
  BY <1>1, <1>2, <1>3, <1>4, EnqueueKeeps
<1>6. Recorded'
  <2>1. early' \subseteq early \cup {e}
    BY <1>2 DEF Enqueue
  <2>2. ASSUME NEW o \in Calls, Stage(o) \in early' PROVE at'[o] \in Entered
    <3>1. CASE Stage(o) \in early
      BY <1>1, <3>1 DEF Telemetry, Recorded, GoOn
    <3>2. CASE Stage(o) = e
      <4>1. e = Stage(c) /\ o = c
        BY <1>2, <3>2, EventNames
      <4> QED BY <1>2, <4>1 DEF Entered
    <3> QED BY <2>1, <2>2, <3>1, <3>2
  <2>3. ASSUME NEW o \in Calls, Tool(o) \in early' PROVE at'[o] = "replied"
    <3>1. CASE Tool(o) \in early
      BY <1>1, <3>1 DEF Telemetry, Recorded, GoOn
    <3>2. CASE Tool(o) = e
      <4>1. e = Tool(c) /\ o = c
        BY <1>2, <3>2, EventNames
      <4> QED BY <1>2, <4>1
    <3> QED BY <2>1, <2>3, <3>1, <3>2
  <2> QED BY <2>2, <2>3 DEF Recorded
<1> QED BY <1>5, <1>6 DEF Telemetry

\* Main that stays where it is goes on.
LEMMA AtStays == UNCHANGED at => GoOn
  BY DEF GoOn

\* Main, Manager.Close and the budget do nothing to the recorder but close it, once.
LEMMA MainTold ==
  ASSUME IInv, Telemetry,
         Signal \/ ServingEnds \/ MainStep \/ ReportError \/ CloserStep \/ BudgetEnds
  PROVE  Telemetry'
<1>1. CASE Signal \/ ServingEnds \/ CloserStep \/ BudgetEnds \/ Drained \/ BesideJoined
           \/ LastClose \/ ManagerClosed \/ FlushEnds \/ ReportError
  <2>1. UNCHANGED <<at, recorderVars>>
    BY <1>1
    DEF Signal, StartCloser, ServingEnds, CloserStep, CloseBegins, JoinOwners, JoinDecoders,
        StopOwner, BudgetEnds, Drained, BesideJoined, LastClose, ManagerClosed, FlushEnds,
        ReportError, admissionVars
  <2>2. MainGoesOn
    BY <1>1
    DEF Signal, ServingEnds, CloserStep, BudgetEnds, Drained, BesideJoined, LastClose,
        ManagerClosed, FlushEnds, ReportError, Main, MainGoesOn, mainVars
  <2> QED BY <2>1, <2>2, AtStays, RecorderStays
<1>2. CASE RecordShutdown
  <2>1. main = "recording" /\ main' = "marking" /\ Enqueue(ShutdownEvent, FALSE)
    BY <1>2, Zenon DEF RecordShutdown, Main
  <2>0. at' = at
    BY <1>2 DEF RecordShutdown, admissionVars
  <2>2. MainGoesOn
    BY <2>1 DEF MainGoesOn
  <2>3. RecorderTyped' /\ FlushOnce' /\ Kept'
    <3>1. ~recorderClosed
      BY <2>1 DEF Telemetry, FlushOnce
    <3> QED BY <2>1, <2>2, <3>1, EnqueueKeeps DEF Events
  <2>4. Recorded'
    <3>1. early' \subseteq early \cup {ShutdownEvent}
      BY <2>1 DEF Enqueue
    <3> QED BY <2>0, <3>1, EventNames DEF Telemetry, Recorded
  <2> QED BY <2>3, <2>4 DEF Telemetry
<1>3. CASE CloseRecorder
  <2> USE <1>3 DEF CloseRecorder, MarkClosed, Main, admissionVars
  <2>1. RecorderTyped' BY DEF Telemetry, RecorderTyped
  <2>2. FlushOnce' BY DEF Telemetry, FlushOnce, In, Once
  <2>3. Kept' /\ Recorded' BY DEF Telemetry, Kept, Recorded, In, Stage, Tool
  <2> QED BY <2>1, <2>2, <2>3 DEF Telemetry
<1>4. CASE RequestFlush
  <2>1. /\ main = "asking" /\ main' = "flushing" /\ Room(events)
        /\ events' = Append(events, Flush)
        /\ UNCHANGED <<terminal, recorderClosed, dropped, lines, writer, summary, early, at>>
    BY <1>4 DEF RequestFlush, AskForFlush, Main, admissionVars
  <2>2. events \in Seq(Events \cup {Flush}) /\ Flush \in Events \cup {Flush}
    BY DEF Telemetry, RecorderTyped
  <2>3. RecorderTyped'
    BY <2>1, <2>2, QueueConstant DEF Telemetry, RecorderTyped, Room
  <2>4. In(events') = In(events) \cup {Flush}
    BY <2>1, <2>2, InAppend
  <2>5. Once(events')
    BY <2>1, <2>2, OnceAppend DEF Telemetry, FlushOnce
  <2>6. FlushOnce'
    BY <2>1, <2>4, <2>5 DEF Telemetry, FlushOnce
  <2>7. Kept'
    BY <2>1, <2>4 DEF Telemetry, Kept, FlushOnce, In
  <2>8. Recorded'
    BY <2>1 DEF Telemetry, Recorded
  <2> QED BY <2>3, <2>6, <2>7, <2>8 DEF Telemetry
<1> QED BY <1>1, <1>2, <1>3, <1>4 DEF MainStep

\* The writer takes what is there, writes it, and after the flush leaves nothing.
LEMMA WritingTold ==
  ASSUME IInv, Telemetry, Writing
  PROVE  Telemetry'
<1>1. UNCHANGED <<at, main, recorderClosed, dropped, early>>
  BY DEF Writing, WriterStep, TakeEvent, FindNone, TakeTerminal, Drain, Summarize, mainVars,
         admissionVars
<1>2. Recorded'
  BY <1>1 DEF Telemetry, Recorded
<1>3. /\ events \in Seq(Events \cup {Flush}) /\ Len(events) <= QueueSize
      /\ terminal \in Seq(Events) /\ Len(terminal) <= QueueSize
      /\ QueueSize \in Nat /\ lines \subseteq Events
  BY QueueConstant DEF Telemetry, RecorderTyped
<1>4. ASSUME events # <<>>
      PROVE  /\ Tail(events) \in Seq(Events \cup {Flush}) /\ Len(Tail(events)) <= QueueSize
             /\ Head(events) \in Events \cup {Flush}
             /\ In(events) = In(Tail(events)) \cup {Head(events)}
             /\ Once(Tail(events))
             /\ Head(events) = Flush => Flush \notin In(Tail(events))
  <2>1. /\ Tail(events) \in Seq(Events \cup {Flush}) /\ Len(Tail(events)) <= QueueSize
        /\ Head(events) \in Events \cup {Flush}
    BY <1>3, <1>4
  <2>2. Once(events)
    BY DEF Telemetry, FlushOnce
  <2> QED BY <1>3, <1>4, <2>1, <2>2, InTail, OnceTail
<1>5. ASSUME terminal # <<>>
      PROVE  /\ Tail(terminal) \in Seq(Events) /\ Len(Tail(terminal)) <= QueueSize
             /\ Head(terminal) \in Events
             /\ In(terminal) = In(Tail(terminal)) \cup {Head(terminal)}
  <2>1. /\ Tail(terminal) \in Seq(Events) /\ Len(Tail(terminal)) <= QueueSize
        /\ Head(terminal) \in Events
    BY <1>3, <1>5
  <2> QED BY <1>3, <1>5, <2>1, InTail
<1>6. (events = <<>> => In(events) = {}) /\ (terminal = <<>> => In(terminal) = {})
  BY DEF In
<1>7. IsFiniteSet(dropped) /\ Cardinality(dropped) \in Nat
      /\ Cardinality(early \cap dropped) <= Cardinality(dropped)
  <2>1. IsFiniteSet(dropped)
    BY EventsFinite, FS_Subset DEF Telemetry, RecorderTyped
  <2> QED BY <2>1, FS_CardinalityType, FS_Subset
<1>8. RecorderTyped'
  <2>1. CASE TakeEvent
    BY <1>4, <1>3, <2>1 DEF TakeEvent, Write, Telemetry, RecorderTyped
  <2>2. CASE FindNone
    BY <2>2 DEF FindNone, Telemetry, RecorderTyped
  <2>3. CASE TakeTerminal
    BY <1>5, <1>3, <2>3 DEF TakeTerminal, Write, Telemetry, RecorderTyped
  <2>4. CASE Drain
    <3>1. CASE writer = "drain"
      BY <1>5, <1>3, <2>4, <3>1 DEF Drain, Write, Telemetry, RecorderTyped
    <3>2. CASE writer = "rest"
      <4>1. events # <<>> => Head(events) \in Events
        BY <1>4, <3>2 DEF Telemetry, FlushOnce
      <4> QED BY <1>4, <1>3, <2>4, <3>2, <4>1 DEF Drain, Write, Telemetry, RecorderTyped
    <3> QED BY <2>4, <3>1, <3>2 DEF Drain
  <2>5. CASE Summarize
    BY <1>7, <2>5 DEF Summarize, Telemetry, RecorderTyped
  <2> QED BY <2>1, <2>2, <2>3, <2>4, <2>5 DEF Writing, WriterStep
<1>9. FlushOnce'
  <2>1. Once(events')
    <3>1. events' = events \/ (events # <<>> /\ events' = Tail(events))
      BY DEF Writing, WriterStep, TakeEvent, FindNone, TakeTerminal, Drain, Summarize
    <3> QED BY <1>4, <3>1 DEF Telemetry, FlushOnce, Once
  <2>2. In(events') \subseteq In(events)
    <3>1. events' = events \/ (events # <<>> /\ events' = Tail(events))
      BY DEF Writing, WriterStep, TakeEvent, FindNone, TakeTerminal, Drain, Summarize
    <3> QED BY <1>4, <3>1 DEF In
  <2>3. \/ writer \in {"prefer", "either"} /\ writer' \in {"prefer", "either"}
        \/ writer \notin {"prefer", "either"}
        \/ events # <<>> /\ Head(events) = Flush /\ Flush \notin In(events')
    BY <1>4 DEF Writing, WriterStep, TakeEvent, FindNone, TakeTerminal, Drain, Summarize
  <2>4. events # <<>> /\ Head(events) = Flush => Flush \in In(events)
    BY <1>4
  <2> QED BY <1>1, <2>1, <2>2, <2>3, <2>4 DEF Telemetry, FlushOnce
<1>10. Kept'
  <2>1. CASE TakeEvent
    <3>1. In(events) \subseteq In(events') \cup (lines' \cup {Flush}) /\ lines \subseteq lines'
          /\ terminal' = terminal
      BY <1>4, <2>1 DEF TakeEvent, Write
    <3>2. Flush \notin early /\ writer \in {"prefer", "either"} /\ writer' \in {"prefer", "drain"}
      BY <2>1, FlushIsNoEvent DEF TakeEvent, Telemetry, RecorderTyped
    <3> QED BY <1>1, <3>1, <3>2 DEF Telemetry, Kept, In
  <2>2. CASE FindNone
    BY <1>1, <2>2 DEF FindNone, Telemetry, Kept, In
  <2>3. CASE TakeTerminal
    <3>1. In(terminal) \subseteq In(terminal') \cup lines' /\ lines \subseteq lines'
          /\ events' = events /\ writer = "either" /\ writer' = "prefer"
      BY <1>5, <2>3 DEF TakeTerminal, Write
    <3> QED BY <1>1, <3>1 DEF Telemetry, Kept, In
  <2>4. CASE Drain
    <3>1. CASE writer = "drain" /\ terminal # <<>>
      <4>1. In(terminal) \subseteq In(terminal') \cup lines' /\ lines \subseteq lines'
            /\ events' = events /\ writer' = "drain"
        BY <1>5, <2>4, <3>1 DEF Drain, Write
      <4> QED BY <1>1, <3>1, <4>1 DEF Telemetry, Kept, In
    <3>2. CASE writer = "drain" /\ terminal = <<>>
      BY <1>1, <1>6, <2>4, <3>2 DEF Drain, Telemetry, Kept, In
    <3>3. CASE writer = "rest" /\ events # <<>>
      <4>1. In(events) \subseteq In(events') \cup lines' /\ lines \subseteq lines'
            /\ writer' = "drain"
        BY <1>4, <2>4, <3>3 DEF Drain, Write
      <4> QED BY <1>1, <3>3, <4>1 DEF Telemetry, Kept
    <3>4. CASE writer = "rest" /\ events = <<>>
      BY <1>1, <1>6, <2>4, <3>4 DEF Drain, Telemetry, Kept
    <3> QED BY <2>4, <3>1, <3>2, <3>3, <3>4 DEF Drain
  <2>5. CASE Summarize
    <3>1. writer = "summary" /\ writer' = "stopped" /\ summary' = Cardinality(dropped)
          /\ lines' = lines
      BY <2>5 DEF Summarize
    <3>2. early' \subseteq lines' \cup dropped'
      BY <1>1, <3>1 DEF Telemetry, Kept
    <3>3. summary' >= Cardinality(early' \cap dropped')
      <4>1. IsFiniteSet(early \cap dropped) /\ Cardinality(early \cap dropped) \in Nat
        BY <1>7, FS_Subset, FS_CardinalityType
      <4> QED BY <1>1, <1>7, <3>1, <4>1
    <3> QED BY <3>1, <3>2, <3>3 DEF Kept
  <2> QED BY <2>1, <2>2, <2>3, <2>4, <2>5 DEF Writing, WriterStep
<1> QED BY <1>2, <1>8, <1>9, <1>10 DEF Telemetry

\* The invariant of the recorder holds at first.
LEMMA InitTold == Init => Telemetry
<1> SUFFICES ASSUME Init PROVE Telemetry
  OBVIOUS
<1> USE DEF Init, RecorderInit
<1>1. RecorderTyped
  <2>1. /\ <<>> \in Seq(Events \cup {Flush}) /\ <<>> \in Seq(Events)
        /\ Len(<<>>) = 0 /\ 0 <= QueueSize
    BY QueueConstant
  <2> QED BY <2>1 DEF RecorderTyped
<1>2. FlushOnce /\ Kept /\ Recorded BY DEF FlushOnce, Once, Kept, Recorded, In
<1> QED BY <1>1, <1>2 DEF Telemetry

\* Every step keeps it.
LEMMA StepTold == IInv /\ Telemetry /\ [Next]_vars => Telemetry'
<1> SUFFICES ASSUME IInv, Telemetry, [Next]_vars PROVE Telemetry'
  OBVIOUS
<1>1. ASSUME NEW c \in Calls, Call(c) \/ StartRecording(c) \/ Manage(c)
      PROVE  Telemetry'
  <2>1. GoOn /\ MainGoesOn
    BY <1>1, ManageGoesOn DEF MainGoesOn
  <2>2. UNCHANGED recorderVars
    BY <1>1 DEF Call, StartRecording, Manage
  <2> QED BY <2>1, <2>2, RecorderStays
<1>2. ASSUME UNCHANGED vars PROVE Telemetry'
  <2>1. GoOn /\ MainGoesOn /\ UNCHANGED recorderVars
    BY <1>2 DEF vars, admissionVars, mainVars, GoOn, MainGoesOn
  <2> QED BY <2>1, RecorderStays
<1> QED BY <1>1, <1>2, FinishRecordingTold, MainTold, WritingTold DEF Next, Running

\* Every step keeps main's own variables in their types.
LEMMA MainStepTyped == MainTyped /\ [Next]_vars => MainTyped'
<1> SUFFICES ASSUME MainTyped, [Next]_vars PROVE MainTyped'
  OBVIOUS
<1>1. ASSUME NEW c \in Calls, Call(c) \/ StartRecording(c) \/ FinishRecording(c) \/ Manage(c)
      PROVE  MainTyped'
  BY <1>1 DEF Call, StartRecording, FinishRecording, Manage, mainVars, MainTyped
<1>2. CASE Signal \/ ServingEnds \/ ReportError \/ BudgetEnds
  BY <1>2 DEF Signal, ServingEnds, ReportError, BudgetEnds, Main, Restart, MainTyped
<1>3. CASE MainStep
  BY <1>3
  DEF MainStep, Drained, BesideJoined, LastClose, ManagerClosed, RecordShutdown, CloseRecorder,
      RequestFlush, FlushEnds, Main, Restart, MainTyped
<1>4. CASE CloserStep \/ Writing \/ UNCHANGED vars
  BY <1>4 DEF CloserStep, Writing, vars, mainVars, MainTyped
<1> QED BY <1>1, <1>2, <1>3, <1>4 DEF Next, Running

\* Whatever calls race with the shutdown, a flushed recorder has written every event of
\* before its Close, or its summary counts it: for every size of the queues.
THEOREM TelemetryLosesNothing == Spec => []NothingLost
<1>1. Init => IInv /\ Telemetry
  BY InitHolds, InitTold
<1>2. IInv /\ Telemetry /\ [Next]_vars => (IInv /\ Telemetry)'
  BY StepHolds, StepTold
<1>3. IInv /\ Telemetry => NothingLost
  BY DEF Telemetry, Kept, NothingLost, Flushed
<1> QED BY <1>1, <1>2, <1>3, PTL DEF Spec

\* Every variable keeps its type, the permits count up from zero, and no queue of the
\* recorder grows beyond its size.
THEOREM ShutdownTypes == Spec => []TypeOK
<1>1. Init => IInv /\ Telemetry /\ MainTyped
  <2>1. Init => MainTyped
    BY DEF Init, MainTyped
  <2> QED BY <2>1, InitHolds, InitTold
<1>2. IInv /\ Telemetry /\ MainTyped /\ [Next]_vars => (IInv /\ Telemetry /\ MainTyped)'
  BY StepHolds, StepTold, MainStepTyped
<1>3. IInv /\ Telemetry /\ MainTyped => TypeOK
  <2> SUFFICES ASSUME IInv, Telemetry, MainTyped PROVE TypeOK
    OBVIOUS
  <2>1. /\ operations \in Nat /\ captures \in Nat /\ decoders \in Nat /\ decoderWorkers \in Nat
        /\ \A d \in Devices : deviceOps[d] \in Nat /\ ordinary[d] \in Nat
    BY CallsFinite DEF IInv, PermitsHeld
  <2>2. ordinary \in [Devices -> Nat] /\ deviceOps \in [Devices -> Nat]
    BY <2>1 DEF IInv, Typed
  <2> QED BY <2>1, <2>2 DEF TypeOK, IInv, Typed, Telemetry, RecorderTyped, MainTyped
<1> QED BY <1>1, <1>2, <1>3, PTL DEF Spec
=============================================================================
