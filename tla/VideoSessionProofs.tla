------------------------- MODULE VideoSessionProofs -------------------------
(***************************************************************************)
(* Proofs about VideoSession, for any stream of frames, any number of      *)
(* captures and whatever the network does to the packets: nobody who waits *)
(* is forgotten or answered twice, a joined session is quiet, the state of *)
(* the receiver stays in its type, a capture is given no picture that was  *)
(* being sent before it asked, as long as the network is late with a       *)
(* packet by fewer than half as many places as the receiver remembers      *)
(* units, and a frame is a whole unit as it was sent, as long as the       *)
(* sequence numbers do not come round.                                     *)
(*                                                                         *)
(* The first two hold whatever the stream makes of the packets.  The other *)
(* three take every operator of H264Stream twice: each one leaves a stream *)
(* (StreamTyped) with at most one open unit, of a timestamp that was sent, *)
(* and each one leaves a stream (Genuine) whose open unit is made of       *)
(* packets that were sent and whose anchor is where a unit ended.          *)
(***************************************************************************)
EXTENDS VideoSession, FiniteSetTheorems, WellFoundedInduction, TLAPS

Places ==
  {"idle", "refused", "asking", "waiting", "leaving", "returned", "canceled"}

CallTyped ==
  /\ slot \in Captures \cup {NoCapture}
  /\ where \in [Captures -> Places]
  /\ answer = [c \in Captures |-> answer[c]]
  /\ {pli, closed, asked, live} \subseteq BOOLEAN
  /\ {signaling, track} \subseteq {"none", "reading", "exited"}
  /\ closing \in {"no", "sealed", "torn", "joined"}

\* Who has not asked has no answer; who waits is in the slot or has one.
Served ==
  /\ \A c \in Captures : where[c] = "idle" => answer[c] = NoAnswer
  /\ WaiterIsServed

\* Close begins when connecting is over, and nothing starts after it.
Sealed ==
  /\ closing # "no" => /\ ~live /\ closed /\ slot = NoCapture
                       /\ connection \in {"connected", "failed"}
  /\ closing = "joined" => signaling # "reading" /\ track # "reading"

\* The empty slot is no capture, and the two answers without a frame differ.
LEMMA NoCaptureIsNone == NoCapture \notin Captures /\ NoAnswer # SessionClosed
<1>1. NoCapture \notin Captures
  BY VideoConstants DEF Captures, NoCapture
<1>2. NoAnswer.ts # SessionClosed.ts
  BY DEF NoAnswer, SessionClosed
<1> QED BY <1>1, <1>2

\* At first no capture waits and nothing is sealed.
LEMMA InitCalls == Init => CallTyped /\ Served /\ Sealed
<1> SUFFICES ASSUME Init PROVE CallTyped /\ Served /\ Sealed
  OBVIOUS
<1>1. CallTyped
  BY DEF Init, CallTyped, Places
<1>2. Served
  BY NoCaptureIsNone DEF Init, Served, WaiterIsServed
<1>3. Sealed
  BY DEF Init, Sealed
<1> QED BY <1>1, <1>2, <1>3

\* Steps that leave the captures, their slot and the receiver alone.
LEMMA OutsideCalls ==
  ASSUME CallTyped, Served, Sealed,
         \/ Authenticate \/ OpenSignaling \/ FinishConnect \/ SignalingAnswer \/ SignalingEnds
         \/ SessionLost \/ RefuseTrack \/ TrackEnds \/ TearDown \/ Join
  PROVE  CallTyped' /\ Served' /\ Sealed'
<1> USE DEF callVars, receiverVars, streamVars
<1>1. UNCHANGED <<where, answer, slot, pli, closed, asked>>
  BY DEF Authenticate, OpenSignaling, FinishConnect, SignalingAnswer, SignalingEnds,
         SessionLost, RefuseTrack, TrackEnds, TearDown, Join
<1>2. CallTyped'
  BY <1>1 DEF CallTyped, Authenticate, OpenSignaling, FinishConnect, SignalingAnswer,
              SignalingEnds, SessionLost, RefuseTrack, TrackEnds, TearDown, Join
<1>3. Served'
  BY <1>1 DEF Served, WaiterIsServed
<1>4. Sealed'
  BY <1>1 DEF Sealed, CallTyped, Authenticate, OpenSignaling, FinishConnect, SignalingAnswer,
              SignalingEnds, SessionLost, RefuseTrack, TrackEnds, TearDown, Join, Pumping
<1> QED BY <1>2, <1>3, <1>4

\* A track that comes late, or twice, disturbs no capture and no seal.
LEMMA HandleTrackCalls ==
  ASSUME CallTyped, Served, Sealed, HandleTrack
  PROVE  CallTyped' /\ Served' /\ Sealed'
<1>1. /\ UNCHANGED <<where, answer, slot, closed, live, closing, signaling, connection>>
      /\ track' = "reading" /\ pli' = TRUE /\ asked' = (asked \/ slot # NoCapture)
      /\ closing = "no"
  BY DEF HandleTrack, callVars
<1>2. CallTyped'
  BY <1>1 DEF CallTyped
<1>3. Served'
  BY <1>1 DEF Served, WaiterIsServed
<1>4. Sealed'
  BY <1>1 DEF Sealed
<1> QED BY <1>2, <1>3, <1>4

\* A capture takes, keeps and gives back the slot as it must.
LEMMA CaptureCalls ==
  ASSUME CallTyped, Served, Sealed, NEW c \in Captures, CaptureStep(c)
  PROVE  CallTyped' /\ Served' /\ Sealed'
<1> USE NoCaptureIsNone DEF SetSlot, FreeSlot, sessionVars
<1>1. UNCHANGED <<connection, live, signaling, track, closing, pli, closed, answer>>
  BY DEF CaptureStep, Capture, RequestPLI, TakeAnswer, GiveUp, RemoveWaiter, receiverVars
<1>2. /\ where[c] \in Places /\ where \in [Captures -> Places] /\ (pli \in BOOLEAN)
      /\ (asked \in BOOLEAN) /\ slot \in Captures \cup {NoCapture}
  BY DEF CallTyped
<1>3. \/ where' = [where EXCEPT ![c] = "refused"] /\ where[c] = "idle" /\ UNCHANGED <<slot, asked>>
      \/ /\ where[c] = "idle" /\ ~closed /\ slot = NoCapture /\ slot' = c /\ asked' = FALSE
         /\ where' = [where EXCEPT ![c] = IF pli THEN "asking" ELSE "waiting"]
      \/ /\ where[c] = "asking" /\ where' = [where EXCEPT ![c] = "waiting"]
         /\ asked' = (asked \/ slot = c) /\ slot' = slot
      \/ /\ where[c] = "waiting" /\ answer[c] # NoAnswer /\ UNCHANGED <<slot, asked>>
         /\ where' = [where EXCEPT ![c] = "returned"]
      \/ /\ where[c] = "waiting" /\ where' = [where EXCEPT ![c] = "leaving"]
         /\ UNCHANGED <<slot, asked>>
      \/ /\ where[c] = "leaving" /\ where' = [where EXCEPT ![c] = "canceled"]
         /\ \/ slot = c /\ slot' = NoCapture /\ asked' = FALSE
            \/ slot # c /\ UNCHANGED <<slot, asked>>
  BY DEF CaptureStep, Capture, RequestPLI, TakeAnswer, GiveUp, RemoveWaiter, receiverVars
<1>4. CallTyped'
  BY <1>1, <1>2, <1>3 DEF CallTyped, Places
<1>5. Served'
  BY <1>1, <1>2, <1>3 DEF Served, WaiterIsServed
<1>6. Sealed'
  BY <1>1, <1>3 DEF Sealed
<1> QED BY <1>4, <1>5, <1>6

\* The slot's holder gets what came, or the slot stays as it is.
Answers(a) ==
  /\ slot # NoCapture /\ a # NoAnswer
  /\ answer' = [answer EXCEPT ![slot] = a] /\ slot' = NoCapture /\ asked' = FALSE

\* A packet answers the capture that waits, or leaves the captures alone.
LEMMA ReceivedCalls ==
  ASSUME Observe
  PROVE  /\ UNCHANGED <<connection, live, signaling, track, closing, where, pli, closed>>
         /\ UNCHANGED <<answer, slot, asked>> \/ \E a : Answers(a)
<1>1. UNCHANGED <<sessionVars, where, pli, closed>>
  BY Zenon DEF Observe
<1>2. PICK p, late : Receive(p, late)
  BY Zenon DEF Observe
<1> DEFINE frame == Push(stream, p, generation + 1, watermark, late).frame
           found == slot # NoCapture /\ frame # NoFrame
<1>3. /\ IF found THEN FreeSlot ELSE UNCHANGED <<slot, watermark, before, asked>>
      /\ answer' = IF found THEN [answer EXCEPT ![slot] = frame] ELSE answer
  BY <1>2, Zenon DEF Receive
<1>4. NoFrame = NoAnswer
  BY DEF NoFrame, NoAnswer
<1>5. CASE found
  <2>1. Answers(frame)
    BY <1>3, <1>4, <1>5 DEF Answers, FreeSlot, SetSlot
  <2> QED BY <1>1, <2>1 DEF sessionVars
<1>6. CASE ~found
  BY <1>1, <1>3, <1>6 DEF sessionVars
<1> QED BY <1>5, <1>6

\* Neither does a packet, or the seal of Close.
LEMMA ObserveCalls ==
  ASSUME CallTyped, Served, Sealed, Observe \/ Seal
  PROVE  CallTyped' /\ Served' /\ Sealed'
<1> USE NoCaptureIsNone
<1>1. /\ UNCHANGED <<connection, signaling, track, where, pli>>
      /\ \/ UNCHANGED <<live, closing, closed>>
         \/ /\ connection \in {"connected", "failed"} /\ closing = "no"
            /\ closing' = "sealed" /\ live' = FALSE /\ closed' = TRUE /\ slot' = NoCapture
      /\ \/ UNCHANGED <<answer, slot, asked>>
         \/ slot = NoCapture /\ slot' = NoCapture /\ asked' = FALSE /\ answer' = answer
         \/ \E a : Answers(a)
  <2>1. CASE Observe
    BY <2>1, ReceivedCalls
  <2>2. CASE Seal
    <3>1. slot # NoCapture => Answers(SessionClosed)
      BY <2>2 DEF Seal, Answers, FreeSlot, SetSlot
    <3> QED BY <2>2, <3>1 DEF Seal, FreeSlot, SetSlot
  <2> QED BY <2>1, <2>2
<1>2. /\ slot \in Captures \cup {NoCapture} /\ answer = [c \in Captures |-> answer[c]]
      /\ where \in [Captures -> Places]
  BY DEF CallTyped
<1>3. ASSUME UNCHANGED <<answer, slot>>, asked' \in BOOLEAN, slot # NoCapture => asked' = asked
      PROVE  CallTyped' /\ Served' /\ Sealed'
  <2>1. {live', closed'} \subseteq BOOLEAN /\ closing' \in {"no", "sealed", "torn", "joined"}
    BY <1>1 DEF CallTyped
  <2>2. CallTyped'
    BY <1>1, <1>3, <2>1 DEF CallTyped
  <2>3. Served'
    BY <1>1, <1>3 DEF Served, WaiterIsServed
  <2>4. Sealed'
    <3>1. CASE UNCHANGED <<live, closing, closed>>
      BY <1>1, <1>3, <3>1 DEF Sealed
    <3>2. CASE ~UNCHANGED <<live, closing, closed>>
      BY <1>1, <3>2 DEF Sealed
    <3> QED BY <3>1, <3>2
  <2> QED BY <2>2, <2>3, <2>4
<1>4. asked \in BOOLEAN
  BY DEF CallTyped
<1>5. ASSUME NEW a, Answers(a) PROVE CallTyped' /\ Served' /\ Sealed'
  <2>1. /\ slot \in Captures /\ slot' = NoCapture /\ asked' = FALSE /\ a # NoAnswer
        /\ answer'[slot] = a /\ \A c \in Captures \ {slot} : answer'[c] = answer[c]
        /\ answer' = [c \in Captures |-> answer'[c]]
    BY <1>2, <1>5 DEF Answers
  <2>2. CallTyped'
    BY <1>1, <2>1 DEF CallTyped
  <2>3. where[slot] \in {"asking", "waiting", "leaving"}
    BY <2>1 DEF Served, WaiterIsServed
  <2>4. Served'
    BY <1>1, <2>1, <2>3 DEF Served, WaiterIsServed
  <2>5. Sealed'
    BY <1>1, <2>1 DEF Sealed
  <2> QED BY <2>2, <2>4, <2>5
<1>6. CASE UNCHANGED <<answer, slot, asked>>
  <2>1. asked' \in BOOLEAN /\ asked' = asked
    BY <1>4, <1>6
  <2> QED BY <1>3, <1>6, <2>1
<1>7. CASE slot = NoCapture /\ slot' = NoCapture /\ asked' = FALSE /\ answer' = answer
  BY <1>3, <1>7
<1> QED BY <1>1, <1>5, <1>6, <1>7

\* No step breaks the three invariants of the calls.
LEMMA StepCalls ==
  ASSUME CallTyped, Served, Sealed, [Next]_vars
  PROVE  CallTyped' /\ Served' /\ Sealed'
<1>1. CASE UNCHANGED vars
  BY <1>1 DEF vars, sessionVars, callVars, receiverVars, CallTyped, Served, WaiterIsServed, Sealed
<1> QED BY <1>1, OutsideCalls, HandleTrackCalls, CaptureCalls, ObserveCalls DEF Next

\* The three invariants of the calls hold always.
LEMMA Calls == Spec => [](CallTyped /\ Served /\ Sealed)
<1>1. CallTyped /\ Served /\ Sealed /\ [Next]_vars => (CallTyped /\ Served /\ Sealed)'
  BY StepCalls
<1> QED BY InitCalls, <1>1, PTL DEF Spec

\* Nobody who waits for a frame is forgotten or answered twice, and the device has
\* been asked for a key frame.
THEOREM WaitersAreServed == Spec => []WaiterIsServed
<1>1. Served => WaiterIsServed
  BY DEF Served
<1> QED BY Calls, <1>1, PTL

\* When Close has returned no pump runs and nobody waits.
THEOREM JoinedIsQuiet == Spec => []JoinedMeansQuiet
<1>1. Sealed => JoinedMeansQuiet
  BY DEF Sealed, JoinedMeansQuiet, Pumping
<1> QED BY Calls, <1>1, PTL

-----------------------------------------------------------------------------
(* What the device sends                                                   *)

\* The order of the naturals as a relation.
Less == {p \in Nat \X Nat : p[1] < p[2]}

\* Induction over the naturals, from the least element outside the set.
LEMMA Induction ==
  ASSUME NEW S, 0 \in S, \A n \in Nat : n \in S => n + 1 \in S
  PROVE  Nat \subseteq S
<1>1. IsWellFoundedOn(Less, Nat)
  <2>1. OpToRel(<, Nat) = Less
    BY DEF OpToRel, Less
  <2> QED BY <2>1, NatLessThanWellFounded
<1> SUFFICES ASSUME Nat \ S # {} PROVE FALSE
  OBVIOUS
<1>2. \E x \in Nat \ S : \A y \in Nat \ S : ~ (<<y, x>> \in Less)
  BY <1>1, WFMin
<1>3. PICK m \in Nat \ S : \A n \in Nat \ S : ~ (<<n, m>> \in Less)
  BY <1>2
<1>4. m # 0 /\ m - 1 \in Nat
  OBVIOUS
<1>5. m - 1 \in S
  <2>1. <<m - 1, m>> \in Less
    BY <1>4 DEF Less
  <2> QED BY <1>3, <1>4, <2>1
<1> QED BY <1>4, <1>5

\* The recursion of FlattenSeq has a solution: it joins one sequence after another.
LEMMA FlattenJoins ==
  ASSUME NEW S, NEW seqs \in Seq(Seq(S)), Len(seqs) # 0
  PROVE  \E joined : /\ FlattenSeq(seqs) = joined[Len(seqs)]
                     /\ \A i \in 1..Len(seqs) :
                          joined[i] = IF i = 1 THEN seqs[i] ELSE joined[i - 1] \o seqs[i]
<1> DEFINE Longer(g, i) == IF i = 1 THEN seqs[i] ELSE g[i - 1] \o seqs[i]
           Extended(g) == [i \in 1..Len(seqs) |-> Longer(g, i)]
           Joined == CHOOSE g : g = Extended(g)
<1>1. FlattenSeq(seqs) = Joined[Len(seqs)]
  BY DEF FlattenSeq
<1>2. \E g : g = Extended(g)
  <2> DEFINE Good == {n \in Nat : \E g : g = [i \in 1..n |-> Longer(g, i)]}
  <2>1. 0 \in Good
    <3>1. <<>> = [i \in 1..0 |-> Longer(<<>>, i)]
      OBVIOUS
    <3> QED BY <3>1
  <2>2. ASSUME NEW n \in Nat, n \in Good PROVE n + 1 \in Good
    <3>1. PICK g : g = [i \in 1..n |-> Longer(g, i)]
      BY <2>2
    <3> DEFINE h == [i \in 1..(n + 1) |-> IF i = n + 1 THEN Longer(g, i) ELSE g[i]]
    <3>2. \A i \in 1..(n + 1) : h[i] = Longer(h, i)
      <4> TAKE i \in 1..(n + 1)
      <4>1. CASE i = 1
        BY <3>1, <4>1
      <4>2. CASE i # 1
        <5>1. i - 1 \in 1..n /\ h[i - 1] = g[i - 1]
          BY <4>2
        <5>2. h[i] = Longer(g, i)
          <6> HIDE DEF Longer
          <6>1. h[i] = IF i = n + 1 THEN Longer(g, i) ELSE g[i]
            OBVIOUS
          <6>2. ASSUME i # n + 1 PROVE g[i] = Longer(g, i)
            <7>1. i \in 1..n
              BY <6>2
            <7> QED BY <3>1, <7>1
          <6> QED BY <6>1, <6>2
        <5> HIDE DEF h
        <5> QED BY <4>2, <5>1, <5>2
      <4> QED BY <4>1, <4>2
    <3>3. h = [i \in 1..(n + 1) |-> h[i]]
      OBVIOUS
    <3> HIDE DEF h, Longer
    <3>4. h = [i \in 1..(n + 1) |-> Longer(h, i)]
      BY <3>2, <3>3
    <3>5. \E k : k = [i \in 1..(n + 1) |-> Longer(k, i)]
      BY <3>4
    <3> QED BY <3>5
  <2> HIDE DEF Good
  <2>3. Len(seqs) \in Good
    BY <2>1, <2>2, Induction
  <2> QED BY <2>3 DEF Good
<1> HIDE DEF Joined
<1>3. Joined = Extended(Joined)
  BY <1>2 DEF Joined
<1>4. \A i \in 1..Len(seqs) : Joined[i] = Longer(Joined, i)
  <2> HIDE DEF Longer
  <2> QED BY <1>3
<1> QED BY <1>1, <1>4

\* So it is a sequence.
LEMMA FlattenIsASequence ==
  ASSUME NEW S, NEW seqs \in Seq(Seq(S))
  PROVE  FlattenSeq(seqs) \in Seq(S)
<1>1. CASE Len(seqs) = 0
  <2>1. FlattenSeq(seqs) = seqs /\ seqs = <<>>
    BY <1>1 DEF FlattenSeq
  <2> QED BY <2>1
<1>2. CASE Len(seqs) # 0
  <2>1. PICK joined : /\ FlattenSeq(seqs) = joined[Len(seqs)]
                      /\ \A i \in 1..Len(seqs) :
                           joined[i] = IF i = 1 THEN seqs[i] ELSE joined[i - 1] \o seqs[i]
    BY <1>2, FlattenJoins
  <2> DEFINE Good == {n \in Nat : n + 1 <= Len(seqs) => joined[n + 1] \in Seq(S)}
  <2>2. 0 \in Good
    BY <2>1, <1>2
  <2>3. ASSUME NEW n \in Nat, n \in Good PROVE n + 1 \in Good
    <3> SUFFICES ASSUME n + 2 <= Len(seqs) PROVE joined[n + 2] \in Seq(S)
      OBVIOUS
    <3>1. joined[n + 1] \in Seq(S) /\ seqs[n + 2] \in Seq(S)
      BY <2>3
    <3>2. joined[n + 2] = joined[n + 1] \o seqs[n + 2]
      <4>1. n + 2 \in 1..Len(seqs) /\ n + 2 # 1 /\ (n + 2) - 1 = n + 1
        OBVIOUS
      <4> QED BY <2>1, <4>1
    <3> QED BY <3>1, <3>2
  <2> HIDE DEF Good
  <2>4. Nat \subseteq Good
    BY <2>2, <2>3, Induction
  <2>5. Len(seqs) - 1 \in Good /\ (Len(seqs) - 1) + 1 = Len(seqs)
    BY <1>2, <2>4
  <2> QED BY <2>1, <2>5 DEF Good
<1> QED BY <1>1, <1>2

Stamps == 1..Len(Frames)
Pieces == [nal : STRING, part : {"single", "start", "middle", "end"}]
SeqNos == 0..(SeqSpace - 1)
Packets ==
  [ts : Stamps, seq : SeqNos, nal : STRING, part : {"single", "start", "middle", "end"},
   marker : BOOLEAN, form : {"ok", "empty", "version"}]

\* Sequence numbers stay below SeqSpace.
LEMMA ModRange ==
  ASSUME NEW x \in Int
  PROVE  x % SeqSpace \in SeqNos
  BY StreamConstants DEF SeqNos

\* The packets of a unit carry its timestamp.
LEMMA UnitIsTyped ==
  ASSUME NEW t \in Stamps
  PROVE  UnitPackets(t) \in Seq(Packets) /\ Len(Frames[t]) \in Nat \ {0}
<1>1. Frames[t] \in Seq(Pieces) /\ Frames[t] # <<>>
  BY FramesConstant DEF Stamps, Pieces
<1>2. Len(Frames[t]) \in Nat \ {0}
  BY <1>1
<1>3. 0 \in SeqNos
  BY StreamConstants DEF SeqNos
<1>4. ASSUME NEW i \in 1..Len(Frames[t])
      PROVE  [ts |-> t, seq |-> 0, nal |-> Frames[t][i].nal, part |-> Frames[t][i].part,
              marker |-> i = Len(Frames[t]), form |-> "ok"] \in Packets
  <2>1. Frames[t][i] \in Pieces
    BY <1>1
  <2> QED BY <1>3, <2>1 DEF Packets, Pieces
<1>5. UnitPackets(t) \in [1..Len(Frames[t]) -> Packets]
  BY <1>4 DEF UnitPackets
<1> QED BY <1>2, <1>5

\* Everything sent is a packet of a frame.
LEMMA SentIsTyped == Sent \in Seq(Packets)
<1> DEFINE units == [t \in 1..Len(Frames) |-> UnitPackets(t)]
           packets == FlattenSeq(units)
           numbered(i) == [packets[i] EXCEPT !.seq = (FirstSeq + i) % SeqSpace]
<1>1. Len(Frames) \in Nat
  BY FramesConstant
<1>2. units \in Seq(Seq(Packets))
  BY <1>1, UnitIsTyped DEF Stamps
<1> HIDE DEF units
<1>3. packets \in Seq(Packets)
  BY <1>2, FlattenIsASequence
<1> HIDE DEF packets
<1>4. ASSUME NEW i \in 1..Len(packets) PROVE numbered(i) \in Packets
  <2>1. packets[i] \in Packets
    BY <1>3
  <2>2. (FirstSeq + i) % SeqSpace \in SeqNos
    BY VideoConstants, ModRange
  <2> QED BY <2>1, <2>2 DEF Packets
<1>5. Sent = [i \in 1..Len(packets) |-> numbered(i)]
  BY DEF Sent, packets, units
<1>6. Len(packets) \in Nat
  BY <1>3
<1> HIDE DEF numbered
<1> QED BY <1>4, <1>5, <1>6

-----------------------------------------------------------------------------
(* The order of what is sent                                               *)

\* The packets of the first n units: in the order of their units, undamaged, and
\* marked only where a unit ends.
Ordered(q, n) ==
  /\ \A i \in 1..Len(q) : q[i].form = "ok" /\ q[i].ts <= n
  /\ \A i, j \in 1..Len(q) : i < j => /\ q[i].ts <= q[j].ts
                                      /\ q[i].marker => q[i].ts < q[j].ts

\* The packets of the first n units: no unit is left out.
Dense(q, n) ==
  /\ Len(q) >= 1 /\ q[Len(q)].ts = n
  /\ \A i \in 1..Len(q) : i + 1 <= Len(q) => q[i + 1].ts <= q[i].ts + 1

\* One unit is in order.
LEMMA UnitIsOrdered ==
  ASSUME NEW t \in Stamps
  PROVE  /\ Ordered(UnitPackets(t), t) /\ \A i \in 1..Len(UnitPackets(t)) : UnitPackets(t)[i].ts = t
         /\ Dense(UnitPackets(t), t)
<1> DEFINE n == Len(Frames[t])
<1>1. n \in Nat /\ n >= 1
  BY UnitIsTyped
<1>2. Len(UnitPackets(t)) = n
  BY <1>1 DEF UnitPackets
<1>3. ASSUME NEW i \in 1..n
      PROVE  /\ UnitPackets(t)[i].ts = t /\ UnitPackets(t)[i].form = "ok"
             /\ UnitPackets(t)[i].marker <=> i = n
  BY DEF UnitPackets
<1>4. t \in Int
  BY DEF Stamps
<1> HIDE DEF n
<1> QED BY <1>1, <1>2, <1>3, <1>4 DEF Ordered, Dense

\* The next unit comes behind.
LEMMA OrderedJoin ==
  ASSUME NEW n \in Nat, NEW q \in Seq(Packets), Ordered(q, n),
         NEW r \in Seq(Packets), Ordered(r, n + 1), \A i \in 1..Len(r) : r[i].ts = n + 1
  PROVE  Ordered(q \o r, n + 1) /\ (Dense(q, n) /\ Dense(r, n + 1) => Dense(q \o r, n + 1))
<1> DEFINE s == q \o r
<1>1. /\ Len(s) = Len(q) + Len(r) /\ Len(q) \in Nat /\ Len(r) \in Nat
      /\ \A i \in 1..Len(q) : s[i] = q[i]
      /\ \A i \in Len(q) + 1..Len(s) : s[i] = r[i - Len(q)] /\ i - Len(q) \in 1..Len(r)
  OBVIOUS
<1>2. \A i \in 1..Len(q) : q[i].ts \in Int
  <2> TAKE i \in 1..Len(q)
  <2>1. q[i] \in Packets
    OBVIOUS
  <2> QED BY <2>1, FramesConstant DEF Packets, Stamps
<1> HIDE DEF s
<1>3. ASSUME NEW i \in 1..Len(s) PROVE s[i].form = "ok" /\ s[i].ts <= n + 1
  <2>1. CASE i \in 1..Len(q)
    BY <1>1, <1>2, <2>1 DEF Ordered
  <2>2. CASE i \in Len(q) + 1..Len(s)
    BY <1>1, <2>2 DEF Ordered
  <2> QED BY <1>1, <2>1, <2>2
<1>4. ASSUME NEW i \in 1..Len(s), NEW j \in 1..Len(s), i < j
      PROVE  s[i].ts <= s[j].ts /\ (s[i].marker => s[i].ts < s[j].ts)
  <2>1. CASE j \in 1..Len(q)
    <3>1. i \in 1..Len(q)
      BY <1>1, <1>4, <2>1
    <3> QED BY <1>1, <1>4, <2>1, <3>1 DEF Ordered
  <2>2. CASE i \in 1..Len(q) /\ j \in Len(q) + 1..Len(s)
    <3>1. s[j].ts = n + 1 /\ s[i].ts <= n /\ s[i].ts \in Int
      BY <1>1, <1>2, <2>2 DEF Ordered
    <3> QED BY <3>1
  <2>3. CASE i \in Len(q) + 1..Len(s) /\ j \in Len(q) + 1..Len(s)
    <3> DEFINE a == i - Len(q)
               b == j - Len(q)
    <3>1. a \in 1..Len(r) /\ b \in 1..Len(r) /\ a < b /\ s[i] = r[a] /\ s[j] = r[b]
      BY <1>1, <1>4, <2>3
    <3> HIDE DEF a, b
    <3> QED BY <3>1 DEF Ordered
  <2> QED BY <1>1, <1>4, <2>1, <2>2, <2>3
<1>5. ASSUME Dense(q, n), Dense(r, n + 1) PROVE Dense(s, n + 1)
  <2>1. Len(s) >= 1 /\ s[Len(s)].ts = n + 1
    BY <1>1, <1>5 DEF Dense
  <2>2. ASSUME NEW i \in 1..Len(s), i + 1 <= Len(s) PROVE s[i + 1].ts <= s[i].ts + 1
    <3>1. CASE i + 1 \in 1..Len(q)
      BY <1>1, <1>5, <3>1 DEF Dense
    <3>2. CASE i = Len(q)
      <4>1. s[i].ts = n /\ s[i + 1].ts = n + 1
        BY <1>1, <1>5, <2>2, <3>2 DEF Dense
      <4> QED BY <4>1
    <3>3. CASE i \in Len(q) + 1..Len(s)
      <4>0. i + 1 \in Len(q) + 1..Len(s)
        BY <1>1, <2>2, <3>3
      <4>1. s[i].ts = n + 1 /\ s[i + 1].ts = n + 1
        BY <1>1, <3>3, <4>0
      <4> QED BY <4>1
    <3> QED BY <1>1, <2>2, <3>1, <3>2, <3>3
  <2> QED BY <2>1, <2>2 DEF Dense
<1> QED BY <1>3, <1>4, <1>5 DEF Ordered, s

\* Everything sent is in order, numbered from FirstSeq on.
LEMMA SentIsOrdered ==
  /\ Sent \in Seq(Packets) /\ Len(Sent) \in Nat /\ DOMAIN Sent = 1..Len(Sent)
  /\ \A i \in DOMAIN Sent : Sent[i].form = "ok" /\ Sent[i].seq = (FirstSeq + i) % SeqSpace
  /\ \A i, j \in DOMAIN Sent : i < j => /\ Sent[i].ts <= Sent[j].ts
                                        /\ Sent[i].marker => Sent[i].ts < Sent[j].ts
  /\ \A i \in DOMAIN Sent : i + 1 \in DOMAIN Sent => Sent[i + 1].ts <= Sent[i].ts + 1
<1> DEFINE units == [t \in 1..Len(Frames) |-> UnitPackets(t)]
           packets == FlattenSeq(units)
<1>1. Len(Frames) \in Nat /\ Len(units) = Len(Frames)
  BY FramesConstant
<1>2. units \in Seq(Seq(Packets))
  BY <1>1, UnitIsTyped DEF Stamps
<1>3. \A t \in 1..Len(Frames) : units[t] = UnitPackets(t)
  OBVIOUS
<1> HIDE DEF units
<1>4. packets \in Seq(Packets)
  BY <1>2, FlattenIsASequence
<1>5. /\ Ordered(packets, Len(Frames))
      /\ \A i \in 1..Len(packets) : i + 1 <= Len(packets) => packets[i + 1].ts <= packets[i].ts + 1
  <2>1. CASE Len(Frames) = 0
    <3>1. packets = <<>>
      BY <1>1, <1>2, <2>1 DEF FlattenSeq
    <3> QED BY <3>1 DEF Ordered
  <2>2. CASE Len(Frames) # 0
    <3>1. PICK joined : /\ packets = joined[Len(units)]
                        /\ \A i \in 1..Len(units) :
                             joined[i] = IF i = 1 THEN units[i] ELSE joined[i - 1] \o units[i]
      BY <1>1, <1>2, <2>2, FlattenJoins
    <3> DEFINE Good == {n \in Nat : n + 1 <= Len(Frames) =>
                          /\ joined[n + 1] \in Seq(Packets) /\ Ordered(joined[n + 1], n + 1)
                          /\ Dense(joined[n + 1], n + 1)}
    <3>2. 0 \in Good
      <4>1. joined[1] = UnitPackets(1) /\ 1 \in Stamps
        BY <1>1, <1>3, <2>2, <3>1 DEF Stamps
      <4> QED BY <4>1, UnitIsOrdered, UnitIsTyped
    <3>3. ASSUME NEW n \in Nat, n \in Good PROVE n + 1 \in Good
      <4> SUFFICES ASSUME n + 2 <= Len(Frames)
                   PROVE  /\ joined[n + 2] \in Seq(Packets) /\ Ordered(joined[n + 2], n + 2)
                          /\ Dense(joined[n + 2], n + 2)
        OBVIOUS
      <4>1. /\ joined[n + 1] \in Seq(Packets) /\ Ordered(joined[n + 1], n + 1)
            /\ Dense(joined[n + 1], n + 1)
        BY <3>3
      <4>2. /\ n + 2 \in 1..Len(units) /\ n + 2 # 1 /\ (n + 2) - 1 = n + 1 /\ n + 2 \in Stamps
            /\ n + 1 \in Nat /\ (n + 1) + 1 = n + 2
        BY <1>1 DEF Stamps
      <4>3. joined[n + 2] = joined[n + 1] \o UnitPackets(n + 2)
        BY <1>1, <1>3, <3>1, <4>2
      <4>4. /\ UnitPackets(n + 2) \in Seq(Packets) /\ Ordered(UnitPackets(n + 2), n + 2)
            /\ \A i \in 1..Len(UnitPackets(n + 2)) : UnitPackets(n + 2)[i].ts = n + 2
            /\ Dense(UnitPackets(n + 2), n + 2)
        BY <4>2, UnitIsOrdered, UnitIsTyped
      <4>5. /\ Ordered(joined[n + 1] \o UnitPackets(n + 2), n + 2)
            /\ Dense(joined[n + 1] \o UnitPackets(n + 2), n + 2)
        BY <4>1, <4>2, <4>4, OrderedJoin
      <4> QED BY <4>1, <4>3, <4>4, <4>5
    <3> HIDE DEF Good
    <3>4. Nat \subseteq Good
      BY <3>2, <3>3, Induction
    <3>5. Len(Frames) - 1 \in Good /\ (Len(Frames) - 1) + 1 = Len(Frames)
      BY <1>1, <2>2, <3>4
    <3> QED BY <1>1, <3>1, <3>5 DEF Good, Dense
  <2> QED BY <2>1, <2>2
<1>6. Sent = [i \in 1..Len(packets) |-> [packets[i] EXCEPT !.seq = (FirstSeq + i) % SeqSpace]]
  BY DEF Sent, packets, units
<1> HIDE DEF packets
<1>7. /\ Len(packets) \in Nat /\ Len(Sent) = Len(packets) /\ DOMAIN Sent = 1..Len(packets)
      /\ \A i \in 1..Len(packets) : packets[i] \in Packets
  BY <1>4, <1>6
<1>8. ASSUME NEW i \in 1..Len(packets)
      PROVE  /\ Sent[i].form = packets[i].form /\ Sent[i].ts = packets[i].ts
             /\ Sent[i].marker = packets[i].marker /\ Sent[i].seq = (FirstSeq + i) % SeqSpace
  BY <1>6, <1>7 DEF Packets
<1>9. ASSUME NEW i \in DOMAIN Sent, i + 1 \in DOMAIN Sent
      PROVE  Sent[i + 1].ts <= Sent[i].ts + 1
  <2>1. i \in 1..Len(packets) /\ i + 1 \in 1..Len(packets) /\ i + 1 <= Len(packets)
    BY <1>7, <1>9
  <2> QED BY <1>5, <1>8, <2>1
<1> QED BY <1>5, <1>7, <1>8, <1>9, SentIsTyped DEF Ordered

\* Timestamps are positive numbers.
LEMMA StampsOfSent ==
  ASSUME NEW j \in DOMAIN Sent
  PROVE  Sent[j].ts \in Int /\ Sent[j].ts >= 1
<1>1. Sent[j] \in Packets
  BY SentIsOrdered
<1>2. \A t \in Stamps : t \in Int /\ t >= 1
  BY FramesConstant DEF Stamps
<1> QED BY <1>1, <1>2 DEF Packets

\* So k packets on, at most k units have gone by.
LEMMA SentIsDense ==
  ASSUME NEW i \in DOMAIN Sent, NEW k \in Nat, i + k \in DOMAIN Sent
  PROVE  Sent[i].ts <= Sent[i + k].ts /\ Sent[i + k].ts <= Sent[i].ts + k
<1> DEFINE Good == {n \in Nat : i + n \in DOMAIN Sent =>
                      /\ Sent[i + n].ts \in Int /\ Sent[i].ts \in Int
                      /\ Sent[i].ts <= Sent[i + n].ts /\ Sent[i + n].ts <= Sent[i].ts + n}
<1>1. \A j \in DOMAIN Sent : j \in 1..Len(Sent) /\ Sent[j].ts \in Int
  BY SentIsOrdered, StampsOfSent
<1>2. DOMAIN Sent = 1..Len(Sent) /\ Len(Sent) \in Nat
  BY SentIsOrdered
<1>3. 0 \in Good
  BY <1>1
<1>4. ASSUME NEW n \in Nat, n \in Good PROVE n + 1 \in Good
  <2> SUFFICES ASSUME i + (n + 1) \in DOMAIN Sent
               PROVE  /\ Sent[i + (n + 1)].ts \in Int /\ Sent[i].ts \in Int
                      /\ Sent[i].ts <= Sent[i + (n + 1)].ts
                      /\ Sent[i + (n + 1)].ts <= Sent[i].ts + (n + 1)
    OBVIOUS
  <2>1. /\ i + n \in DOMAIN Sent /\ (i + n) + 1 = i + (n + 1) /\ i + n < i + (n + 1)
        /\ Sent[i + n].ts \in Int /\ Sent[i].ts \in Int /\ Sent[i + (n + 1)].ts \in Int
    BY <1>1, <1>2
  <2>2. Sent[i].ts <= Sent[i + n].ts /\ Sent[i + n].ts <= Sent[i].ts + n
    BY <1>4, <2>1
  <2>3. /\ Sent[i + n].ts <= Sent[i + (n + 1)].ts
        /\ Sent[(i + n) + 1].ts <= Sent[i + n].ts + 1
    BY <2>1, SentIsOrdered
  <2> QED BY <2>1, <2>2, <2>3
<1> HIDE DEF Good
<1>5. Nat \subseteq Good
  BY <1>3, <1>4, Induction
<1> QED BY <1>5 DEF Good


-----------------------------------------------------------------------------
(* The state of the stream                                                 *)

MaybeSeq == SeqNos \cup {NoSeq}

\* The packets kept of the open unit, by their sequence numbers.
PacketsOf(packets, ts) ==
  /\ packets = [q \in DOMAIN packets |-> packets[q]]
  /\ DOMAIN packets \subseteq SeqNos
  /\ \A q \in DOMAIN packets : packets[q] \in Packets /\ packets[q].ts = ts

PendingUnit(u) ==
  /\ u = [ts |-> u.ts, packets |-> u.packets, expected |-> u.expected,
          reorderNext |-> u.reorderNext, reorderBase |-> u.reorderBase,
          frontier |-> u.frontier, marker |-> u.marker, explicit |-> u.explicit,
          generation |-> u.generation]
  /\ u.ts \in Stamps /\ {u.expected, u.frontier, u.marker} \subseteq MaybeSeq
  /\ PacketsOf(u.packets, u.ts)

DrainingUnit(u) ==
  /\ u = [ts |-> u.ts, anchored |-> u.anchored, last |-> u.last, invalid |-> u.invalid,
          sequenceGap |-> u.sequenceGap, count |-> u.count, open |-> u.open,
          sps |-> u.sps, pps |-> u.pps]
  /\ u.ts \in Stamps /\ u.last \in SeqNos

Anchor(a) == a = [ts |-> a.ts, next |-> a.next] /\ a.next \in MaybeSeq

\* The units that are over: each is remembered once.
Memory(c) ==
  /\ c \in Seq([ts : Stamps, frontier : MaybeSeq])
  /\ Len(c) <= MaxCompleted
  /\ \A i, j \in DOMAIN c : c[i].ts = c[j].ts => i = j

Shaped(s) ==
  s = [pending |-> s.pending, draining |-> s.draining, sps |-> s.sps, pps |-> s.pps,
       anchor |-> s.anchor, completed |-> s.completed]

StreamTyped(s) ==
  /\ Shaped(s)
  /\ s.pending = NoUnit \/ PendingUnit(s.pending)
  /\ s.draining = NoUnit \/ DrainingUnit(s.draining)
  /\ s.pending = NoUnit \/ s.draining = NoUnit
  /\ Anchor(s.anchor) /\ Memory(s.completed)

\* The units that are over and those that are open.
Over(s) == {s.completed[i].ts : i \in DOMAIN s.completed}
Drained(s) == IF s.draining = NoUnit THEN {} ELSE {s.draining.ts}
Filed(s) == IF s.pending = NoUnit THEN {} ELSE {s.pending.ts}
Open(s) == Drained(s) \cup Filed(s)

\* Units that give no frame any more: remembered ones, forgotten ones that no
\* packet can belong to because newer units are over, and the one being drained.
Past(s) == Over(s) \cup {t \in Stamps : \E x \in Over(s) : x > t + MaxDelay}
Settled(s) == Past(s) \cup Drained(s)
Known(s) == Settled(s) \cup Filed(s)

\* A packet is overtaken by less than half as many as the memory holds units.
Prompt == 2 * MaxDelay < MaxCompleted

\* A unit is over no earlier than MaxDelay units before the newest packet, top,
\* so the memory is nearly in the order of the stream.
Ranked(c) == \A i, j \in DOMAIN c : i < j => c[i].ts <= c[j].ts + MaxDelay
Due(s, t, top) == t <= top /\ \A x \in Over(s) : x <= t + MaxDelay
Timely(s, top) ==
  /\ Prompt /\ top \in Int
  /\ Ranked(s.completed) /\ \A x \in Over(s) : x <= top
  /\ \A u \in Open(s) : Due(s, u, top)

\* The unit may become one that is over.
Ready(s, t, top) ==
  Timely(s, top) /\ Due(s, t, top) /\ \A u \in Open(s) : t <= u + MaxDelay

\* A packet that is among the newest.
InTime(p, top) == p.ts <= top /\ top <= p.ts + MaxDelay

\* None of the markers for nothing is taken for a unit or a number.
LEMMA UnitsAreUnits ==
  /\ \A u : PendingUnit(u) \/ DrainingUnit(u) => u # NoUnit
  /\ DrainingUnit(NoUnit) = FALSE
  /\ NoSeq \notin SeqNos /\ -1 \notin Stamps /\ Len(Frames) \in Nat
<1>1. NoUnit.ts = -1 /\ NoUnit.ts \notin Stamps
  BY DEF NoUnit, Stamps
<1>2. \A u : PendingUnit(u) \/ DrainingUnit(u) => u.ts \in Stamps
  BY DEF PendingUnit, DrainingUnit
<1>3. NoSeq \notin SeqNos
  BY DEF NoSeq, SeqNos
<1>4. Len(Frames) \in Nat
  BY FramesConstant
<1> QED BY <1>1, <1>2, <1>3, <1>4

\* Replacing one part of a stream leaves the others.
LEMMA Parts ==
  ASSUME NEW s, Shaped(s), NEW v
  PROVE  /\ [s EXCEPT !.pending = v] =
              [pending |-> v, draining |-> s.draining, sps |-> s.sps, pps |-> s.pps,
               anchor |-> s.anchor, completed |-> s.completed]
         /\ [s EXCEPT !.draining = v] =
              [pending |-> s.pending, draining |-> v, sps |-> s.sps, pps |-> s.pps,
               anchor |-> s.anchor, completed |-> s.completed]
         /\ [s EXCEPT !.anchor = v] =
              [pending |-> s.pending, draining |-> s.draining, sps |-> s.sps, pps |-> s.pps,
               anchor |-> v, completed |-> s.completed]
         /\ [s EXCEPT !.completed = v] =
              [pending |-> s.pending, draining |-> s.draining, sps |-> s.sps, pps |-> s.pps,
               anchor |-> s.anchor, completed |-> v]
  BY DEF Shaped

\* A unit may be opened when no other is, and any may be closed.
LEMMA SetPending ==
  ASSUME NEW s, StreamTyped(s), NEW v, v = NoUnit \/ (PendingUnit(v) /\ s.draining = NoUnit)
  PROVE  LET r == [s EXCEPT !.pending = v]
         IN  /\ StreamTyped(r) /\ r.pending = v
             /\ r.draining = s.draining /\ r.completed = s.completed /\ r.anchor = s.anchor
<1> DEFINE r == [s EXCEPT !.pending = v]
<1>1. Shaped(s)
  BY DEF StreamTyped
<1>2. r = [pending |-> v, draining |-> s.draining, sps |-> s.sps, pps |-> s.pps,
           anchor |-> s.anchor, completed |-> s.completed]
  BY <1>1, Parts
<1> HIDE DEF r
<1>3. Shaped(r)
  BY <1>2 DEF Shaped
<1>4. StreamTyped(r)
  BY <1>2, <1>3 DEF StreamTyped
<1>5. /\ r.pending = v /\ r.draining = s.draining
      /\ r.completed = s.completed /\ r.anchor = s.anchor
  BY <1>2
<1> QED BY <1>4, <1>5 DEF r

\* The same for the unit being drained.
LEMMA SetDraining ==
  ASSUME NEW s, StreamTyped(s), NEW v, v = NoUnit \/ (DrainingUnit(v) /\ s.pending = NoUnit)
  PROVE  LET r == [s EXCEPT !.draining = v]
         IN  /\ StreamTyped(r) /\ r.draining = v
             /\ r.pending = s.pending /\ r.completed = s.completed /\ r.anchor = s.anchor
<1> DEFINE r == [s EXCEPT !.draining = v]
<1>1. Shaped(s)
  BY DEF StreamTyped
<1>2. r = [pending |-> s.pending, draining |-> v, sps |-> s.sps, pps |-> s.pps,
           anchor |-> s.anchor, completed |-> s.completed]
  BY <1>1, Parts
<1> HIDE DEF r
<1>3. Shaped(r)
  BY <1>2 DEF Shaped
<1>4. StreamTyped(r)
  BY <1>2, <1>3 DEF StreamTyped
<1>5. /\ r.draining = v /\ r.pending = s.pending
      /\ r.completed = s.completed /\ r.anchor = s.anchor
  BY <1>2
<1> QED BY <1>4, <1>5 DEF r

\* Moving or clearing the anchor touches nothing else.
LEMMA SetAnchors ==
  ASSUME NEW s, StreamTyped(s), NEW a, Anchor(a)
  PROVE  LET r == [s EXCEPT !.anchor = a]
         IN  /\ StreamTyped(r) /\ r.anchor = a
             /\ r.pending = s.pending /\ r.draining = s.draining /\ r.completed = s.completed
<1> DEFINE r == [s EXCEPT !.anchor = a]
<1>1. Shaped(s)
  BY DEF StreamTyped
<1>2. r = [pending |-> s.pending, draining |-> s.draining, sps |-> s.sps, pps |-> s.pps,
           anchor |-> a, completed |-> s.completed]
  BY <1>1, Parts
<1> HIDE DEF r
<1>3. Shaped(r)
  BY <1>2 DEF Shaped
<1>4. StreamTyped(r)
  BY <1>2, <1>3 DEF StreamTyped
<1>5. /\ r.anchor = a /\ r.pending = s.pending
      /\ r.draining = s.draining /\ r.completed = s.completed
  BY <1>2
<1> QED BY <1>4, <1>5 DEF r

\* What follows a packet is the anchor of the next unit; no anchor is one too.
LEMMA AnchorsAre ==
  /\ \A ts : \A next \in MaybeSeq : Anchor([ts |-> ts, next |-> next])
  /\ Anchor(NoAnchor)
  /\ \A q \in SeqNos : After(q) \in SeqNos
<1>1. \A q \in SeqNos : After(q) \in SeqNos
  <2> TAKE q \in SeqNos
  <2>1. q + 1 \in Int
    BY DEF SeqNos
  <2> QED BY <2>1, ModRange DEF After
<1> QED BY <1>1 DEF Anchor, NoAnchor, MaybeSeq

\* Moving or clearing the anchor, by the operators of the code.
LEMMA Anchors ==
  ASSUME NEW s, StreamTyped(s), NEW ts, NEW next \in MaybeSeq,
         NEW r, r = SetAnchor(s, ts, next) \/ r = ClearAnchor(s)
  PROVE  /\ StreamTyped(r) /\ r.pending = s.pending /\ r.draining = s.draining
         /\ r.completed = s.completed
<1> DEFINE a == [ts |-> ts, next |-> next]
<1>1. Anchor(a) /\ Anchor(NoAnchor)
  BY AnchorsAre
<1> HIDE DEF a
<1>2. r = [s EXCEPT !.anchor = a] \/ r = [s EXCEPT !.anchor = NoAnchor]
  BY DEF SetAnchor, ClearAnchor, a
<1>3. CASE r = [s EXCEPT !.anchor = a]
  BY <1>1, <1>3, SetAnchors
<1>4. CASE r = [s EXCEPT !.anchor = NoAnchor]
  BY <1>1, <1>4, SetAnchors
<1> QED BY <1>2, <1>3, <1>4

\* There are n numbers from 1 to n.
LEMMA Counting ==
  ASSUME NEW n \in Nat
  PROVE  IsFiniteSet(1..n) /\ Cardinality(1..n) = n
<1>1. IsFiniteSet(1..n) /\ Cardinality(1..n) = IF 1 > n THEN 0 ELSE n - 1 + 1
  <2>1. 1 \in Int /\ n \in Int
    OBVIOUS
  <2> QED BY ONLY <2>1, FS_Interval
<1>2. (IF 1 > n THEN 0 ELSE n - 1 + 1) = n
  OBVIOUS
<1> QED BY <1>1, <1>2

\* The unit that a full, nearly ordered memory forgets has been passed by another.
LEMMA Passed ==
  ASSUME NEW n \in Nat \ {0}, NEW g, Prompt, n = MaxCompleted, NEW t \in Int,
         \A i \in 1..n : g[i] \in Int /\ g[i] # t /\ t <= g[i] + MaxDelay,
         \A i, j \in 1..n : g[i] = g[j] => i = j
  PROVE  \E i \in 1..n : g[i] > t + MaxDelay
<1>0. MaxDelay \in Nat
  BY VideoConstants
<1> SUFFICES ASSUME \A i \in 1..n : g[i] <= t + MaxDelay PROVE FALSE
  BY <1>0
<1> DEFINE near == (t - MaxDelay)..(t + MaxDelay)
           f == [i \in 1..n |-> g[i]]
<1>1. MaxDelay \in Nat /\ t - MaxDelay \in Int /\ t + MaxDelay \in Int
  BY <1>0
<1>2. IsFiniteSet(near) /\ Cardinality(near) = 2 * MaxDelay + 1
  <2>1. /\ IsFiniteSet(near)
        /\ Cardinality(near) = IF t - MaxDelay > t + MaxDelay THEN 0
                               ELSE (t + MaxDelay) - (t - MaxDelay) + 1
    BY ONLY <1>1, FS_Interval
  <2> QED BY <1>1, <2>1
<1>3. t \in near /\ \A i \in 1..n : g[i] \in near \ {t}
  BY <1>1
<1> HIDE DEF near
<1>4. IsFiniteSet(near \ {t}) /\ Cardinality(near \ {t}) = 2 * MaxDelay
  BY <1>1, <1>2, <1>3, FS_RemoveElement
<1>5. f \in Injection(1..n, near \ {t})
  BY <1>3 DEF Injection, IsInjective
<1> HIDE DEF f
<1>6. Cardinality(1..n) <= 2 * MaxDelay
  BY <1>4, <1>5, FS_Injection
<1> QED BY <1>1, <1>6, Counting DEF Prompt

\* A memory that is given one more unit keeps it, and forgets none unless it is
\* full; what it forgets then has been passed, if the memory is nearly ordered.
LEMMA MemoryGrows ==
  ASSUME NEW c, Memory(c), NEW ts \in Stamps, NEW f \in MaybeSeq,
         \A i \in DOMAIN c : c[i].ts # ts
  PROVE  LET longer == Append(c, [ts |-> ts, frontier |-> f])
             r == IF Len(longer) > MaxCompleted THEN Tail(longer) ELSE longer
         IN  /\ Memory(r) /\ \E i \in DOMAIN r : r[i].ts = ts
             /\ \A j \in DOMAIN r : r[j].ts = ts \/ \E i \in DOMAIN c : r[j].ts = c[i].ts
             /\ Prompt /\ Ranked(c) /\ (\A i \in DOMAIN c : c[i].ts <= ts + MaxDelay)
                => /\ Ranked(r)
                   /\ \A i \in DOMAIN c : \E j \in DOMAIN r :
                        r[j].ts = c[i].ts \/ r[j].ts > c[i].ts + MaxDelay
<1> DEFINE E == [ts : Stamps, frontier : MaybeSeq]
           e == [ts |-> ts, frontier |-> f]
           longer == Append(c, e)
           r == IF Len(longer) > MaxCompleted THEN Tail(longer) ELSE longer
           Near == Prompt /\ Ranked(c) /\ \A i \in DOMAIN c : c[i].ts <= ts + MaxDelay
<1>1. /\ c \in Seq(E) /\ Len(c) \in Nat /\ DOMAIN c = 1..Len(c)
      /\ Len(c) <= MaxCompleted /\ MaxCompleted \in Nat \ {0} /\ MaxDelay \in Nat
  BY StreamConstants, VideoConstants DEF Memory
<1>2. \A x \in E : x.ts \in Int
  BY UnitsAreUnits DEF Stamps
<1>3. e \in E /\ e.ts = ts
  OBVIOUS
<1>4. \A i, j \in DOMAIN c : c[i].ts = c[j].ts => i = j
  BY DEF Memory
<1> HIDE DEF E, e
<1>5. /\ longer \in Seq(E) /\ Len(longer) = Len(c) + 1 /\ DOMAIN longer = 1..Len(longer)
      /\ \A i \in 1..Len(c) : longer[i] = c[i]
      /\ longer[Len(c) + 1] = e
  BY <1>1, <1>3
<1> HIDE DEF longer
<1>6. /\ \A i \in 1..Len(longer) : longer[i] \in E /\ longer[i].ts \in Int
      /\ \A i \in 1..Len(longer) : i \in 1..Len(c) \/ i = Len(c) + 1
  BY <1>1, <1>2, <1>5
<1>7. \A i, j \in 1..Len(longer) : longer[i].ts = longer[j].ts => i = j
  <2> SUFFICES ASSUME NEW i \in 1..Len(longer), NEW j \in 1..Len(longer),
                      longer[i].ts = longer[j].ts
               PROVE  i = j
    OBVIOUS
  <2>2. CASE i \in 1..Len(c) /\ j \in 1..Len(c)
    BY <1>1, <1>4, <1>5, <2>2
  <2>3. CASE i \in 1..Len(c) /\ j = Len(c) + 1
    BY <1>1, <1>3, <1>5, <2>3
  <2>4. CASE j \in 1..Len(c) /\ i = Len(c) + 1
    BY <1>1, <1>3, <1>5, <2>4
  <2> QED BY <1>6, <2>2, <2>3, <2>4
<1>8. Near => \A i, j \in 1..Len(longer) : i < j => longer[i].ts <= longer[j].ts + MaxDelay
  <2> SUFFICES ASSUME Near, NEW i \in 1..Len(longer), NEW j \in 1..Len(longer), i < j
               PROVE  longer[i].ts <= longer[j].ts + MaxDelay
    OBVIOUS
  <2>1. i \in 1..Len(c)
    BY <1>1, <1>5
  <2>2. CASE j \in 1..Len(c)
    BY <1>1, <1>5, <2>1, <2>2 DEF Ranked
  <2>3. CASE j = Len(c) + 1
    BY <1>1, <1>3, <1>5, <2>1, <2>3
  <2> QED BY <1>6, <2>2, <2>3
<1>9. \A j \in 1..Len(longer) : longer[j].ts = ts \/ \E i \in DOMAIN c : longer[j].ts = c[i].ts
  BY <1>1, <1>3, <1>5, <1>6
<1>10. CASE Len(longer) <= MaxCompleted
  <2>1. r = longer
    BY <1>1, <1>5, <1>10
  <2> HIDE DEF r
  <2>2. Memory(r)
    BY <1>5, <1>7, <1>10, <2>1 DEF Memory, E
  <2>3. Len(c) + 1 \in DOMAIN r /\ r[Len(c) + 1].ts = ts
    BY <1>1, <1>3, <1>5, <2>1
  <2>4. Near => Ranked(r)
    BY <1>5, <1>8, <2>1 DEF Ranked
  <2>5. \A i \in DOMAIN c : i \in DOMAIN r /\ r[i].ts = c[i].ts
    BY <1>1, <1>5, <2>1
  <2> QED BY <1>5, <1>9, <2>1, <2>2, <2>3, <2>4, <2>5 DEF r, longer, e
<1>11. CASE Len(longer) > MaxCompleted
  <2>1. r = Tail(longer) /\ Len(longer) = MaxCompleted + 1 /\ Len(c) = MaxCompleted
    BY <1>1, <1>5, <1>11
  <2>2. /\ Tail(longer) \in Seq(E) /\ Len(Tail(longer)) = MaxCompleted
        /\ \A i \in 1..MaxCompleted : Tail(longer)[i] = longer[i + 1]
    BY <1>1, <1>5, <2>1
  <2> HIDE DEF r
  <2>3. /\ DOMAIN r = 1..MaxCompleted /\ r \in Seq(E) /\ Len(r) = MaxCompleted
        /\ \A i \in 1..MaxCompleted : r[i] = longer[i + 1] /\ i + 1 \in 1..Len(longer)
    BY <1>1, <2>1, <2>2
  <2>4. r[MaxCompleted].ts = ts /\ MaxCompleted \in DOMAIN r
    BY <1>1, <1>3, <1>5, <2>1, <2>3
  <2>5. \A i, j \in DOMAIN r : r[i].ts = r[j].ts => i = j
    <3> TAKE i, j \in DOMAIN r
    <3> HAVE r[i].ts = r[j].ts
    <3>1. i + 1 \in 1..Len(longer) /\ j + 1 \in 1..Len(longer)
      BY <2>3
    <3>2. longer[i + 1].ts = longer[j + 1].ts
      BY <2>3
    <3>3. i + 1 = j + 1
      BY <1>7, <3>1, <3>2
    <3> QED BY <3>3, <2>3, <1>1
  <2>6. Memory(r)
    BY <1>1, <2>3, <2>5 DEF Memory, E
  <2>7. \A j \in DOMAIN r : r[j].ts = ts \/ \E i \in DOMAIN c : r[j].ts = c[i].ts
    BY <1>9, <2>3
  <2>8. Near => Ranked(r)
    <3> SUFFICES ASSUME Near, NEW i \in DOMAIN r, NEW j \in DOMAIN r, i < j
                 PROVE  r[i].ts <= r[j].ts + MaxDelay
      BY DEF Ranked
    <3>1. i + 1 \in 1..Len(longer) /\ j + 1 \in 1..Len(longer) /\ i + 1 < j + 1
      BY <1>1, <2>3
    <3>2. longer[i + 1].ts <= longer[j + 1].ts + MaxDelay
      BY <1>8, <3>1
    <3> QED BY <2>3, <3>2
  <2>9. Near => \A i \in DOMAIN c : \E j \in DOMAIN r :
                  r[j].ts = c[i].ts \/ r[j].ts > c[i].ts + MaxDelay
    <3> SUFFICES ASSUME Near, NEW i \in DOMAIN c
                 PROVE  \E j \in DOMAIN r : r[j].ts = c[i].ts \/ r[j].ts > c[i].ts + MaxDelay
      OBVIOUS
    <3>1. CASE i = 1
      <4> DEFINE g == [j \in 1..MaxCompleted |-> r[j].ts]
      <4>1. 1 \in 1..Len(longer) /\ longer[1] = c[1] /\ c[1].ts \in Int
        BY <1>1, <1>5, <1>6, <2>1
      <4>2. \A j \in 1..MaxCompleted :
              r[j].ts \in Int /\ r[j].ts # c[1].ts /\ c[1].ts <= r[j].ts + MaxDelay
        <5> TAKE j \in 1..MaxCompleted
        <5>1. j + 1 \in 1..Len(longer) /\ 1 < j + 1 /\ r[j] = longer[j + 1]
          BY <1>1, <2>3
        <5>2. longer[1].ts # longer[j + 1].ts /\ longer[1].ts <= longer[j + 1].ts + MaxDelay
          BY <1>7, <1>8, <4>1, <5>1
        <5> QED BY <1>6, <4>1, <5>1, <5>2
      <4>3. \A j \in 1..MaxCompleted : g[j] = r[j].ts
        OBVIOUS
      <4> HIDE DEF g
      <4>4. \E j \in 1..MaxCompleted : g[j] > c[1].ts + MaxDelay
        <5>1. \A j \in 1..MaxCompleted :
                g[j] \in Int /\ g[j] # c[1].ts /\ c[1].ts <= g[j] + MaxDelay
          BY <4>2, <4>3
        <5>2. \A j, k \in 1..MaxCompleted : g[j] = g[k] => j = k
          BY <2>3, <2>5, <4>3
        <5> QED BY <1>1, <4>1, <5>1, <5>2, Passed
      <4> QED BY <2>3, <3>1, <4>3, <4>4
    <3>2. CASE i # 1
      <4>1. i - 1 \in 1..MaxCompleted /\ (i - 1) + 1 = i /\ i \in 1..Len(c)
        BY <1>1, <2>1, <3>2
      <4>2. r[i - 1].ts = c[i].ts
        BY <1>5, <2>3, <4>1
      <4> QED BY <2>3, <4>1, <4>2
    <3> QED BY <3>1, <3>2
  <2> HIDE DEF Near
  <2> QED BY <2>4, <2>6, <2>7, <2>8, <2>9 DEF r, longer, e, Near
<1>12. Len(longer) <= MaxCompleted \/ Len(longer) > MaxCompleted
  <2>1. Len(longer) \in Nat
    BY <1>1, <1>5
  <2> QED BY <1>1, <2>1
<1> QED BY <1>10, <1>11, <1>12

-----------------------------------------------------------------------------
(* The operators that end a unit                                           *)

\* The memory holds units of the stream.
LEMMA OverAreStamps ==
  ASSUME NEW s, StreamTyped(s)
  PROVE  Over(s) \subseteq Stamps /\ Stamps \subseteq Int
<1> DEFINE c == s.completed
           E == [ts : Stamps, frontier : MaybeSeq]
<1>1. c \in Seq(E)
  BY DEF StreamTyped, Memory
<1>2. \A e \in E : e.ts \in Stamps
  OBVIOUS
<1> HIDE DEF E
<1>3. \A i \in DOMAIN c : c[i].ts \in Stamps
  BY <1>1, <1>2
<1>4. Stamps \subseteq Int
  BY UnitsAreUnits DEF Stamps
<1> QED BY <1>3, <1>4 DEF Over

\* Streams that remember the same units.
LEMMA SameTimes ==
  ASSUME NEW s, NEW r, NEW top, DOMAIN r.completed = DOMAIN s.completed,
         \A i \in DOMAIN s.completed : r.completed[i].ts = s.completed[i].ts
  PROVE  /\ Over(r) = Over(s) /\ Past(r) = Past(s)
         /\ \A t : Due(r, t, top) <=> Due(s, t, top)
         /\ Timely(s, top) /\ (\A u \in Open(r) : u \in Open(s) \/ Due(s, u, top))
            => Timely(r, top)
<1>1. Over(r) = Over(s)
  BY DEF Over
<1>2. Past(r) = Past(s) /\ \A t : Due(r, t, top) <=> Due(s, t, top)
  BY <1>1 DEF Past, Due
<1>3. Ranked(s.completed) => Ranked(r.completed)
  BY DEF Ranked
<1> QED BY <1>1, <1>2, <1>3 DEF Timely

\* Streams that differ in nothing that matters here, and a stream whose open unit
\* is closed.
LEMMA Alike ==
  ASSUME NEW s, NEW r, NEW top, r.completed = s.completed
  PROVE  /\ Over(r) = Over(s) /\ Past(r) = Past(s)
         /\ r.pending = s.pending /\ r.draining = s.draining /\ Timely(s, top) => Timely(r, top)
         /\ r.pending = NoUnit /\ r.draining = NoUnit =>
              /\ Open(r) = {}
              /\ Timely(s, top) => Timely(r, top)
              /\ \A u : Due(r, u, top) <=> Due(s, u, top)
              /\ Timely(s, top) => \A u \in Open(s) : Due(r, u, top)
<1>1. /\ Over(r) = Over(s) /\ Past(r) = Past(s)
      /\ \A u : Due(r, u, top) <=> Due(s, u, top)
      /\ Timely(s, top) /\ (\A u \in Open(r) : u \in Open(s) \/ Due(s, u, top))
         => Timely(r, top)
  BY SameTimes
<1>2. r.pending = s.pending /\ r.draining = s.draining => Open(r) = Open(s)
  BY DEF Open, Filed, Drained
<1>3. r.pending = NoUnit /\ r.draining = NoUnit => Open(r) = {}
  BY DEF Open, Filed, Drained
<1>4. Timely(s, top) => \A u \in Open(s) : Due(r, u, top)
  BY <1>1 DEF Timely
<1> QED BY <1>1, <1>2, <1>3, <1>4

\* A packet among the newest belongs to a unit that may still be remembered; it
\* is of the past only when its unit is remembered.
LEMMA InTimeIsDue ==
  ASSUME NEW s, StreamTyped(s), NEW p \in Packets, NEW top, Timely(s, top), InTime(p, top)
  PROVE  /\ Due(s, p.ts, top) /\ (p.ts \in Past(s) => p.ts \in Over(s))
         /\ \A u \in Open(s) : u <= p.ts + MaxDelay
<1>1. Over(s) \subseteq Int /\ p.ts \in Int /\ top \in Int /\ MaxDelay \in Nat
  BY OverAreStamps, VideoConstants DEF Packets, Stamps, Timely
<1>2. Open(s) \subseteq Int
  BY OverAreStamps DEF StreamTyped, PendingUnit, DrainingUnit, Open, Filed, Drained
<1>3. \A x \in Over(s) \cup Open(s) : x <= top
  BY DEF Timely, Due
<1>4. \A x \in Over(s) \cup Open(s) : x <= p.ts + MaxDelay
  BY <1>1, <1>2, <1>3 DEF InTime
<1> QED BY <1>1, <1>4 DEF Due, Past, InTime

\* A unit that is over is remembered; the open units stay as they are.
LEMMA Remembers ==
  ASSUME NEW s, StreamTyped(s), NEW ts \in Stamps, NEW f \in MaybeSeq,
         NEW top, NEW r, r = Remember(s, ts, f)
  PROVE  /\ StreamTyped(r) /\ r.pending = s.pending /\ r.draining = s.draining
         /\ r.anchor = s.anchor
         /\ ts \in Over(r)
         /\ Ready(s, ts, top) => Timely(r, top) /\ Past(s) \subseteq Past(r)
<1>1. CASE Remembered(s, ts)
  <2>1. r = s
    BY <1>1 DEF Remember
  <2>2. ts \in Over(s)
    BY <1>1 DEF Remembered, Over
  <2> QED BY <2>1, <2>2 DEF Ready
<1>2. CASE ~Remembered(s, ts)
  <2> DEFINE c == s.completed
             longer == Append(c, [ts |-> ts, frontier |-> f])
             d == IF Len(longer) > MaxCompleted THEN Tail(longer) ELSE longer
  <2>1. r = [s EXCEPT !.completed = d]
    BY <1>2 DEF Remember
  <2>2. Memory(c) /\ \A i \in DOMAIN c : c[i].ts # ts
    BY <1>2 DEF StreamTyped, Remembered
  <2>3. /\ Memory(d) /\ \E i \in DOMAIN d : d[i].ts = ts
        /\ \A j \in DOMAIN d : d[j].ts = ts \/ \E i \in DOMAIN c : d[j].ts = c[i].ts
        /\ Prompt /\ Ranked(c) /\ (\A i \in DOMAIN c : c[i].ts <= ts + MaxDelay)
           => /\ Ranked(d)
              /\ \A i \in DOMAIN c : \E j \in DOMAIN d :
                   d[j].ts = c[i].ts \/ d[j].ts > c[i].ts + MaxDelay
    BY <2>2, MemoryGrows
  <2> HIDE DEF d
  <2>4. Shaped(s)
    BY DEF StreamTyped
  <2>5. r = [pending |-> s.pending, draining |-> s.draining, sps |-> s.sps, pps |-> s.pps,
             anchor |-> s.anchor, completed |-> d]
    BY <2>1, <2>4, Parts
  <2>6. /\ r.pending = s.pending /\ r.draining = s.draining /\ r.sps = s.sps /\ r.pps = s.pps
        /\ r.anchor = s.anchor /\ r.completed = d
    BY <2>5
  <2>7. Shaped(r)
    BY <2>5, <2>6 DEF Shaped
  <2>8. StreamTyped(r)
    BY <2>3, <2>6, <2>7 DEF StreamTyped
  <2>9. ts \in Over(r) /\ Over(r) \subseteq Over(s) \cup {ts} /\ Open(r) = Open(s)
    BY <2>3, <2>6 DEF Over, Open, Drained, Filed
  <2>10. ASSUME Ready(s, ts, top)
         PROVE  Timely(r, top) /\ Past(s) \subseteq Past(r)
    <3>1. Prompt /\ top \in Int /\ Ranked(c) /\ \A i \in DOMAIN c : c[i].ts <= ts + MaxDelay
      BY <2>10 DEF Ready, Timely, Due, Over
    <3>2. Ranked(d) /\ \A x \in Over(s) : \E y \in Over(r) : y = x \/ y > x + MaxDelay
      BY <2>3, <2>6, <3>1 DEF Over
    <3>3. \A x \in Over(r) : x \in Over(s) \/ x = ts
      BY <2>9
    <3>4. Timely(r, top)
      BY <2>6, <2>9, <2>10, <3>1, <3>2, <3>3 DEF Ready, Timely, Due
    <3>5. Over(s) \subseteq Stamps /\ Over(r) \subseteq Stamps /\ Stamps \subseteq Int
      BY <2>8, OverAreStamps
    <3>6. MaxDelay \in Nat
      BY VideoConstants
    <3>7. ASSUME NEW t \in Past(s) PROVE t \in Past(r)
      <4>1. CASE t \in Over(s)
        BY <3>2, <3>5, <4>1 DEF Past
      <4>2. CASE t \in Stamps /\ \E x \in Over(s) : x > t + MaxDelay
        <5>1. PICK x \in Over(s) : x > t + MaxDelay
          BY <4>2
        <5>2. PICK y \in Over(r) : y = x \/ y > x + MaxDelay
          BY <3>2
        <5>3. x \in Int /\ y \in Int /\ t \in Int
          BY <3>5, <4>2
        <5>4. y > t + MaxDelay
          BY <3>6, <5>1, <5>2, <5>3
        <5> QED BY <4>2, <5>4 DEF Past
      <4> QED BY <3>7, <4>1, <4>2 DEF Past
    <3> QED BY <3>4, <3>7
  <2> QED BY <2>6, <2>8, <2>9, <2>10
<1> QED BY <1>1, <1>2

\* A unit is remembered exactly when it is over.
LEMMA RememberedIsOver ==
  ASSUME NEW s, NEW ts
  PROVE  Remembered(s, ts) <=> ts \in Over(s)
  BY DEF Remembered, Over

\* A frontier may move without the memory losing a unit.
LEMMA FrontierMoves ==
  ASSUME NEW c, Memory(c), NEW i \in DOMAIN c, NEW q \in SeqNos
  PROVE  LET d == [c EXCEPT ![i].frontier = q]
         IN  Memory(d) /\ DOMAIN d = DOMAIN c /\ \A j \in DOMAIN c : d[j].ts = c[j].ts
<1> DEFINE d == [c EXCEPT ![i].frontier = q]
           E == [ts : Stamps, frontier : MaybeSeq]
<1>1. c \in Seq(E) /\ Len(c) \in Nat /\ DOMAIN c = 1..Len(c)
  BY DEF Memory
<1>2. c[i] \in E
  <2> HIDE DEF E
  <2> QED BY <1>1
<1>20. q \in MaybeSeq
  BY DEF MaybeSeq
<1>3. [c[i] EXCEPT !.frontier = q] \in E /\ [c[i] EXCEPT !.frontier = q].ts = c[i].ts
  BY <1>2, <1>20
<1> HIDE DEF E
<1>4. d = [c EXCEPT ![i] = [c[i] EXCEPT !.frontier = q]]
  OBVIOUS
<1>5. DOMAIN d = DOMAIN c /\ \A j \in DOMAIN c : d[j].ts = c[j].ts
  BY <1>1, <1>3, <1>4
<1>6. d \in Seq(E) /\ Len(d) = Len(c)
  BY <1>1, <1>3, <1>4
<1> HIDE DEF d
<1>7. Memory(d)
  BY <1>5, <1>6 DEF Memory, E
<1> QED BY <1>5, <1>7 DEF d

\* A late packet of a unit that is over changes what is open only inside.
LEMMA Rejects ==
  ASSUME NEW s, StreamTyped(s), NEW p \in Packets, Remembered(s, p.ts),
         NEW top, NEW r, r = RejectCompleted(s, p)
  PROVE  /\ StreamTyped(r) /\ Over(r) = Over(s)
         /\ Filed(r) = Filed(s) /\ Drained(r) = Drained(s)
         /\ (r.pending = NoUnit <=> s.pending = NoUnit)
         /\ Past(r) = Past(s) /\ (Timely(s, top) => Timely(r, top))
<1> DEFINE i == CHOOSE j \in DOMAIN s.completed : s.completed[j].ts = p.ts
           d == [s.completed EXCEPT ![i].frontier = p.seq]
           moved == [s EXCEPT !.completed[i].frontier = p.seq]
           cleared == ClearAnchor(moved)
           pd == IF s.pending = NoUnit THEN NoUnit ELSE [s.pending EXCEPT !.expected = NoSeq]
           dr == IF s.draining = NoUnit THEN NoUnit ELSE [s.draining EXCEPT !.anchored = FALSE]
<1>1. i \in DOMAIN s.completed
  BY DEF Remembered
<1>2. p.seq \in SeqNos
  BY DEF Packets
<1>3. Memory(s.completed) /\ Shaped(s)
  BY DEF StreamTyped
<1>4. moved = [s EXCEPT !.completed = d]
  OBVIOUS
<1> HIDE DEF i
<1>5. Memory(d) /\ DOMAIN d = DOMAIN s.completed /\ \A j \in DOMAIN d : d[j].ts = s.completed[j].ts
  BY <1>1, <1>2, <1>3, FrontierMoves
<1> HIDE DEF d, moved
<1>6. moved = [pending |-> s.pending, draining |-> s.draining, sps |-> s.sps, pps |-> s.pps,
               anchor |-> s.anchor, completed |-> d]
  BY <1>3, <1>4, Parts
<1>7. Shaped(moved)
  BY <1>6 DEF Shaped
<1>8. StreamTyped(moved) /\ moved.pending = s.pending /\ moved.draining = s.draining
      /\ moved.completed = d
  BY <1>5, <1>6, <1>7 DEF StreamTyped
<1>9. Over(moved) = Over(s)
  BY <1>5, <1>8 DEF Over
<1>10. /\ StreamTyped(cleared) /\ cleared.pending = s.pending /\ cleared.draining = s.draining
       /\ cleared.completed = d
  BY <1>8, AnchorsAre, SetAnchors DEF ClearAnchor
<1> HIDE DEF cleared
<1>11. /\ pd = NoUnit <=> s.pending = NoUnit
       /\ s.pending # NoUnit => PendingUnit(pd) /\ pd.ts = s.pending.ts
  <2>1. CASE s.pending = NoUnit
    BY <2>1
  <2>2. CASE s.pending # NoUnit
    <3>1. PendingUnit(s.pending)
      BY <2>2 DEF StreamTyped
    <3>2. pd = [s.pending EXCEPT !.expected = NoSeq]
      BY <2>2
    <3> HIDE DEF pd
    <3>3. PendingUnit(pd) /\ pd.ts = s.pending.ts
      BY <3>1, <3>2 DEF PendingUnit, MaybeSeq
    <3> QED BY <2>2, <3>3, UnitsAreUnits
  <2> QED BY <2>1, <2>2
<1>12. /\ dr = NoUnit <=> s.draining = NoUnit
       /\ s.draining # NoUnit => DrainingUnit(dr) /\ dr.ts = s.draining.ts
  <2>1. CASE s.draining = NoUnit
    BY <2>1
  <2>2. CASE s.draining # NoUnit
    <3>1. DrainingUnit(s.draining)
      BY <2>2 DEF StreamTyped
    <3>2. dr = [s.draining EXCEPT !.anchored = FALSE]
      BY <2>2
    <3> HIDE DEF dr
    <3>3. DrainingUnit(dr) /\ dr.ts = s.draining.ts
      BY <3>1, <3>2 DEF DrainingUnit
    <3> QED BY <2>2, <3>3, UnitsAreUnits
  <2> QED BY <2>1, <2>2
<1>13. s.pending = NoUnit \/ s.draining = NoUnit
  BY DEF StreamTyped
<1> DEFINE once == [cleared EXCEPT !.pending = pd]
           twice == [once EXCEPT !.draining = dr]
<1>14. CASE r = s
  BY <1>14
<1>15. CASE r = moved
  <2>1. /\ StreamTyped(r) /\ Over(r) = Over(s) /\ Filed(r) = Filed(s) /\ Drained(r) = Drained(s)
        /\ r.completed = d /\ r.pending = s.pending
    BY <1>8, <1>9, <1>15 DEF Filed, Drained
  <2>2. Past(r) = Past(s) /\ (Timely(s, top) => Timely(r, top))
    BY <1>5, <2>1, SameTimes DEF Open
  <2> QED BY <2>1, <2>2
<1>16. CASE r = twice
  <2> HIDE DEF pd, dr
  <2>1. pd = NoUnit \/ (PendingUnit(pd) /\ cleared.draining = NoUnit)
    <3>1. CASE s.pending = NoUnit
      BY <1>11, <3>1
    <3>2. CASE s.pending # NoUnit
      <4>1. cleared.draining = NoUnit
        BY <1>10, <1>13, <3>2
      <4> QED BY <1>11, <3>2, <4>1
    <3> QED BY <3>1, <3>2
  <2>2. /\ StreamTyped(once) /\ once.pending = pd /\ once.draining = s.draining
        /\ once.completed = d
    BY <1>10, <2>1, SetPending
  <2> HIDE DEF once
  <2>3. dr = NoUnit \/ (DrainingUnit(dr) /\ once.pending = NoUnit)
    <3>1. CASE s.draining = NoUnit
      BY <1>12, <3>1
    <3>2. CASE s.draining # NoUnit
      <4>1. once.pending = NoUnit
        BY <1>11, <1>13, <2>2, <3>2
      <4> QED BY <1>12, <3>2, <4>1
    <3> QED BY <3>1, <3>2
  <2>4. /\ StreamTyped(twice) /\ twice.draining = dr /\ twice.pending = pd
        /\ twice.completed = d
    BY <2>2, <2>3, SetDraining
  <2> HIDE DEF twice
  <2>5. Over(r) = Over(s)
    BY <1>5, <1>16, <2>4 DEF Over
  <2>6. /\ StreamTyped(r) /\ Filed(r) = Filed(s) /\ Drained(r) = Drained(s) /\ r.completed = d
        /\ (r.pending = NoUnit <=> s.pending = NoUnit)
    BY <1>11, <1>12, <1>16, <2>4 DEF Filed, Drained
  <2>7. Past(r) = Past(s) /\ (Timely(s, top) => Timely(r, top))
    BY <1>5, <2>6, SameTimes DEF Open
  <2> QED BY <2>5, <2>6, <2>7
<1>17. r = s \/ r = moved \/ r = twice
  <2>1. [ClearAnchor(moved) EXCEPT
           !.pending = IF @ = NoUnit THEN @ ELSE [@ EXCEPT !.expected = NoSeq],
           !.draining = IF @ = NoUnit THEN @ ELSE [@ EXCEPT !.anchored = FALSE]] = twice
    <3>1. [cleared EXCEPT !.pending = pd, !.draining = dr] = twice
      BY <1>10 DEF StreamTyped, Shaped
    <3>2. pd = IF cleared.pending = NoUnit THEN cleared.pending
               ELSE [cleared.pending EXCEPT !.expected = NoSeq]
      BY <1>10
    <3>3. dr = IF cleared.draining = NoUnit THEN cleared.draining
               ELSE [cleared.draining EXCEPT !.anchored = FALSE]
      BY <1>10
    <3>4. cleared = ClearAnchor(moved)
      BY DEF cleared
    <3> HIDE DEF pd, dr, twice
    <3> QED BY <3>1, <3>2, <3>3, <3>4
  <2> QED BY <2>1 DEF RejectCompleted, moved, i
<1> QED BY <1>14, <1>15, <1>16, <1>17

\* A unit that is dropped is over.
LEMMA Discards ==
  ASSUME NEW s, StreamTyped(s), NEW top, NEW r, r = DiscardPending(s)
  PROVE  /\ StreamTyped(r) /\ r.pending = NoUnit /\ r.draining = s.draining
         /\ Filed(s) \subseteq Over(r)
         /\ Timely(s, top) => Timely(r, top) /\ Past(s) \subseteq Past(r)
<1>1. CASE s.pending = NoUnit
  BY <1>1 DEF DiscardPending, Filed
<1>2. CASE s.pending # NoUnit
  <2> DEFINE u == s.pending
             t == [s EXCEPT !.pending = NoUnit]
             over == Remember(t, u.ts, u.frontier)
  <2>1. PendingUnit(u)
    BY <1>2 DEF StreamTyped
  <2>2. u.ts \in Stamps /\ u.frontier \in MaybeSeq /\ u.marker \in MaybeSeq
    BY <2>1 DEF PendingUnit
  <2>3. /\ StreamTyped(t) /\ t.pending = NoUnit /\ t.draining = s.draining
        /\ t.completed = s.completed
    <3>1. NoUnit = NoUnit \/ (PendingUnit(NoUnit) /\ s.draining = NoUnit)
      OBVIOUS
    <3> QED BY <3>1, SetPending
  <2> HIDE DEF t
  <2>4. /\ StreamTyped(over) /\ over.pending = NoUnit /\ over.draining = s.draining
        /\ u.ts \in Over(over)
        /\ Ready(t, u.ts, top) => Timely(over, top) /\ Past(t) \subseteq Past(over)
    BY <2>2, <2>3, Remembers
  <2>5. Timely(s, top) => Timely(over, top) /\ Past(s) \subseteq Past(over)
    <3>1. t.draining = NoUnit /\ u.ts \in Open(s)
      BY <1>2, <2>3 DEF StreamTyped, Open, Filed
    <3>2. /\ Past(t) = Past(s) /\ Open(t) = {}
          /\ Timely(s, top) => Timely(t, top) /\ Due(t, u.ts, top)
      BY <2>3, <3>1, Alike
    <3> QED BY <2>4, <3>2 DEF Ready
  <2> HIDE DEF over
  <2>6. After(u.marker) \in MaybeSeq
    <3>1. u.marker + 1 \in Int
      BY <2>2 DEF MaybeSeq, SeqNos, NoSeq
    <3> QED BY <3>1, ModRange DEF After, MaybeSeq
  <2>7. r = SetAnchor(over, u.ts, After(u.marker)) \/ r = ClearAnchor(over)
    BY <1>2 DEF DiscardPending, over, t
  <2>8. /\ StreamTyped(r) /\ r.pending = over.pending /\ r.draining = over.draining
        /\ r.completed = over.completed
    BY <2>4, <2>6, <2>7, Anchors
  <2>9. Over(r) = Over(over) /\ Past(r) = Past(over) /\ (Timely(over, top) => Timely(r, top))
    BY <2>8, Alike
  <2>10. Filed(s) = {u.ts}
    BY <1>2 DEF Filed
  <2> QED BY <2>4, <2>5, <2>8, <2>9, <2>10
<1> QED BY <1>1, <1>2

-----------------------------------------------------------------------------
(* Draining                                                                *)

\* Accepting a unit changes the parameter sets of the stream and nothing else.
LEMMA Accepts ==
  ASSUME NEW s, StreamTyped(s), NEW unit, NEW packets, NEW wanted
  PROVE  LET r == Accept(s, unit, packets, wanted)
         IN  /\ StreamTyped(r.stream)
             /\ r.stream.pending = s.pending /\ r.stream.draining = s.draining
             /\ r.stream.completed = s.completed
             /\ r.frame = NoFrame \/ r.frame.ts = packets[1].ts
<1> DEFINE kept == [s EXCEPT !.sps = Prefer(unit.sps, @), !.pps = Prefer(unit.pps, @)]
           r == Accept(s, unit, packets, wanted)
<1>1. r.stream = kept /\ (r.frame = NoFrame \/ r.frame.ts = packets[1].ts)
  BY DEF Accept
<1>2. kept = [pending |-> s.pending, draining |-> s.draining, sps |-> Prefer(unit.sps, s.sps),
              pps |-> Prefer(unit.pps, s.pps), anchor |-> s.anchor, completed |-> s.completed]
  <2> DEFINE a == Prefer(unit.sps, s.sps)
             b == Prefer(unit.pps, s.pps)
             t == [s EXCEPT !.sps = a]
  <2>1. Shaped(s)
    BY DEF StreamTyped
  <2>2. kept = [t EXCEPT !.pps = b]
    BY <2>1 DEF Shaped
  <2> HIDE DEF a, b
  <2>3. t = [pending |-> s.pending, draining |-> s.draining, sps |-> a, pps |-> s.pps,
             anchor |-> s.anchor, completed |-> s.completed]
    BY <2>1 DEF Shaped
  <2> HIDE DEF t
  <2>4. [t EXCEPT !.pps = b] =
            [pending |-> s.pending, draining |-> s.draining, sps |-> a, pps |-> b,
             anchor |-> s.anchor, completed |-> s.completed]
    BY <2>3
  <2> HIDE DEF kept
  <2> QED BY <2>2, <2>4 DEF a, b
<1> HIDE DEF kept
<1>3. /\ kept.pending = s.pending /\ kept.draining = s.draining
      /\ kept.anchor = s.anchor /\ kept.completed = s.completed /\ Shaped(kept)
  BY <1>2 DEF Shaped
<1>4. StreamTyped(kept)
  BY <1>3 DEF StreamTyped
<1> HIDE DEF r
<1> QED BY <1>1, <1>3, <1>4 DEF r

\* The unit being drained ends, and is over.
LEMMA FinishesDraining ==
  ASSUME NEW s, StreamTyped(s), s.draining # NoUnit, NEW next \in SeqNos, NEW seenMarker,
         NEW top, NEW r, r = FinishDrainUnit(s, next, seenMarker)
  PROVE  /\ StreamTyped(r) /\ r.pending = NoUnit /\ r.draining = NoUnit
         /\ s.draining.ts \in Over(r)
         /\ Timely(s, top) => Timely(r, top) /\ Past(s) \subseteq Past(r)
<1> DEFINE u == s.draining
           t == [s EXCEPT !.draining = NoUnit]
           over == Remember(t, u.ts, u.last)
           continuous == next = After(u.last)
           anchored == IF continuous /\ (seenMarker \/ ~u.sequenceGap)
                       THEN SetAnchor(over, u.ts, next) ELSE ClearAnchor(over)
<1>1. u.ts \in Stamps /\ u.last \in MaybeSeq /\ s.pending = NoUnit /\ next \in MaybeSeq
  BY DEF StreamTyped, DrainingUnit, MaybeSeq
<1>2. /\ StreamTyped(t) /\ t.pending = NoUnit /\ t.draining = NoUnit
      /\ t.completed = s.completed
  BY <1>1, SetDraining
<1> HIDE DEF t
<1>3. /\ StreamTyped(over) /\ over.pending = NoUnit /\ over.draining = NoUnit
      /\ u.ts \in Over(over)
      /\ Ready(t, u.ts, top) => Timely(over, top) /\ Past(t) \subseteq Past(over)
  BY <1>1, <1>2, Remembers
<1>4. Timely(s, top) => Timely(over, top) /\ Past(s) \subseteq Past(over)
  <2>1. u.ts \in Open(s)
    BY DEF Open, Drained
  <2>2. /\ Past(t) = Past(s) /\ Open(t) = {}
        /\ Timely(s, top) => Timely(t, top) /\ Due(t, u.ts, top)
    BY <1>2, <2>1, Alike
  <2> QED BY <1>3, <2>2 DEF Ready
<1> HIDE DEF over
<1>5. anchored = SetAnchor(over, u.ts, next) \/ anchored = ClearAnchor(over)
  OBVIOUS
<1> HIDE DEF anchored
<1>6. /\ StreamTyped(anchored) /\ anchored.pending = NoUnit /\ anchored.draining = NoUnit
      /\ anchored.completed = over.completed
  BY <1>1, <1>3, <1>5, Anchors
<1> DEFINE unit == [idr |-> FALSE, sps |-> u.sps, pps |-> u.pps]
           taken == Accept(anchored, unit, <<>>, FALSE).stream
<1>7. r = anchored \/ r = taken
  BY DEF FinishDrainUnit, anchored, over, t
<1> HIDE DEF unit
<1>8. /\ StreamTyped(taken) /\ taken.pending = NoUnit /\ taken.draining = NoUnit
      /\ taken.completed = over.completed
  <2> DEFINE nothing == <<>>
             no == FALSE
  <2> HIDE DEF nothing, no
  <2>1. LET a == Accept(anchored, unit, nothing, no)
        IN  /\ StreamTyped(a.stream)
            /\ a.stream.pending = anchored.pending /\ a.stream.draining = anchored.draining
            /\ a.stream.completed = anchored.completed
    BY <1>6, Accepts
  <2> QED BY <1>6, <2>1 DEF nothing, no
<1> HIDE DEF taken
<1>9. /\ StreamTyped(r) /\ r.pending = NoUnit /\ r.draining = NoUnit
      /\ r.completed = over.completed
  BY <1>6, <1>7, <1>8
<1>10. Over(r) = Over(over) /\ Past(r) = Past(over) /\ (Timely(over, top) => Timely(r, top))
  BY <1>3, <1>9, Alike
<1> QED BY <1>3, <1>4, <1>9, <1>10

\* A packet opens a unit, or goes into the open one.
LEMMA Draining ==
  ASSUME NEW s, StreamTyped(s), NEW p \in Packets, Drained(s) \subseteq {p.ts}
  PROVE  LET v == DrainPayload(DrainSequence(s, p), p)
         IN  DrainingUnit(v) /\ v.ts = p.ts
<1> DEFINE v == DrainSequence(s, p)
<1>1. p.ts \in Stamps /\ p.seq \in SeqNos
  BY DEF Packets
<1>2. DrainingUnit(v) /\ v.ts = p.ts
  <2>1. CASE s.draining = NoUnit
    <3> DEFINE gap == s.anchor # NoAnchor /\ p.seq # s.anchor.next
               fresh == [ts |-> p.ts, anchored |-> s.anchor # NoAnchor, last |-> p.seq,
                         invalid |-> gap, sequenceGap |-> gap, count |-> 0, open |-> "none",
                         sps |-> NoParameter, pps |-> NoParameter]
    <3>1. v = fresh
      BY <2>1 DEF DrainSequence
    <3> HIDE DEF gap, v
    <3> QED BY <1>1, <3>1 DEF DrainingUnit
  <2>2. CASE s.draining # NoUnit
    <3> DEFINE u == s.draining
               gap == Minus(p.seq, u.last) # 1
               last == IF Ahead(p.seq, u.last) THEN p.seq ELSE u.last
    <3>1. DrainingUnit(u) /\ u.ts = p.ts
      BY <2>2 DEF StreamTyped, Drained
    <3>2. v = [u EXCEPT !.invalid = @ \/ gap, !.sequenceGap = @ \/ gap, !.last = last]
      BY <2>2 DEF DrainSequence
    <3>3. last \in SeqNos
      BY <1>1, <3>1 DEF DrainingUnit
    <3> HIDE DEF gap, last, v
    <3> QED BY <3>1, <3>2, <3>3 DEF DrainingUnit
  <2> QED BY <2>1, <2>2
<1> HIDE DEF v
<1> DEFINE check == CheckPayload(p, v.open)
           counted == [v EXCEPT !.count = @ + 1]
           broken == [v EXCEPT !.count = @ + 1, !.invalid = TRUE]
           read == [v EXCEPT !.count = @ + 1, !.open = check.open,
                      !.sps = Newest(p, "sps", @), !.pps = Newest(p, "pps", @)]
           r == DrainPayload(v, p)
<1>3. r = [v EXCEPT !.invalid = TRUE] \/ r = counted \/ r = broken \/ r = read
  BY DEF DrainPayload
<1> HIDE DEF check, r
<1>4. DrainingUnit(r) /\ r.ts = v.ts
  <2>1. CASE r = [v EXCEPT !.invalid = TRUE]
    BY <1>2, <2>1 DEF DrainingUnit
  <2>2. CASE r = counted
    BY <1>2, <2>2 DEF DrainingUnit
  <2>3. CASE r = broken
    BY <1>2, <2>3 DEF DrainingUnit
  <2>4. CASE r = read
    BY <1>2, <2>4 DEF DrainingUnit
  <2> QED BY <1>3, <2>1, <2>2, <2>3, <2>4
<1> QED BY <1>2, <1>4 DEF r, v

\* Draining a packet keeps what is known, and settles the packet's unit.
LEMMA DrainsPacket ==
  ASSUME NEW s, StreamTyped(s), s.pending = NoUnit, NEW p \in Packets,
         NEW top, NEW r, r = DrainPacket(s, p)
  PROVE  /\ StreamTyped(r) /\ r.pending = NoUnit /\ p.ts \in Settled(r)
         /\ Timely(s, top) /\ InTime(p, top)
            => Timely(r, top) /\ Settled(s) \subseteq Settled(r)
<1>1. CASE Remembered(s, p.ts)
  <2>1. r = RejectCompleted(s, p)
    BY <1>1 DEF DrainPacket
  <2>2. /\ StreamTyped(r) /\ r.pending = NoUnit /\ Over(r) = Over(s) /\ Drained(r) = Drained(s)
        /\ Past(r) = Past(s) /\ (Timely(s, top) => Timely(r, top))
    BY <1>1, <2>1, Rejects
  <2>3. p.ts \in Over(s)
    BY <1>1, RememberedIsOver
  <2> QED BY <2>2, <2>3 DEF Settled, Past
<1>2. CASE ~Remembered(s, p.ts)
  <2> DEFINE moved == IF s.draining # NoUnit /\ s.draining.ts # p.ts
                      THEN FinishDrainUnit(s, p.seq, FALSE) ELSE s
             v == DrainPayload(DrainSequence(moved, p), p)
             filled == [moved EXCEPT !.draining = v]
  <2>1. p.seq \in SeqNos /\ After(p.seq) \in SeqNos
    BY AnchorsAre DEF Packets
  <2>2. /\ StreamTyped(moved) /\ moved.pending = NoUnit /\ Drained(moved) \subseteq {p.ts}
        /\ Timely(s, top) => Timely(moved, top) /\ Settled(s) \subseteq Past(moved) \cup {p.ts}
    <3>1. CASE s.draining # NoUnit /\ s.draining.ts # p.ts
      <4>1. moved = FinishDrainUnit(s, p.seq, FALSE)
        BY <3>1
      <4>2. /\ StreamTyped(moved) /\ moved.pending = NoUnit /\ moved.draining = NoUnit
            /\ s.draining.ts \in Over(moved)
            /\ Timely(s, top) => Timely(moved, top) /\ Past(s) \subseteq Past(moved)
        BY <2>1, <3>1, <4>1, FinishesDraining
      <4> HIDE DEF moved
      <4> QED BY <4>2 DEF Settled, Drained, Past
    <3>2. CASE ~(s.draining # NoUnit /\ s.draining.ts # p.ts)
      <4>1. moved = s
        BY <3>2
      <4> HIDE DEF moved
      <4> QED BY <3>2, <4>1 DEF Settled, Drained
    <3> QED BY <3>1, <3>2
  <2> HIDE DEF moved
  <2>3. DrainingUnit(v) /\ v.ts = p.ts
    BY <2>2, Draining
  <2> HIDE DEF v
  <2>4. /\ StreamTyped(filled) /\ filled.draining = v /\ filled.pending = NoUnit
        /\ filled.completed = moved.completed
    BY <2>2, <2>3, SetDraining
  <2> HIDE DEF filled
  <2>5. /\ filled.draining # NoUnit /\ filled.draining.ts = p.ts /\ Over(filled) = Over(moved)
    BY <2>3, <2>4, UnitsAreUnits DEF Over
  <2>8. /\ Past(filled) = Past(moved)
        /\ Timely(moved, top) /\ InTime(p, top) => Timely(filled, top)
    <3>1. Open(filled) = {p.ts}
      BY <2>4, <2>5 DEF Open, Filed, Drained
    <3>2. Timely(moved, top) /\ InTime(p, top) => Due(moved, p.ts, top)
      BY <2>2, InTimeIsDue
    <3> QED BY <2>4, <3>1, <3>2, SameTimes
  <2>6. CASE p.marker
    <3> DEFINE follower == After(p.seq)
               marked == TRUE
    <3>1. r = FinishDrainUnit(filled, follower, marked) /\ follower \in SeqNos
      BY <1>2, <2>1, <2>6 DEF DrainPacket, filled, v, moved
    <3> HIDE DEF follower, marked
    <3>2. /\ StreamTyped(r) /\ r.pending = NoUnit /\ r.draining = NoUnit
          /\ filled.draining.ts \in Over(r)
          /\ Timely(filled, top) => Timely(r, top) /\ Past(filled) \subseteq Past(r)
      BY ONLY <2>4, <2>5, <3>1, FinishesDraining
    <3>3. /\ StreamTyped(r) /\ r.pending = NoUnit /\ r.draining = NoUnit
          /\ p.ts \in Over(r)
          /\ Timely(filled, top) => Timely(r, top) /\ Past(filled) \subseteq Past(r)
      BY <2>4, <2>5, <3>2
    <3> QED BY <2>2, <2>8, <3>3 DEF Settled, Past
  <2>7. CASE ~p.marker
    <3>1. r = filled
      BY <1>2, <2>7 DEF DrainPacket, filled, v, moved
    <3> QED BY <2>2, <2>4, <2>5, <2>8, <3>1 DEF Settled, Drained
  <2> QED BY <2>6, <2>7
<1> QED BY <1>1, <1>2

\* A spoilt unit is still that unit.
LEMMA SpoiltUnit ==
  ASSUME NEW u, DrainingUnit(u)
  PROVE  LET v == [u EXCEPT !.invalid = TRUE, !.sps = NoParameter, !.pps = NoParameter]
         IN  DrainingUnit(v) /\ v.ts = u.ts
<1> SUFFICES ASSUME NEW w, w = [u EXCEPT !.invalid = TRUE],
                    NEW x, x = [w EXCEPT !.sps = NoParameter],
                    NEW y, y = [x EXCEPT !.pps = NoParameter]
             PROVE  DrainingUnit(y) /\ y.ts = u.ts
  OBVIOUS
<1>1. DrainingUnit(w) /\ w.ts = u.ts
  BY DEF DrainingUnit
<1>2. DrainingUnit(x) /\ x.ts = u.ts
  BY <1>1 DEF DrainingUnit
<1> QED BY <1>1, <1>2 DEF DrainingUnit

\* A waiter spoils the unit in flight and changes nothing else.
LEMMA BeginsWait ==
  ASSUME NEW s, StreamTyped(s), NEW top, NEW r, r = BeginWait(s)
  PROVE  /\ StreamTyped(r) /\ r.pending = s.pending /\ Settled(r) = Settled(s)
         /\ Timely(s, top) => Timely(r, top)
<1>1. CASE s.draining = NoUnit
  BY <1>1 DEF BeginWait
<1>2. CASE s.draining # NoUnit
  <2> DEFINE u == s.draining
             v == [u EXCEPT !.invalid = TRUE, !.sps = NoParameter, !.pps = NoParameter]
  <2>1. DrainingUnit(u) /\ s.pending = NoUnit
    BY <1>2 DEF StreamTyped
  <2>2. DrainingUnit(v) /\ v.ts = u.ts
    <3> HIDE DEF u, v
    <3> QED BY <2>1, SpoiltUnit DEF v
  <2>3. r = [s EXCEPT !.draining = v]
    <3>1. r = [s EXCEPT !.draining.invalid = TRUE, !.draining.sps = NoParameter,
                        !.draining.pps = NoParameter]
      BY <1>2 DEF BeginWait
    <3>2. Shaped(s)
      BY DEF StreamTyped
    <3> QED BY <2>1, <3>1, <3>2 DEF Shaped, DrainingUnit
  <2> HIDE DEF v
  <2>4. /\ StreamTyped(r) /\ r.draining = v /\ r.pending = s.pending
        /\ r.completed = s.completed
    BY <2>1, <2>2, <2>3, SetDraining
  <2>5. v # NoUnit
    BY <2>2, UnitsAreUnits
  <2>6. Drained(r) = Drained(s) /\ Open(r) = Open(s)
    BY <1>2, <2>2, <2>4, <2>5 DEF Open, Filed, Drained
  <2>7. Past(r) = Past(s) /\ (Timely(s, top) => Timely(r, top))
    BY <2>4, <2>6, SameTimes
  <2> QED BY <2>4, <2>6, <2>7 DEF Settled
<1> QED BY <1>1, <1>2

\* The time limit may end the open unit; what it ends is over.
LEMMA Expires ==
  ASSUME NEW s, StreamTyped(s), NEW late, NEW top, NEW r, r = Expire(s, late)
  PROVE  /\ StreamTyped(r)
         /\ r.pending \in {s.pending, NoUnit} /\ r.draining \in {s.draining, NoUnit}
         /\ Timely(s, top) => /\ Timely(r, top)
                              /\ Known(s) \subseteq Known(r) /\ Settled(s) \subseteq Settled(r)
<1>1. CASE r = s
  BY <1>1
<1>2. CASE r = DiscardPending(s) /\ s.pending # NoUnit
  <2>1. s.draining = NoUnit
    BY <1>2 DEF StreamTyped
  <2>2. /\ StreamTyped(r) /\ r.pending = NoUnit /\ r.draining = s.draining
        /\ Filed(s) \subseteq Over(r)
        /\ Timely(s, top) => Timely(r, top) /\ Past(s) \subseteq Past(r)
    BY <1>2, Discards
  <2> QED BY <2>1, <2>2 DEF Known, Settled, Filed, Drained, Past
<1>3. CASE /\ s.pending = NoUnit /\ s.draining # NoUnit
           /\ r # s
  <2> DEFINE u == s.draining
             t == [s EXCEPT !.draining = NoUnit]
             over == Remember(t, u.ts, u.last)
  <2>1. u.ts \in Stamps /\ u.last \in SeqNos /\ u.last \in MaybeSeq
    BY <1>3 DEF StreamTyped, DrainingUnit, MaybeSeq
  <2>2. /\ StreamTyped(t) /\ t.pending = NoUnit /\ t.draining = NoUnit
        /\ t.completed = s.completed
    BY <1>3, SetDraining
  <2> HIDE DEF t
  <2>3. /\ StreamTyped(over) /\ over.pending = NoUnit /\ over.draining = NoUnit
        /\ u.ts \in Over(over)
        /\ Ready(t, u.ts, top) => Timely(over, top) /\ Past(t) \subseteq Past(over)
    BY ONLY <2>1, <2>2, Remembers
  <2>4. Timely(s, top) => Timely(over, top) /\ Past(s) \subseteq Past(over)
    <3>1. u.ts \in Open(s)
      BY <1>3 DEF Open, Drained
    <3>2. /\ Past(t) = Past(s) /\ Open(t) = {}
          /\ Timely(s, top) => Timely(t, top) /\ Due(t, u.ts, top)
      BY <2>2, <3>1, Alike
    <3> QED BY <2>3, <3>2 DEF Ready
  <2> HIDE DEF over
  <2>5. After(u.last) \in MaybeSeq
    BY <2>1, AnchorsAre DEF MaybeSeq
  <2>6. r = SetAnchor(over, u.ts, After(u.last)) \/ r = ClearAnchor(over)
    BY <1>3 DEF Expire, over, t
  <2>7. /\ StreamTyped(r) /\ r.pending = NoUnit /\ r.draining = NoUnit
        /\ r.completed = over.completed
    BY <2>3, <2>5, <2>6, Anchors
  <2>8. /\ Over(r) = Over(over) /\ Past(r) = Past(over)
        /\ Timely(over, top) => Timely(r, top)
    BY <2>3, <2>7, Alike
  <2>9. Filed(s) = {} /\ Drained(s) = {u.ts} /\ u.ts \in Past(r)
    BY <1>3, <2>3, <2>8 DEF Filed, Drained, Past
  <2> QED BY <1>3, <2>4, <2>7, <2>8, <2>9 DEF Known, Settled
<1>4. \/ r = s
      \/ r = DiscardPending(s) /\ s.pending # NoUnit
      \/ s.pending = NoUnit /\ s.draining # NoUnit /\ r # s
  BY DEF Expire
<1> QED BY <1>1, <1>2, <1>3, <1>4

\* A packet that carries nothing ends the open unit and its own.
LEMMA Poisons ==
  ASSUME NEW s, StreamTyped(s), NEW p \in Packets, NEW top,
         NEW r, r = PoisonPacket(s, p)
  PROVE  /\ StreamTyped(r) /\ r.pending \in {s.pending, NoUnit} /\ p.ts \in Settled(r)
         /\ Timely(s, top) /\ InTime(p, top)
            => /\ Timely(r, top)
               /\ Known(s) \subseteq Known(r) /\ Settled(s) \subseteq Settled(r)
<1>1. CASE Remembered(s, p.ts)
  <2>1. r = s
    BY <1>1 DEF PoisonPacket
  <2>2. p.ts \in Settled(s)
    BY <1>1, RememberedIsOver DEF Settled, Past
  <2> QED BY <2>1, <2>2
<1>2. CASE ~Remembered(s, p.ts)
  <2> DEFINE open == IF s.pending # NoUnit
                     THEN Remember(s, s.pending.ts, s.pending.frontier)
                     ELSE IF s.draining # NoUnit THEN Remember(s, s.draining.ts, s.draining.last)
                     ELSE s
             half == [open EXCEPT !.pending = NoUnit]
             shut == [half EXCEPT !.draining = NoUnit]
             frontier == IF p.form = "empty" THEN p.seq ELSE NoSeq
             over == Remember(shut, p.ts, frontier)
  <2>0. MaxDelay \in Nat /\ \A t \in Stamps : t <= t + MaxDelay
    BY VideoConstants, UnitsAreUnits DEF Stamps
  <2>1. /\ StreamTyped(open) /\ open.pending = s.pending /\ open.draining = s.draining
        /\ Timely(s, top) => Timely(open, top) /\ Known(s) \subseteq Past(open)
    <3>1. CASE s.pending # NoUnit
      <4>1. s.pending.ts \in Stamps /\ s.pending.frontier \in MaybeSeq /\ s.draining = NoUnit
        BY <3>1 DEF StreamTyped, PendingUnit
      <4>2. open = Remember(s, s.pending.ts, s.pending.frontier)
        BY <3>1
      <4> HIDE DEF open
      <4>3. /\ StreamTyped(open) /\ open.pending = s.pending /\ open.draining = s.draining
            /\ s.pending.ts \in Over(open)
            /\ Ready(s, s.pending.ts, top) => Timely(open, top) /\ Past(s) \subseteq Past(open)
        BY <4>1, <4>2, Remembers
      <4>4. Open(s) = {s.pending.ts}
        BY <3>1, <4>1 DEF Open, Filed, Drained
      <4>5. Timely(s, top) => Ready(s, s.pending.ts, top)
        BY <2>0, <4>1, <4>4 DEF Ready, Timely
      <4> QED BY <4>1, <4>3, <4>5 DEF Known, Settled, Filed, Drained, Past
    <3>2. CASE s.pending = NoUnit /\ s.draining # NoUnit
      <4>1. s.draining.ts \in Stamps /\ s.draining.last \in MaybeSeq
        BY <3>2 DEF StreamTyped, DrainingUnit, MaybeSeq
      <4>2. open = Remember(s, s.draining.ts, s.draining.last)
        BY <3>2
      <4> HIDE DEF open
      <4>3. /\ StreamTyped(open) /\ open.pending = s.pending /\ open.draining = s.draining
            /\ s.draining.ts \in Over(open)
            /\ Ready(s, s.draining.ts, top) => Timely(open, top) /\ Past(s) \subseteq Past(open)
        BY <4>1, <4>2, Remembers
      <4>4. Open(s) = {s.draining.ts}
        BY <3>2 DEF Open, Filed, Drained
      <4>5. Timely(s, top) => Ready(s, s.draining.ts, top)
        BY <2>0, <4>1, <4>4 DEF Ready, Timely
      <4> QED BY <3>2, <4>3, <4>5 DEF Known, Settled, Filed, Drained, Past
    <3>3. CASE s.pending = NoUnit /\ s.draining = NoUnit
      BY <3>3 DEF Known, Settled, Filed, Drained
    <3> QED BY <3>1, <3>2, <3>3
  <2> HIDE DEF open
  <2>2. /\ StreamTyped(half) /\ half.pending = NoUnit /\ half.completed = open.completed
    BY <2>1, SetPending
  <2>3. shut = [open EXCEPT !.pending = NoUnit, !.draining = NoUnit]
    BY <2>1 DEF StreamTyped, Shaped
  <2> HIDE DEF half
  <2>4. /\ StreamTyped(shut) /\ shut.pending = NoUnit /\ shut.draining = NoUnit
        /\ shut.completed = open.completed
    BY <2>2, SetDraining
  <2> HIDE DEF shut
  <2>5. p.ts \in Stamps /\ p.seq \in SeqNos /\ frontier \in MaybeSeq /\ After(p.seq) \in MaybeSeq
    BY AnchorsAre DEF Packets, MaybeSeq
  <2> HIDE DEF frontier
  <2>6. /\ StreamTyped(over) /\ over.pending = NoUnit /\ over.draining = NoUnit
        /\ p.ts \in Over(over)
        /\ Ready(shut, p.ts, top) => Timely(over, top) /\ Past(shut) \subseteq Past(over)
    BY <2>4, <2>5, Remembers
  <2>7. /\ Past(shut) = Past(open)
        /\ Timely(open, top) /\ InTime(p, top) => Ready(shut, p.ts, top)
    <3>1. /\ Past(shut) = Past(open) /\ Open(shut) = {}
          /\ Timely(open, top) => Timely(shut, top)
          /\ Due(shut, p.ts, top) <=> Due(open, p.ts, top)
      BY <2>4, Alike
    <3>2. Timely(open, top) /\ InTime(p, top) => Due(open, p.ts, top)
      BY <2>1, InTimeIsDue
    <3> QED BY <3>1, <3>2 DEF Ready
  <2> HIDE DEF over
  <2>8. r = SetAnchor(over, p.ts, After(p.seq)) \/ r = ClearAnchor(over)
    BY <1>2, <2>3 DEF PoisonPacket, over, frontier, open
  <2>9. /\ StreamTyped(r) /\ r.pending = NoUnit /\ r.draining = NoUnit
        /\ r.completed = over.completed
    BY <2>5, <2>6, <2>8, Anchors
  <2>10. Over(r) = Over(over) /\ Past(r) = Past(over) /\ (Timely(over, top) => Timely(r, top))
    BY <2>6, <2>9, Alike
  <2>11. p.ts \in Past(r) /\ Past(s) \subseteq Known(s) /\ Settled(s) \subseteq Known(s)
    BY <2>6, <2>10 DEF Past, Known, Settled
  <2> QED BY <2>1, <2>6, <2>7, <2>9, <2>10, <2>11 DEF Known, Settled
<1> QED BY <1>1, <1>2

\* While nobody waits, a packet leaves no pending unit and settles its own.
LEMMA Drains ==
  ASSUME NEW s, StreamTyped(s), NEW p \in Packets, NEW late, NEW top,
         NEW r, r = Drain(s, p, late)
  PROVE  /\ StreamTyped(r) /\ (s.pending = NoUnit => r.pending = NoUnit)
         /\ p.ts \in Known(r)
         /\ Timely(s, top) /\ InTime(p, top) => Timely(r, top) /\ Known(s) \subseteq Known(r)
<1> DEFINE now == Expire(s, late)
           dropped == DiscardPending(now)
<1>1. /\ StreamTyped(now) /\ now.pending \in {s.pending, NoUnit}
      /\ Timely(s, top) => Timely(now, top) /\ Known(s) \subseteq Known(now)
  BY Expires
<1> HIDE DEF now
<1>2. CASE p.form # "ok"
  <2>1. r = PoisonPacket(now, p)
    BY <1>2 DEF Drain, now
  <2>2. /\ StreamTyped(r) /\ r.pending \in {now.pending, NoUnit} /\ p.ts \in Settled(r)
        /\ Timely(now, top) /\ InTime(p, top) => Timely(r, top) /\ Known(now) \subseteq Known(r)
    BY <1>1, <2>1, Poisons
  <2> QED BY <1>1, <2>2 DEF Known
<1>3. CASE p.form = "ok"
  <2>1. r = DrainPacket(dropped, p)
    BY <1>3 DEF Drain, now
  <2>2. /\ StreamTyped(dropped) /\ dropped.pending = NoUnit /\ dropped.draining = now.draining
        /\ Filed(now) \subseteq Over(dropped)
        /\ Timely(now, top) => Timely(dropped, top) /\ Past(now) \subseteq Past(dropped)
    BY <1>1, Discards
  <2> HIDE DEF dropped
  <2>3. Timely(now, top) => Timely(dropped, top) /\ Known(now) \subseteq Settled(dropped)
    BY <2>2 DEF Known, Settled, Drained, Past
  <2>4. /\ StreamTyped(r) /\ r.pending = NoUnit /\ p.ts \in Settled(r)
        /\ Timely(dropped, top) /\ InTime(p, top)
           => Timely(r, top) /\ Settled(dropped) \subseteq Settled(r)
    BY <2>1, <2>2, DrainsPacket
  <2> QED BY <1>1, <2>3, <2>4 DEF Known
<1> QED BY <1>2, <1>3

-----------------------------------------------------------------------------
(* The pending unit                                                        *)

\* The distances before a marker tell the sequence numbers apart.
LEMMA MinusTwice ==
  ASSUME NEW m \in SeqNos, NEW q \in SeqNos
  PROVE  Minus(m, q) \in SeqNos /\ Minus(m, Minus(m, q)) = q
<1>1. SeqSpace \in Nat \ {0}
  BY StreamConstants
<1>2. CASE q <= m
  <2>1. m - q \in SeqNos /\ Minus(m, q) = m - q
    BY <1>1, <1>2 DEF Minus, SeqNos
  <2>2. m - (m - q) = q /\ q % SeqSpace = q
    BY <1>1 DEF SeqNos
  <2> QED BY <2>1, <2>2 DEF Minus
<1>3. CASE q > m
  <2>1. m - q + SeqSpace \in SeqNos /\ Minus(m, q) = m - q + SeqSpace
    BY <1>1, <1>3 DEF Minus, SeqNos
  <2>2. m - (m - q + SeqSpace) = q - SeqSpace /\ (q - SeqSpace) % SeqSpace = q
    BY <1>1 DEF SeqNos
  <2> QED BY <2>1, <2>2 DEF Minus
<1>4. q <= m \/ q > m
  BY DEF SeqNos
<1> QED BY <1>2, <1>3, <1>4

\* A complete unit that is anchored has the packet it had to begin with, and
\* every packet between its first and its marker.
LEMMA CompleteIsRun ==
  ASSUME NEW u, PendingUnit(u), Complete(u), u.expected # NoSeq
  PROVE  LET n == Cardinality(DOMAIN u.packets)
         IN  /\ u.expected \in DOMAIN u.packets /\ n \in Nat \ {0}
             /\ \A d \in 0..(n - 1) : Minus(u.marker, d) \in DOMAIN u.packets
<1> DEFINE D == DOMAIN u.packets
           n == Cardinality(D)
           E == D \cup {u.expected}
           far(q) == Minus(u.marker, q)
           g == [q \in E |-> far(q)]
<1>1. D \subseteq SeqNos /\ u.expected \in SeqNos /\ u.marker \in SeqNos
  BY DEF PendingUnit, PacketsOf, MaybeSeq, Complete
<1>2. Distances(u) = 0..(n - 1)
  BY DEF Complete
<1>3. Distances(u) = {far(q) : q \in E}
  BY <1>1, UnitsAreUnits DEF Distances
<1>4. IsFiniteSet(SeqNos)
  <2>1. 0 \in Int /\ SeqSpace - 1 \in Int
    BY StreamConstants
  <2> QED BY ONLY <2>1, FS_Interval DEF SeqNos
<1>5. IsFiniteSet(D) /\ n \in Nat
  <2>1. IsFiniteSet(D)
    BY <1>1, <1>4, FS_Subset
  <2> QED BY <2>1, FS_CardinalityType
<1>6. IsFiniteSet(E) /\ Cardinality(E) = IF u.expected \in D THEN n ELSE n + 1
  BY <1>5, FS_AddElement
<1>7. \A q \in E : far(q) \in SeqNos /\ Minus(u.marker, far(q)) = q
  <2> TAKE q \in E
  <2>1. q \in SeqNos
    BY <1>1
  <2> QED BY <1>1, <2>1, MinusTwice
<1> HIDE DEF D, E, far, n
<1>8. g \in Injection(E, 0..(n - 1))
  <2>1. \A q \in E : far(q) \in 0..(n - 1)
    BY <1>2, <1>3
  <2>2. \A a, b \in E : far(a) = far(b) => a = b
    BY <1>7
  <2> QED BY <2>1, <2>2 DEF Injection, IsInjective
<1>9. IsFiniteSet(0..(n - 1)) /\ Cardinality(0..(n - 1)) = n
  <2>1. IsFiniteSet(0..(n - 1)) /\ Cardinality(0..(n - 1)) = IF 0 > n - 1 THEN 0 ELSE n - 1 - 0 + 1
    <3>1. 0 \in Int /\ n - 1 \in Int
      BY <1>5
    <3> QED BY ONLY <3>1, FS_Interval
  <2>2. (IF 0 > n - 1 THEN 0 ELSE n - 1 - 0 + 1) = n
    BY <1>5
  <2> QED BY <2>1, <2>2
<1> HIDE DEF g
<1>10. Cardinality(E) <= n
  BY <1>8, <1>9, FS_Injection
<1>11. u.expected \in D
  BY <1>5, <1>6, <1>10
<1>12. n # 0
  BY <1>5, <1>11, FS_EmptySet DEF n
<1>13. ASSUME NEW d \in 0..(n - 1) PROVE Minus(u.marker, d) \in D
  <2>1. PICK q \in E : d = far(q)
    BY <1>2, <1>3
  <2>2. Minus(u.marker, d) = q
    BY <1>7, <2>1
  <2>3. E = D
    BY <1>11 DEF E
  <2> QED BY <2>1, <2>2, <2>3
<1> QED BY <1>5, <1>11, <1>12, <1>13 DEF D, n

\* So its packets, in order, are packets of the unit.
LEMMA OrderedAreOwn ==
  ASSUME NEW u, PendingUnit(u), Complete(u), u.expected # NoSeq
  PROVE  OrderedPackets(u)[1].ts = u.ts
<1> DEFINE n == Cardinality(DOMAIN u.packets)
<1>1. n \in Nat \ {0} /\ \A d \in 0..(n - 1) : Minus(u.marker, d) \in DOMAIN u.packets
  BY CompleteIsRun
<1> HIDE DEF n
<1>2. OrderedPackets(u) = [i \in 1..n |-> u.packets[Minus(u.marker, n - i)]]
  BY DEF OrderedPackets, n
<1>3. 1 \in 1..n /\ n - 1 \in 0..(n - 1)
  BY <1>1
<1>4. OrderedPackets(u)[1] = u.packets[Minus(u.marker, n - 1)]
  BY <1>2, <1>3
<1>5. Minus(u.marker, n - 1) \in DOMAIN u.packets
  BY <1>1, <1>3
<1> QED BY <1>4, <1>5 DEF PendingUnit, PacketsOf

\* A unit that begins where the anchor says.
LEMMA NewUnit ==
  ASSUME NEW s, StreamTyped(s), NEW p \in Packets, NEW number
  PROVE  LET u == NewPending(s, p, number)
         IN  PendingUnit(u) /\ u.ts = p.ts
<1>1. p.ts \in Stamps /\ s.anchor.next \in MaybeSeq /\ NoSeq \in MaybeSeq
  BY DEF StreamTyped, Anchor, Packets, MaybeSeq
<1>2. PacketsOf(<<>>, p.ts)
  BY DEF PacketsOf
<1>3. NewPending(s, p, number) =
        [ts |-> p.ts, packets |-> <<>>, expected |-> s.anchor.next,
         reorderNext |-> s.anchor.next, reorderBase |-> 0, frontier |-> NoSeq,
         marker |-> NoSeq, explicit |-> FALSE, generation |-> number]
  BY DEF NewPending
<1> QED BY <1>1, <1>2, <1>3 DEF PendingUnit

\* Observing a sequence number or a marker keeps the unit.
LEMMA Observes ==
  ASSUME NEW u, PendingUnit(u), NEW p \in Packets
  PROVE  /\ LET r == ObserveSequence(u, p.seq)
            IN  PendingUnit(r) /\ r.ts = u.ts /\ r.packets = u.packets
         /\ LET r == SetMarker(u, p)
            IN  PendingUnit(r) /\ r.ts = u.ts
<1>1. p.seq \in MaybeSeq
  BY DEF Packets, MaybeSeq
<1>2. ASSUME NEW f \in MaybeSeq, NEW r, r = [u EXCEPT !.frontier = f]
      PROVE  PendingUnit(r) /\ r.ts = u.ts /\ r.packets = u.packets
  BY <1>2 DEF PendingUnit
<1>3. ASSUME NEW r, r = [u EXCEPT !.marker = p.seq, !.explicit = TRUE]
      PROVE  PendingUnit(r) /\ r.ts = u.ts
  BY <1>1, <1>3 DEF PendingUnit
<1>4. LET r == ObserveSequence(u, p.seq)
      IN  PendingUnit(r) /\ r.ts = u.ts /\ r.packets = u.packets
  <2> DEFINE f == IF u.frontier = NoSeq \/ Ahead(p.seq, u.frontier) THEN p.seq ELSE u.frontier
  <2>1. f \in MaybeSeq
    BY <1>1 DEF PendingUnit
  <2>2. ObserveSequence(u, p.seq) = [u EXCEPT !.frontier = f]
    BY DEF ObserveSequence
  <2> HIDE DEF f
  <2> QED BY <1>2, <2>1, <2>2
<1>5. LET r == SetMarker(u, p) IN PendingUnit(r) /\ r.ts = u.ts
  <2>1. CASE p.marker
    <3>1. SetMarker(u, p) = [u EXCEPT !.marker = p.seq, !.explicit = TRUE]
      BY <2>1 DEF SetMarker
    <3> QED BY <1>3, <3>1
  <2>2. CASE ~p.marker
    BY <2>2 DEF SetMarker
  <2> QED BY <2>1, <2>2
<1> QED BY <1>4, <1>5

\* A packet is filed with those of its unit.
LEMMA Files ==
  ASSUME NEW u, PendingUnit(u), NEW p \in Packets, p.ts = u.ts
  PROVE  LET r == AddPacket(u, p)
         IN  PendingUnit(r) /\ r.ts = u.ts
<1> DEFINE packets == [q \in DOMAIN u.packets \cup {p.seq} |->
                         IF q = p.seq THEN p ELSE u.packets[q]]
           next == FirstMissing(packets, WindowStart(u, p.seq))
           seenUnit == ObserveSequence(u, p.seq)
           base == IF u.expected = NoSeq THEN Minus(next, 1) ELSE seenUnit.reorderBase
           r == AddPacket(u, p)
<1>1. PacketsOf(packets, u.ts)
  <2>1. PacketsOf(u.packets, u.ts) /\ p.seq \in SeqNos
    BY DEF PendingUnit, Packets
  <2> QED BY <2>1 DEF PacketsOf
<1>2. PendingUnit(seenUnit) /\ seenUnit.ts = u.ts
  BY Observes
<1>3. r = [seenUnit EXCEPT !.packets = packets, !.reorderNext = next, !.reorderBase = base]
  <2> HIDE DEF packets
  <2> QED BY <1>2 DEF AddPacket, packets, PendingUnit
<1> HIDE DEF packets, next, base, seenUnit, r
<1>4. r = [ts |-> seenUnit.ts, packets |-> packets, expected |-> seenUnit.expected,
           reorderNext |-> next, reorderBase |-> base,
           frontier |-> seenUnit.frontier, marker |-> seenUnit.marker,
           explicit |-> seenUnit.explicit, generation |-> seenUnit.generation]
  BY <1>2, <1>3 DEF PendingUnit
<1>5. PendingUnit(r) /\ r.ts = u.ts
  BY <1>1, <1>2, <1>4 DEF PendingUnit
<1> QED BY <1>5 DEF r

\* The pending unit ends, and is over; only it can be the frame.
LEMMA FinishesPending ==
  ASSUME NEW s, StreamTyped(s), s.draining = NoUnit, NEW u, PendingUnit(u), Complete(u),
         NEW unit, NEW next \in SeqNos, NEW mark, NEW wanted,
         NEW top, NEW r, r = FinishPending(s, u, unit, next, mark, wanted)
  PROVE  /\ StreamTyped(r.stream) /\ r.stream.pending = NoUnit /\ r.stream.draining = NoUnit
         /\ u.ts \in Over(r.stream)
         /\ Timely(s, top) /\ Due(s, u.ts, top)
            => Timely(r.stream, top) /\ Past(s) \subseteq Past(r.stream)
         /\ r.frame = NoFrame \/ r.frame.ts = u.ts
<1> DEFINE t == [s EXCEPT !.pending = NoUnit]
           anchored == SetAnchor(t, u.ts, next)
           over == Remember(anchored, u.ts, u.frontier)
           packets == OrderedPackets(u)
           taken == Accept(over, unit, packets, wanted)
<1>1. u.ts \in Stamps /\ u.frontier \in MaybeSeq /\ next \in MaybeSeq
  BY DEF PendingUnit, MaybeSeq
<1>2. /\ StreamTyped(t) /\ t.pending = NoUnit /\ t.draining = NoUnit
      /\ t.completed = s.completed
  BY SetPending
<1> HIDE DEF t
<1>3. /\ StreamTyped(anchored) /\ anchored.pending = NoUnit /\ anchored.draining = NoUnit
      /\ anchored.completed = s.completed
  BY <1>1, <1>2, Anchors
<1> HIDE DEF anchored
<1>4. /\ StreamTyped(over) /\ over.pending = NoUnit /\ over.draining = NoUnit
      /\ u.ts \in Over(over)
      /\ Ready(anchored, u.ts, top) => Timely(over, top) /\ Past(anchored) \subseteq Past(over)
  BY ONLY <1>1, <1>3, Remembers
<1>5. Timely(s, top) /\ Due(s, u.ts, top) => Timely(over, top) /\ Past(s) \subseteq Past(over)
  <2>1. /\ Past(anchored) = Past(s) /\ Open(anchored) = {}
        /\ Timely(s, top) => Timely(anchored, top)
        /\ Due(anchored, u.ts, top) <=> Due(s, u.ts, top)
    BY <1>3, Alike
  <2> QED BY <1>4, <2>1 DEF Ready
<1> HIDE DEF over
<1>6. \/ r.stream = over /\ r.frame = NoFrame
      \/ u.expected # NoSeq /\ r = taken
  BY DEF FinishPending, taken, over, anchored, t
<1> HIDE DEF packets
<1>7. /\ StreamTyped(taken.stream) /\ taken.stream.pending = NoUnit
      /\ taken.stream.draining = NoUnit /\ taken.stream.completed = over.completed
      /\ taken.frame = NoFrame \/ taken.frame.ts = packets[1].ts
  BY <1>4, Accepts
<1> HIDE DEF taken
<1>8. /\ Over(taken.stream) = Over(over) /\ Past(taken.stream) = Past(over)
      /\ Timely(over, top) => Timely(taken.stream, top)
  BY <1>4, <1>7, Alike
<1>9. u.expected # NoSeq => packets[1].ts = u.ts
  BY OrderedAreOwn DEF packets
<1>10. CASE r.stream = over /\ r.frame = NoFrame
  BY <1>4, <1>5, <1>10
<1>11. CASE u.expected # NoSeq /\ r = taken
  BY <1>4, <1>5, <1>7, <1>8, <1>9, <1>11
<1> QED BY <1>6, <1>10, <1>11

\* A unit that is given and dropped.
LEMMA Drops ==
  ASSUME NEW s, StreamTyped(s), s.draining = NoUnit, NEW v, PendingUnit(v),
         NEW top, NEW r, r = DiscardPending([s EXCEPT !.pending = v])
  PROVE  /\ StreamTyped(r) /\ r.pending = NoUnit /\ r.draining = NoUnit
         /\ v.ts \in Over(r)
         /\ Timely(s, top) /\ Due(s, v.ts, top) => Timely(r, top) /\ Past(s) \subseteq Past(r)
<1> DEFINE t == [s EXCEPT !.pending = v]
<1>1. /\ StreamTyped(t) /\ t.pending = v /\ t.draining = NoUnit /\ t.completed = s.completed
  BY SetPending
<1> HIDE DEF t
<1>2. /\ StreamTyped(r) /\ r.pending = NoUnit /\ r.draining = NoUnit
      /\ Filed(t) \subseteq Over(r)
      /\ Timely(t, top) => Timely(r, top) /\ Past(t) \subseteq Past(r)
  BY <1>1, Discards DEF t
<1>3. Filed(t) = {v.ts} /\ Open(t) = {v.ts}
  BY <1>1, UnitsAreUnits DEF Filed, Open, Drained
<1>4. Past(t) = Past(s) /\ (Timely(s, top) /\ Due(s, v.ts, top) => Timely(t, top))
  BY <1>1, <1>3, SameTimes
<1> QED BY <1>2, <1>3, <1>4

\* A unit may be given its end and the packets that go with it.
LEMMA Closed ==
  ASSUME NEW v, PendingUnit(v), NEW last \in MaybeSeq, NEW packets, PacketsOf(packets, v.ts)
  PROVE  LET u == [v EXCEPT !.marker = last, !.packets = packets]
         IN  PendingUnit(u) /\ u.ts = v.ts
<1> SUFFICES ASSUME NEW w, w = [v EXCEPT !.marker = last],
                    NEW u, u = [w EXCEPT !.packets = packets]
             PROVE  PendingUnit(u) /\ u.ts = v.ts
  OBVIOUS
<1>1. PendingUnit(w) /\ w.ts = v.ts
  BY DEF PendingUnit
<1> QED BY <1>1 DEF PendingUnit

\* A packet of another unit ends the pending one.
LEMMA Turns ==
  ASSUME NEW s, StreamTyped(s), s.pending # NoUnit, NEW next \in SeqNos, NEW mark, NEW wanted,
         NEW top, NEW r, r = FinishAtTimestampTransition(s, next, mark, wanted)
  PROVE  /\ StreamTyped(r.stream) /\ r.stream.pending = NoUnit /\ r.stream.draining = NoUnit
         /\ Known(s) = Past(s) \cup {s.pending.ts}
         /\ s.pending.ts \in Over(r.stream)
         /\ Timely(s, top) => Timely(r.stream, top) /\ Past(s) \subseteq Past(r.stream)
         /\ r.frame = NoFrame \/ r.frame.ts = s.pending.ts
<1> DEFINE v == s.pending
           last == Minus(next, 1)
           packets == [q \in DOMAIN v.packets |->
                         IF q = last THEN [v.packets[q] EXCEPT !.marker = TRUE] ELSE v.packets[q]]
           u == [v EXCEPT !.marker = last, !.packets = packets]
           unit == Depacketize(OrderedPackets(u))
<1>1. PendingUnit(v) /\ s.draining = NoUnit
  BY DEF StreamTyped
<1>2. Known(s) = Past(s) \cup {s.pending.ts} /\ (Timely(s, top) => Due(s, v.ts, top))
  BY <1>1 DEF Known, Settled, Drained, Filed, Open, Timely
<1>3. last \in MaybeSeq
  <2>1. next - 1 \in Int
    BY DEF SeqNos
  <2> QED BY <2>1, ModRange DEF Minus, MaybeSeq
<1>4. PacketsOf(packets, v.ts)
  <2> HIDE DEF last
  <2>1. PacketsOf(v.packets, v.ts)
    BY <1>1 DEF PendingUnit
  <2>2. ASSUME NEW q \in DOMAIN v.packets
        PROVE  packets[q] \in Packets /\ packets[q].ts = v.ts
    <3>1. v.packets[q] \in Packets /\ v.packets[q].ts = v.ts
      BY <2>1 DEF PacketsOf
    <3>2. [v.packets[q] EXCEPT !.marker = TRUE] \in Packets
      BY <3>1 DEF Packets
    <3>3. [v.packets[q] EXCEPT !.marker = TRUE].ts = v.ts
      BY <3>1 DEF Packets
    <3> QED BY <3>1, <3>2, <3>3
  <2>3. DOMAIN packets = DOMAIN v.packets
    OBVIOUS
  <2>4. packets = [q \in DOMAIN packets |-> packets[q]]
    OBVIOUS
  <2>5. DOMAIN v.packets \subseteq SeqNos
    BY <2>1 DEF PacketsOf
  <2> HIDE DEF packets, v
  <2> QED BY <2>2, <2>3, <2>4, <2>5 DEF PacketsOf
<1> HIDE DEF packets, last
<1>5. PendingUnit(u) /\ u.ts = v.ts
  <2> HIDE DEF v
  <2> QED BY <1>1, <1>3, <1>4, Closed
<1>6. \/ r.stream = DiscardPending(s) /\ r.frame = NoFrame
      \/ r.stream = DiscardPending([s EXCEPT !.pending = u]) /\ r.frame = NoFrame
      \/ Complete(u) /\ r = FinishPending(s, u, unit, next, mark, wanted)
  BY DEF FinishAtTimestampTransition, packets, last
<1> HIDE DEF u, unit
<1>7. CASE r.stream = DiscardPending(s) /\ r.frame = NoFrame
  <2>1. Filed(s) = {s.pending.ts}
    BY DEF Filed
  <2> QED BY <1>1, <1>2, <1>7, <2>1, Discards
<1>8. CASE r.stream = DiscardPending([s EXCEPT !.pending = u]) /\ r.frame = NoFrame
  BY <1>1, <1>2, <1>5, <1>8, Drops
<1>9. CASE Complete(u) /\ r = FinishPending(s, u, unit, next, mark, wanted)
  BY <1>1, <1>2, <1>5, <1>9, FinishesPending
<1> QED BY <1>6, <1>7, <1>8, <1>9

\* A packet is filed with its unit, and only that unit can be the frame.
LEMMA Pends ==
  ASSUME NEW s, StreamTyped(s), s.draining = NoUnit, NEW p \in Packets,
         Filed(s) \subseteq {p.ts}, NEW number, NEW mark, NEW wanted,
         NEW top, NEW r, r = PendPacket(s, p, number, mark, wanted)
  PROVE  /\ StreamTyped(r.stream) /\ Filed(r.stream) \subseteq {p.ts} /\ r.stream.draining = NoUnit
         /\ p.ts \in Known(r.stream)
         /\ Timely(s, top) /\ InTime(p, top)
            => Timely(r.stream, top) /\ Past(s) \subseteq Past(r.stream)
         /\ r.frame = NoFrame \/ r.frame.ts = p.ts
<1> DEFINE u == IF s.pending = NoUnit THEN NewPending(s, p, number) ELSE s.pending
           added == AddPacket(u, p)
           ended == SetMarker(added, p)
           unit == Depacketize(OrderedPackets(ended))
           next == After(ended.marker)
           Kept == Timely(s, top) /\ InTime(p, top)
                   => Timely(r.stream, top) /\ Past(s) \subseteq Past(r.stream)
           Good(v) == PendingUnit(v) /\ v.ts = p.ts
           Held(v) == r.stream = [s EXCEPT !.pending = v] /\ r.frame = NoFrame
           Dropped(v) == r.stream = DiscardPending([s EXCEPT !.pending = v]) /\ r.frame = NoFrame
<1>1. Good(u)
  <2>1. CASE s.pending = NoUnit
    BY <2>1, NewUnit
  <2>2. CASE s.pending # NoUnit
    BY <2>2 DEF StreamTyped, Filed
  <2> QED BY <2>1, <2>2
<1> HIDE DEF u
<1>2. Good(ObserveSequence(u, p.seq)) /\ Good(SetMarker(ObserveSequence(u, p.seq), p))
  BY <1>1, Observes
<1>3. Good(added)
  BY <1>1, Files
<1> HIDE DEF added
<1>4. Good(ended)
  BY <1>3, Observes
<1> HIDE DEF ended
<1>9. Timely(s, top) /\ InTime(p, top) => Due(s, p.ts, top)
  BY InTimeIsDue
<1>5. ASSUME NEW v, Good(v), Held(v)
      PROVE  /\ StreamTyped(r.stream) /\ Filed(r.stream) \subseteq {p.ts}
             /\ r.stream.draining = NoUnit
             /\ p.ts \in Known(r.stream) /\ Kept
             /\ r.frame = NoFrame
  <2> DEFINE t == r.stream
  <2>1. StreamTyped(t) /\ t.pending = v /\ t.draining = NoUnit /\ t.completed = s.completed
    BY <1>5, SetPending
  <2> HIDE DEF t
  <2>2. v # NoUnit
    BY <1>5, UnitsAreUnits
  <2>3. Filed(t) = {p.ts} /\ Open(t) = {p.ts}
    BY <1>5, <2>1, <2>2 DEF Filed, Open, Drained
  <2>4. r.frame = NoFrame
    BY <1>5
  <2>5. Past(t) = Past(s) /\ (Timely(s, top) /\ InTime(p, top) => Timely(t, top))
    BY <1>9, <2>1, <2>3, SameTimes
  <2> QED BY <2>1, <2>3, <2>4, <2>5 DEF Known, t
<1>6. ASSUME NEW v, Good(v), Dropped(v)
      PROVE  /\ StreamTyped(r.stream) /\ Filed(r.stream) \subseteq {p.ts}
             /\ r.stream.draining = NoUnit
             /\ p.ts \in Known(r.stream) /\ Kept
             /\ r.frame = NoFrame
  <2>1. /\ StreamTyped(r.stream) /\ r.stream.pending = NoUnit /\ r.stream.draining = NoUnit
        /\ v.ts \in Over(r.stream)
        /\ Timely(s, top) /\ Due(s, v.ts, top)
           => Timely(r.stream, top) /\ Past(s) \subseteq Past(r.stream)
    BY <1>6, Drops
  <2> QED BY <1>6, <1>9, <2>1 DEF Filed, Known, Settled, Past
<1>7. ASSUME Complete(ended), r = FinishPending(s, ended, unit, next, mark, wanted)
      PROVE  /\ StreamTyped(r.stream) /\ Filed(r.stream) \subseteq {p.ts}
             /\ r.stream.draining = NoUnit
             /\ p.ts \in Known(r.stream) /\ Kept
             /\ r.frame = NoFrame \/ r.frame.ts = p.ts
  <2>1. next \in SeqNos
    <3>1. ended.marker \in SeqNos
      BY <1>4, <1>7 DEF PendingUnit, Complete, MaybeSeq
    <3> QED BY <3>1, AnchorsAre
  <2> HIDE DEF next, unit
  <2>2. /\ StreamTyped(r.stream) /\ r.stream.pending = NoUnit /\ r.stream.draining = NoUnit
        /\ ended.ts \in Over(r.stream)
        /\ Timely(s, top) /\ Due(s, ended.ts, top)
           => Timely(r.stream, top) /\ Past(s) \subseteq Past(r.stream)
        /\ r.frame = NoFrame \/ r.frame.ts = ended.ts
    <3>1. PendingUnit(ended)
      BY <1>4
    <3> HIDE DEF Good
    <3> QED BY <3>1, <1>7, <2>1, FinishesPending
  <2> QED BY <1>4, <1>9, <2>2 DEF Filed, Known, Settled, Past
<1>8. \/ Held(u) \/ Dropped(u) \/ Dropped(SetMarker(ObserveSequence(u, p.seq), p))
      \/ Dropped(ObserveSequence(u, p.seq)) \/ Dropped(added) \/ Dropped(ended) \/ Held(ended)
      \/ Complete(ended) /\ r = FinishPending(s, ended, unit, next, mark, wanted)
  BY DEF PendPacket, u, added, ended
<1> HIDE DEF Good, Held, Dropped, next, unit
<1> QED BY <1>1, <1>2, <1>3, <1>4, <1>5, <1>6, <1>7, <1>8

\* What a packet does while a capture waits: nothing that is known is lost, what
\* gives no frame any more never does, and a frame is the unit that was pending
\* or the packet's own, if that one can still be given.
LEMMA Pushes ==
  ASSUME NEW s, StreamTyped(s), NEW p \in Packets, NEW number, NEW mark, NEW late,
         NEW top, NEW r, r = Push(s, p, number, mark, late)
  PROVE  /\ StreamTyped(r.stream) /\ p.ts \in Known(r.stream)
         /\ Timely(s, top) /\ InTime(p, top)
            => /\ Timely(r.stream, top)
               /\ Known(s) \subseteq Known(r.stream)
               /\ Settled(s) \subseteq Settled(r.stream)
               /\ Filed(r.stream) \subseteq Filed(s) \cup ({p.ts} \ Settled(s))
               /\ \/ r.frame = NoFrame
                  \/ r.frame.ts \in Filed(s) \cup ({p.ts} \ Settled(s))
<1> DEFINE now == Expire(s, late)
           after == LeaveDrainUnit(now, p)
           start == [stream |-> after, frame |-> NoFrame]
           turn == IF after.pending # NoUnit /\ after.pending.ts # p.ts
                   THEN FinishAtTimestampTransition(after, p.seq, mark, TRUE) ELSE start
           one == PendPacket(turn.stream, p, number, mark, TRUE)
           two == PendPacket(turn.stream, p, number, mark, FALSE)
<1>1. /\ StreamTyped(now) /\ now.pending \in {s.pending, NoUnit}
      /\ Timely(s, top) => /\ Timely(now, top)
                           /\ Known(s) \subseteq Known(now) /\ Settled(s) \subseteq Settled(now)
  BY Expires
<1>2. p.seq \in SeqNos
  BY DEF Packets
<1> HIDE DEF now
<1>3. Filed(now) \subseteq Filed(s)
  BY <1>1 DEF Filed
<1>4. CASE p.form # "ok"
  <2>1. r.stream = PoisonPacket(now, p) /\ r.frame = NoFrame
    BY <1>4 DEF Push, now
  <2>2. /\ StreamTyped(r.stream) /\ r.stream.pending \in {now.pending, NoUnit}
        /\ p.ts \in Settled(r.stream)
        /\ Timely(now, top) /\ InTime(p, top)
           => /\ Timely(r.stream, top)
              /\ Known(now) \subseteq Known(r.stream) /\ Settled(now) \subseteq Settled(r.stream)
    BY <1>1, <2>1, Poisons
  <2>3. Filed(r.stream) \subseteq Filed(now)
    BY <2>2 DEF Filed
  <2> QED BY <1>1, <1>3, <2>1, <2>2, <2>3 DEF Known
<1>5. CASE p.form = "ok" /\ Remembered(now, p.ts)
  <2>1. r.stream = RejectCompleted(now, p) /\ r.frame = NoFrame
    BY <1>5 DEF Push, now
  <2>2. /\ StreamTyped(r.stream) /\ Over(r.stream) = Over(now)
        /\ Filed(r.stream) = Filed(now) /\ Drained(r.stream) = Drained(now)
        /\ Past(r.stream) = Past(now) /\ (Timely(now, top) => Timely(r.stream, top))
    BY <1>1, <1>5, <2>1, Rejects
  <2>3. p.ts \in Over(now)
    BY <1>5, RememberedIsOver
  <2> QED BY <1>1, <1>3, <2>1, <2>2, <2>3 DEF Known, Settled, Past
<1>6. CASE p.form = "ok" /\ ~Remembered(now, p.ts) /\ now.draining.ts = p.ts
  <2>1. r.stream = DrainPacket(now, p) /\ r.frame = NoFrame
    BY <1>6 DEF Push, now
  <2>2. now.draining # NoUnit
    <3>1. p.ts \in Stamps /\ NoUnit.ts = -1
      BY DEF Packets, NoUnit
    <3> QED BY <1>6, <3>1, UnitsAreUnits
  <2>3. now.pending = NoUnit
    BY <1>1, <2>2 DEF StreamTyped
  <2>4. /\ StreamTyped(r.stream) /\ r.stream.pending = NoUnit /\ p.ts \in Settled(r.stream)
        /\ Timely(now, top) /\ InTime(p, top)
           => Timely(r.stream, top) /\ Settled(now) \subseteq Settled(r.stream)
    BY <1>1, <2>1, <2>3, DrainsPacket
  <2> QED BY <1>1, <2>1, <2>3, <2>4 DEF Known, Filed
<1>7. CASE p.form = "ok" /\ ~Remembered(now, p.ts) /\ now.draining.ts # p.ts
  <2>1. Timely(now, top) /\ InTime(p, top) => p.ts \notin Settled(now)
    <3>1. p.ts \notin Over(now) /\ p.ts \notin Drained(now)
      BY <1>7, RememberedIsOver DEF Drained
    <3> QED BY <1>1, <3>1, InTimeIsDue DEF Settled
  <2>2. /\ StreamTyped(after) /\ after.draining = NoUnit /\ Filed(after) \subseteq Filed(now)
        /\ Timely(now, top) => /\ Timely(after, top) /\ Settled(now) \subseteq Past(after)
                               /\ Known(now) \subseteq Known(after)
    <3>1. CASE now.draining = NoUnit
      <4>1. after = now
        BY <3>1 DEF LeaveDrainUnit
      <4> HIDE DEF after
      <4> QED BY <1>1, <3>1, <4>1 DEF Settled, Drained
    <3>2. CASE now.draining # NoUnit
      <4>1. after = FinishDrainUnit(now, p.seq, FALSE)
        BY <3>2 DEF LeaveDrainUnit
      <4> HIDE DEF after
      <4>2. /\ StreamTyped(after) /\ after.pending = NoUnit /\ after.draining = NoUnit
            /\ now.draining.ts \in Over(after)
            /\ Timely(now, top) => Timely(after, top) /\ Past(now) \subseteq Past(after)
        BY <1>1, <1>2, <3>2, <4>1, FinishesDraining
      <4>3. now.pending = NoUnit
        BY <1>1, <3>2 DEF StreamTyped
      <4> QED BY <4>2, <4>3 DEF Settled, Drained, Known, Filed, Past
    <3> QED BY <3>1, <3>2
  <2> HIDE DEF after
  <2>3. /\ StreamTyped(turn.stream) /\ turn.stream.draining = NoUnit
        /\ Filed(turn.stream) \subseteq {p.ts}
        /\ turn.frame = NoFrame \/ turn.frame.ts \in Filed(after)
        /\ Timely(after, top) => /\ Timely(turn.stream, top)
                                 /\ Known(after) \subseteq Past(turn.stream) \cup {p.ts}
                                 /\ Past(after) \subseteq Past(turn.stream)
    <3>1. CASE after.pending # NoUnit /\ after.pending.ts # p.ts
      <4> DEFINE yes == TRUE
      <4>1. turn = FinishAtTimestampTransition(after, p.seq, mark, yes)
        BY <3>1
      <4> HIDE DEF turn, yes
      <4>2. /\ StreamTyped(turn.stream) /\ turn.stream.pending = NoUnit
            /\ turn.stream.draining = NoUnit
            /\ Known(after) = Past(after) \cup {after.pending.ts}
            /\ after.pending.ts \in Over(turn.stream)
            /\ Timely(after, top) => /\ Timely(turn.stream, top)
                                     /\ Past(after) \subseteq Past(turn.stream)
            /\ turn.frame = NoFrame \/ turn.frame.ts = after.pending.ts
        BY <1>2, <2>2, <3>1, <4>1, Turns
      <4>3. Filed(after) = {after.pending.ts}
        BY <3>1 DEF Filed
      <4> QED BY <4>2, <4>3 DEF Filed, Past
    <3>2. CASE ~(after.pending # NoUnit /\ after.pending.ts # p.ts)
      <4>1. turn.stream = after /\ turn.frame = NoFrame
        BY <3>2
      <4> HIDE DEF turn
      <4> QED BY <2>2, <3>2, <4>1 DEF Known, Settled, Drained, Filed
    <3> QED BY <3>1, <3>2
  <2>4. \/ turn.frame = NoFrame /\ r = one
        \/ r.stream = two.stream /\ r.frame = turn.frame
    <3>1. CASE turn.frame = NoFrame
      <4>1. r = one
        BY <1>7, <3>1 DEF Push, now, after
      <4> QED BY <3>1, <4>1
    <3>2. CASE turn.frame # NoFrame
      <4>1. turn = FinishAtTimestampTransition(after, p.seq, mark, TRUE)
        BY <3>2
      <4>2. r = [turn EXCEPT !.stream = PendPacket(@, p, number, mark, FALSE).stream]
        BY <1>7, <3>2 DEF Push, now, after
      <4>3. turn = [stream |-> turn.stream, frame |-> turn.frame]
        <5> HIDE DEF turn
        <5> QED BY <4>1 DEF FinishAtTimestampTransition, FinishPending, Accept
      <4> HIDE DEF turn
      <4>4. r.stream = two.stream /\ r.frame = turn.frame
        BY <4>2, <4>3
      <4> QED BY <4>4
    <3> QED BY <3>1, <3>2
  <2> HIDE DEF turn
  <2>5. ASSUME NEW wanted, NEW t, t = PendPacket(turn.stream, p, number, mark, wanted)
        PROVE  /\ StreamTyped(t.stream) /\ Filed(t.stream) \subseteq {p.ts}
               /\ p.ts \in Known(t.stream)
               /\ Timely(turn.stream, top) /\ InTime(p, top)
                  => Timely(t.stream, top) /\ Past(turn.stream) \subseteq Past(t.stream)
               /\ t.frame = NoFrame \/ t.frame.ts = p.ts
    <3>1. ASSUME NEW x, StreamTyped(x), x.draining = NoUnit, Filed(x) \subseteq {p.ts},
                 t = PendPacket(x, p, number, mark, wanted)
          PROVE  /\ StreamTyped(t.stream) /\ Filed(t.stream) \subseteq {p.ts}
                 /\ p.ts \in Known(t.stream)
                 /\ Timely(x, top) /\ InTime(p, top)
                    => Timely(t.stream, top) /\ Past(x) \subseteq Past(t.stream)
                 /\ t.frame = NoFrame \/ t.frame.ts = p.ts
      <4>1. /\ StreamTyped(t.stream) /\ Filed(t.stream) \subseteq {p.ts}
            /\ p.ts \in Known(t.stream) /\ (t.frame = NoFrame \/ t.frame.ts = p.ts)
        <5>1. CASE Timely(x, top)
          BY <3>1, <5>1, Pends
        <5>2. CASE ~Timely(x, top)
          BY <3>1, <5>2, Pends
        <5> QED BY <5>1, <5>2
      <4>2. ASSUME Timely(x, top), InTime(p, top)
            PROVE  Timely(t.stream, top) /\ Past(x) \subseteq Past(t.stream)
        BY <3>1, <4>2, Pends
      <4> QED BY <4>1, <4>2
    <3> QED BY <2>3, <2>5, <3>1
  <2> DEFINE no == FALSE
             yes == TRUE
  <2>6. one = PendPacket(turn.stream, p, number, mark, yes)
    OBVIOUS
  <2>7. two = PendPacket(turn.stream, p, number, mark, no)
    OBVIOUS
  <2> HIDE DEF no, yes, one, two
  <2>8. /\ StreamTyped(r.stream) /\ Filed(r.stream) \subseteq {p.ts}
        /\ p.ts \in Known(r.stream)
        /\ Timely(turn.stream, top) /\ InTime(p, top)
           => Timely(r.stream, top) /\ Past(turn.stream) \subseteq Past(r.stream)
        /\ r.frame = NoFrame \/ r.frame.ts \in Filed(after) \cup {p.ts}
    <3>1. CASE turn.frame = NoFrame /\ r = one
      BY <2>5, <2>6, <3>1
    <3>2. CASE r.stream = two.stream /\ r.frame = turn.frame
      BY <2>3, <2>5, <2>7, <3>2
    <3> QED BY <2>4, <3>1, <3>2
  <2>9. Timely(now, top) /\ InTime(p, top)
        => Timely(r.stream, top) /\ Known(now) \subseteq Known(r.stream)
    BY <2>2, <2>3, <2>8 DEF Known, Settled
  <2>10. Timely(now, top) /\ InTime(p, top) => Settled(now) \subseteq Settled(r.stream)
    BY <2>2, <2>3, <2>8 DEF Settled
  <2> QED BY <1>1, <1>3, <2>1, <2>2, <2>8, <2>9, <2>10
<1> QED BY <1>4, <1>5, <1>6, <1>7

-----------------------------------------------------------------------------
(* The stream of the session                                               *)

\* The timestamp of the newest packet observed.
Top == IF high = 0 THEN 0 ELSE Sent[high].ts

\* The newest packet was sent, and those that may still come are not far behind.
Placed ==
  /\ high \in Nat /\ high <= Len(Sent) /\ missing \subseteq 1..high
  /\ \A q \in missing : high <= q + MaxDelay

\* Without a waiter nothing is pending; with one, what came before it began to
\* wait can give no frame, and all that came is known.
StreamKept ==
  /\ StreamTyped(stream) /\ Placed
  /\ slot = NoCapture => stream.pending = NoUnit
  /\ Prompt => /\ Timely(stream, Top)
               /\ seen \subseteq Known(stream)
               /\ slot # NoCapture => /\ before \subseteq Settled(stream)
                                      /\ before \cap Filed(stream) = {}

\* A packet not far behind another is among the newest when that one came.
LEMMA PacketsAreInTime ==
  ASSUME NEW n \in DOMAIN Sent, NEW i \in DOMAIN Sent, i <= n, n <= i + MaxDelay
  PROVE  InTime(Sent[i], Sent[n].ts)
<1>1. i \in Nat /\ n \in Nat /\ MaxDelay \in Nat
  BY SentIsOrdered, VideoConstants
<1>2. Sent[i].ts \in Int /\ Sent[n].ts \in Int
  BY StampsOfSent
<1> DEFINE k == n - i
<1>3. k \in Nat /\ i + k = n /\ k <= MaxDelay
  BY <1>1
<1> HIDE DEF k
<1>4. Sent[i].ts <= Sent[i + k].ts /\ Sent[i + k].ts <= Sent[i].ts + k
  BY <1>3, SentIsDense
<1> QED BY <1>1, <1>2, <1>3, <1>4 DEF InTime

\* The newest timestamp does not fall.
LEMMA StampsGrow ==
  ASSUME NEW a \in DOMAIN Sent, NEW b \in DOMAIN Sent, a <= b
  PROVE  Sent[a].ts <= Sent[b].ts
<1>1. a \in Nat /\ b \in Nat /\ Sent[a].ts \in Int
  BY SentIsOrdered, StampsOfSent
<1>2. CASE a = b
  BY <1>1, <1>2
<1>3. CASE a < b
  BY <1>3, SentIsOrdered
<1> QED BY <1>1, <1>2, <1>3

\* A stream that is timely stays so as packets come.
LEMMA TimelyLater ==
  ASSUME NEW s, StreamTyped(s), NEW a \in Int, NEW b \in Int, a <= b, Timely(s, a)
  PROVE  Timely(s, b)
<1>1. Over(s) \subseteq Int /\ Open(s) \subseteq Int
  BY OverAreStamps DEF StreamTyped, PendingUnit, DrainingUnit, Open, Filed, Drained
<1> QED BY <1>1 DEF Timely, Due

\* Initially the stream is empty.
LEMMA InitStream == Init => StreamKept
<1> SUFFICES ASSUME Init PROVE StreamKept
  OBVIOUS
<1>1. /\ stream.pending = NoUnit /\ stream.draining = NoUnit /\ stream.completed = <<>>
      /\ stream.anchor = NoAnchor /\ Shaped(stream)
  BY DEF Init, NewStream, Shaped
<1>2. Memory(<<>>)
  BY StreamConstants DEF Memory
<1>3. StreamTyped(stream)
  BY <1>1, <1>2, AnchorsAre DEF StreamTyped
<1>4. slot = NoCapture /\ seen = {} /\ high = 0 /\ missing = {}
  BY DEF Init
<1>5. Placed
  BY <1>4, SentIsOrdered DEF Placed
<1>6. Prompt => Timely(stream, Top)
  <2>1. Over(stream) = {} /\ Open(stream) = {} /\ Ranked(stream.completed) /\ Top = 0
    BY <1>1, <1>4 DEF Over, Open, Filed, Drained, Ranked, Top
  <2> QED BY <2>1 DEF Timely
<1> QED BY <1>1, <1>3, <1>4, <1>5, <1>6 DEF StreamKept

\* Steps that no packet and no waiter takes part in.
LEMMA OutsideStream ==
  ASSUME StreamKept, UNCHANGED <<stream, seen, before, slot, high, missing>>
  PROVE  StreamKept'
<1>1. /\ StreamTyped(stream)' /\ (Known(stream))' = Known(stream)
      /\ (Settled(stream))' = Settled(stream) /\ (Filed(stream))' = Filed(stream)
  BY DEF StreamKept
<1>2. Placed' /\ (Prompt => Timely(stream, Top)')
  BY DEF StreamKept, Placed, Top
<1> QED BY <1>1, <1>2 DEF StreamKept

\* When the slot is given back, what was pending is dropped.
LEMMA EndsWait ==
  ASSUME StreamKept, stream' = EndWait(stream), slot' = NoCapture, UNCHANGED <<seen, high, missing>>
  PROVE  StreamKept'
<1>1. StreamTyped(stream) /\ stream' = DiscardPending(stream)
  BY DEF StreamKept, EndWait
<1> DEFINE s == stream
           r == stream'
<1>2. /\ StreamTyped(r) /\ r.pending = NoUnit /\ r.draining = s.draining
      /\ Filed(s) \subseteq Over(r)
      /\ Timely(s, Top) => Timely(r, Top) /\ Past(s) \subseteq Past(r)
  BY <1>1, Discards
<1>3. Timely(s, Top) => Timely(r, Top) /\ Known(s) \subseteq Known(r)
  BY <1>2 DEF Known, Settled, Drained, Past
<1>4. Prompt => Timely(r, Top) /\ seen' \subseteq Known(r)
  BY <1>3 DEF StreamKept
<1>5. Placed' /\ Top' = Top
  BY DEF StreamKept, Placed, Top
<1> QED BY <1>2, <1>4, <1>5 DEF StreamKept

\* A capture takes the slot: what came so far can give no frame.
LEMMA BeginsToWait ==
  ASSUME StreamKept, slot = NoCapture, stream' = BeginWait(stream), before' = seen,
         slot' # NoCapture,
         UNCHANGED <<seen, high, missing>>
  PROVE  StreamKept'
<1> DEFINE s == stream
           r == stream'
<1>1. StreamTyped(s) /\ s.pending = NoUnit
  BY DEF StreamKept
<1>2. /\ StreamTyped(r) /\ r.pending = s.pending /\ Settled(r) = Settled(s)
      /\ Timely(s, Top) => Timely(r, Top)
  <2> DEFINE x == Top
  <2>0. r = BeginWait(s)
    OBVIOUS
  <2> HIDE DEF x, r, s
  <2>1. /\ StreamTyped(r) /\ r.pending = s.pending /\ Settled(r) = Settled(s)
        /\ Timely(s, x) => Timely(r, x)
    BY <1>1, <2>0, BeginsWait
  <2> QED BY <2>1 DEF x
<1>3. Known(s) = Settled(s) /\ Known(r) = Settled(r) /\ Filed(r) = {}
  BY <1>1, <1>2 DEF Known, Filed
<1>4. Prompt => Timely(r, Top) /\ seen' \subseteq Known(r) /\ before' \subseteq Settled(r)
  BY <1>2, <1>3 DEF StreamKept
<1>5. Placed' /\ Top' = Top
  BY DEF StreamKept, Placed, Top
<1> QED BY <1>2, <1>3, <1>4, <1>5 DEF StreamKept

\* Every packet observed is one that was sent, whatever became of its form, and is
\* among the newest; so are the packets that are still missing.
LEMMA ObservedIsSent ==
  ASSUME StreamKept, Observe
  PROVE  /\ Placed' /\ Top \in Int /\ Top' \in Int /\ Top <= Top'
         /\ \E p \in Packets, late \in BOOLEAN : Receive(p, late) /\ InTime(p, Top')
<1>1. PICK pos \in missing \cup (high + 1 .. high + MaxLoss + 1), again \in BOOLEAN,
           form \in {"ok", "empty", "version"}, late \in BOOLEAN :
        LET top == IF pos > high THEN pos ELSE high
            behind == missing \cup (high + 1 .. top)
        IN  /\ pos <= Len(Sent) /\ Receive([Sent[pos] EXCEPT !.form = form], late)
            /\ high' = top
            /\ missing' = {q \in behind : (again \/ q # pos) /\ q >= top - MaxDelay}
  BY Zenon DEF Observe
<1>2. /\ high \in Nat /\ missing \subseteq 1..high /\ MaxDelay \in Nat /\ Len(Sent) \in Nat
      /\ high <= Len(Sent) /\ \A q \in missing : high <= q + MaxDelay
  BY VideoConstants, SentIsOrdered DEF StreamKept, Placed
<1>3. pos \in Nat \ {0}
  BY <1>2
<1>4. Sent[pos] \in Packets
  BY <1>1, <1>3, SentIsTyped
<1> DEFINE p == [Sent[pos] EXCEPT !.form = form]
<1>5. p \in Packets /\ p.ts = Sent[pos].ts
  BY <1>4 DEF Packets
<1>6. high' \in Nat /\ high' <= Len(Sent) /\ high <= high' /\ pos <= high' /\ high' <= pos + MaxDelay
  <2>1. CASE pos > high
    BY <1>1, <1>2, <1>3, <2>1
  <2>2. CASE pos <= high
    <3>1. pos \in missing /\ high' = high
      BY <1>1, <1>2, <1>3, <2>2
    <3> QED BY <1>1, <1>2, <1>3, <2>2, <3>1
  <2> QED BY <1>2, <1>3, <2>1, <2>2
<1>7. Placed'
  <2>1. ASSUME NEW q \in missing' PROVE q \in 1..high' /\ high' <= q + MaxDelay
    <3>1. q \in missing \cup (high + 1 .. high') /\ q >= high' - MaxDelay
      BY <1>1
    <3> DEFINE n == high'
    <3>2. /\ n \in Nat /\ high <= n /\ q >= n - MaxDelay
          /\ q \in missing \/ q \in high + 1 .. n
      BY <1>6, <3>1
    <3> HIDE DEF n
    <3>3. q \in 1..n /\ n <= q + MaxDelay
      <4>1. q \in Int /\ q >= 1 /\ q <= n
        <5>1. CASE q \in missing
          <6>1. q \in 1..high
            BY <1>2, <5>1
          <6> QED BY <1>2, <3>2, <6>1
        <5>2. CASE q \in high + 1 .. n
          BY <1>2, <3>2, <5>2
        <5> QED BY <3>2, <5>1, <5>2
      <4> QED BY <1>2, <3>2, <4>1
    <3> QED BY <3>3 DEF n
  <2>2. Sent' = Sent
    BY DEF Sent, UnitPackets
  <2> QED BY <1>6, <2>1, <2>2 DEF Placed
<1>8. InTime(Sent[pos], Top') /\ Top \in Int /\ Top' \in Int /\ Top <= Top'
  <2>0. Sent' = Sent
    BY DEF Sent, UnitPackets
  <2>1. pos \in DOMAIN Sent
    BY <1>1, <1>2, <1>3, SentIsOrdered
  <2>2. /\ high' # 0 /\ high' \in DOMAIN Sent
        /\ high # 0 => high \in DOMAIN Sent
    BY <1>2, <1>3, <1>6, SentIsOrdered
  <2>3. Top' = Sent[high'].ts /\ Top = IF high = 0 THEN 0 ELSE Sent[high].ts
    BY <2>0, <2>2 DEF Top
  <2> DEFINE n == high'
             old == high
  <2> HIDE DEF n, old
  <2>4. InTime(Sent[pos], Sent[n].ts)
    BY <1>6, <2>1, <2>2, PacketsAreInTime DEF n
  <2>5. Sent[n].ts \in Int /\ Sent[n].ts >= 1
    BY <2>2, StampsOfSent DEF n
  <2>6. old # 0 => Sent[old].ts \in Int /\ Sent[old].ts <= Sent[n].ts
    BY <1>6, <2>2, StampsOfSent, StampsGrow DEF n, old
  <2> QED BY <2>3, <2>4, <2>5, <2>6 DEF n, old
<1>9. Receive(p, late) /\ InTime(p, Top')
  BY <1>1, <1>5, <1>8 DEF InTime
<1> HIDE DEF p
<1> QED BY <1>5, <1>7, <1>8, <1>9

\* A packet comes: it is known, and whoever waits is given nothing that came
\* before it began to wait.
LEMMA ReceivesStream ==
  ASSUME StreamKept, NEW p \in Packets, NEW late, Receive(p, late),
         Placed', InTime(p, Top'), Top \in Int, Top' \in Int, Top <= Top'
  PROVE  /\ StreamKept'
         /\ \/ UNCHANGED answer
            \/ \E f : /\ slot # NoCapture /\ answer' = [answer EXCEPT ![slot] = f]
                      /\ Prompt => f.ts \notin before
<1> DEFINE s == stream
           pushed == Push(s, p, generation + 1, watermark, late)
           found == slot # NoCapture /\ pushed.frame # NoFrame
           drained == Drain(s, p, late)
<1>1. StreamTyped(s) /\ (slot = NoCapture => s.pending = NoUnit) /\ seen' = seen \cup {p.ts}
  BY DEF StreamKept, Receive
<1>2. Prompt => seen \subseteq Known(s) /\ Timely(s, Top')
  BY TimelyLater DEF StreamKept
<1>3. CASE slot = NoCapture
  <2>1. stream' = drained /\ UNCHANGED <<slot, answer>>
    BY <1>3 DEF Receive
  <2>2. /\ StreamTyped(drained) /\ drained.pending = NoUnit
        /\ p.ts \in Known(drained)
        /\ Timely(s, Top') /\ InTime(p, Top')
           => Timely(drained, Top') /\ Known(s) \subseteq Known(drained)
    BY <1>1, <1>3, Drains
  <2> HIDE DEF drained
  <2>3. Prompt => Timely(drained, Top') /\ seen' \subseteq Known(drained)
    BY <1>1, <1>2, <2>2
  <2> QED BY <1>3, <2>1, <2>2, <2>3 DEF StreamKept
<1>4. CASE slot # NoCapture
  <2> DEFINE t == pushed.stream
             f == pushed.frame
  <2>1. /\ StreamTyped(t) /\ p.ts \in Known(t)
        /\ Prompt => /\ Timely(t, Top')
                     /\ Known(s) \subseteq Known(t)
                     /\ Settled(s) \subseteq Settled(t)
                     /\ Filed(t) \subseteq Filed(s) \cup ({p.ts} \ Settled(s))
                     /\ f = NoFrame \/ f.ts \in Filed(s) \cup ({p.ts} \ Settled(s))
    <3> DEFINE x == Top'
    <3>1. InTime(p, x) /\ (Prompt => Timely(s, x))
      BY <1>2
    <3> HIDE DEF x
    <3>2. /\ StreamTyped(t) /\ p.ts \in Known(t)
          /\ Timely(s, x) /\ InTime(p, x)
             => /\ Timely(t, x)
                /\ Known(s) \subseteq Known(t)
                /\ Settled(s) \subseteq Settled(t)
                /\ Filed(t) \subseteq Filed(s) \cup ({p.ts} \ Settled(s))
                /\ f = NoFrame \/ f.ts \in Filed(s) \cup ({p.ts} \ Settled(s))
      BY ONLY <1>1, Pushes
    <3> QED BY <3>1, <3>2 DEF x
  <2>2. Prompt => before \subseteq Settled(s) /\ before \cap Filed(s) = {}
    BY <1>4 DEF StreamKept
  <2>3. Prompt => seen' \subseteq Known(t) /\ Timely(t, Top')
    BY <1>1, <1>2, <2>1
  <2>4. CASE f = NoFrame
    <3>1. stream' = t /\ UNCHANGED <<slot, before, answer>>
      BY <1>4, <2>4 DEF Receive
    <3> HIDE DEF pushed, t
    <3>2. Prompt => before \subseteq Settled(t) /\ before \cap Filed(t) = {}
      BY <2>1, <2>2
    <3> QED BY <1>4, <2>1, <2>3, <3>1, <3>2 DEF StreamKept
  <2>5. CASE f # NoFrame
    <3>1. /\ stream' = EndWait(t) /\ slot' = NoCapture
          /\ answer' = [answer EXCEPT ![slot] = f]
      BY <1>4, <2>5 DEF Receive, FreeSlot, SetSlot
    <3> DEFINE r == EndWait(t)
    <3> HIDE DEF pushed, t, f
    <3>2. /\ StreamTyped(r) /\ r.pending = NoUnit /\ r.draining = t.draining
          /\ Filed(t) \subseteq Over(r)
          /\ Timely(t, Top') => Timely(r, Top') /\ Past(t) \subseteq Past(r)
      BY <2>1, Discards DEF EndWait
    <3>3. Timely(t, Top') => Timely(r, Top') /\ Known(t) \subseteq Known(r)
      BY <3>2 DEF Known, Settled, Drained, Past
    <3> HIDE DEF r
    <3>4. StreamKept'
      BY <2>3, <3>1, <3>2, <3>3 DEF StreamKept, r
    <3>5. Prompt => f.ts \notin before
      BY <2>1, <2>2, <2>5
    <3> QED BY <1>4, <3>1, <3>4, <3>5
  <2> QED BY <2>4, <2>5
<1> QED BY <1>3, <1>4

\* So no packet gives a capture a frame it had seen a part of.
LEMMA ObserveStream ==
  ASSUME StreamKept, CallTyped, Observe, Prompt
  PROVE  \A c \in Captures : answer'[c] # answer[c] => answer'[c].ts \notin before
<1>1. PICK p \in Packets, late \in BOOLEAN : Receive(p, late) /\ InTime(p, Top')
  BY ObservedIsSent
<1>2. Placed' /\ Top \in Int /\ Top' \in Int /\ Top <= Top'
  BY ObservedIsSent
<1>3. \/ UNCHANGED answer
      \/ \E f : /\ slot # NoCapture /\ answer' = [answer EXCEPT ![slot] = f]
                /\ Prompt => f.ts \notin before
  BY <1>1, <1>2, ReceivesStream
<1>4. answer = [c \in Captures |-> answer[c]] /\ slot \in Captures \cup {NoCapture}
  BY DEF CallTyped
<1> QED BY <1>3, <1>4

\* Every step keeps what the stream says of the captures.
LEMMA StepStream ==
  ASSUME StreamKept, CallTyped, [Next]_vars
  PROVE  StreamKept'
<1> USE DEF vars, sessionVars, callVars, receiverVars, streamVars
<1>1. CASE UNCHANGED vars
  BY <1>1, OutsideStream
<1>2. CASE \/ Authenticate \/ OpenSignaling \/ FinishConnect \/ SignalingAnswer \/ SignalingEnds
           \/ SessionLost \/ RefuseTrack \/ HandleTrack \/ TrackEnds \/ TearDown \/ Join
  <2>1. UNCHANGED <<stream, seen, before, slot, high, missing>>
    BY <1>2 DEF Authenticate, OpenSignaling, FinishConnect, SignalingAnswer, SignalingEnds,
                SessionLost, RefuseTrack, HandleTrack, TrackEnds, TearDown, Join
  <2> QED BY <2>1, OutsideStream
<1>3. CASE Observe
  <2>1. PICK p \in Packets, late \in BOOLEAN : Receive(p, late) /\ InTime(p, Top')
    BY <1>3, ObservedIsSent
  <2>2. Placed' /\ Top \in Int /\ Top' \in Int /\ Top <= Top'
    BY <1>3, ObservedIsSent
  <2> QED BY <2>1, <2>2, ReceivesStream
<1>4. CASE Seal
  <2>1. /\ stream' = EndWait(stream) /\ slot' = NoCapture
        /\ UNCHANGED <<seen, high, missing>>
    BY <1>4 DEF Seal, FreeSlot, SetSlot
  <2> QED BY <2>1, EndsWait
<1>5. ASSUME NEW c \in Captures, CaptureStep(c) PROVE StreamKept'
  <2>1. CASE \/ UNCHANGED <<stream, seen, before, slot, high, missing>>
             \/ RequestPLI(c) \/ TakeAnswer(c) \/ GiveUp(c)
    <3>1. UNCHANGED <<stream, seen, before, slot, high, missing>>
      BY <2>1 DEF RequestPLI, TakeAnswer, GiveUp
    <3> QED BY <3>1, OutsideStream
  <2>2. CASE Capture(c)
    <3>1. \/ UNCHANGED <<stream, seen, before, slot, high, missing>>
          \/ /\ slot = NoCapture /\ stream' = BeginWait(stream) /\ before' = seen
             /\ slot' = c /\ UNCHANGED <<seen, high, missing>>
      BY <2>2 DEF Capture, SetSlot
    <3>2. c # NoCapture
      BY NoCaptureIsNone
    <3> QED BY <2>1, <3>1, <3>2, BeginsToWait
  <2>3. CASE RemoveWaiter(c)
    <3>1. \/ UNCHANGED <<stream, seen, before, slot, high, missing>>
          \/ /\ stream' = EndWait(stream) /\ slot' = NoCapture
             /\ UNCHANGED <<seen, high, missing>>
      BY <2>3 DEF RemoveWaiter, FreeSlot, SetSlot
    <3> QED BY <2>1, <3>1, EndsWait
  <2> QED BY <1>5, <2>1, <2>2, <2>3 DEF CaptureStep
<1> QED BY <1>1, <1>2, <1>3, <1>4, <1>5 DEF Next

\* The invariant of the session: the calls, and the stream they wait for.
LEMMA Session == Spec => [](CallTyped /\ StreamKept)
<1>1. CallTyped /\ Served /\ Sealed /\ StreamKept /\ [Next]_vars => StreamKept'
  BY StepStream
<1> QED BY Calls, InitStream, <1>1, PTL DEF Spec

\* The receiver and its stream stay in their types whatever comes: at most one
\* unit is open, of a frame that was sent, and the memory keeps its bound.
THEOREM SessionTypes == Spec => []TypeOK
<1>1. CallTyped /\ StreamKept => TypeOK
  <2> SUFFICES ASSUME CallTyped, StreamKept PROVE TypeOK
    OBVIOUS
  <2> DEFINE s == stream
  <2>1. StreamTyped(s)
    BY DEF StreamKept
  <2>2. {s.pending.ts, s.draining.ts} \subseteq (1..Len(Frames)) \cup {-1}
    BY <2>1 DEF StreamTyped, PendingUnit, DrainingUnit, NoUnit, Stamps
  <2>3. s.pending # NoUnit => DOMAIN s.pending.packets \subseteq 0..(SeqSpace - 1)
    BY <2>1 DEF StreamTyped, PendingUnit, PacketsOf, SeqNos
  <2>4. Len(s.completed) <= MaxCompleted /\ ~(s.pending # NoUnit /\ s.draining # NoUnit)
    BY <2>1 DEF StreamTyped, Memory
  <2> QED BY <2>2, <2>3, <2>4 DEF TypeOK, CallTyped, Places
<1> QED BY Session, <1>1, PTL

\* Screenshots are fresh: however long the stream and however often a unit of it
\* is forgotten, a capture is never given a frame of which a packet came before it
\* began to wait, when packets are overtaken by less than half as many others as
\* the memory holds units.
THEOREM FramesAreFresh ==
  ASSUME 2 * MaxDelay < MaxCompleted
  PROVE  Spec => FrameIsFresh
<1> DEFINE Fresh == \A c \in Captures : answer'[c] # answer[c] /\ answer'[c] # SessionClosed
                                        => answer'[c].ts \notin before
<1>1. CallTyped /\ StreamKept /\ [Next]_vars => [Fresh]_vars
  <2> SUFFICES ASSUME CallTyped, StreamKept, Next PROVE Fresh
    OBVIOUS
  <2>1. CASE UNCHANGED answer
    BY <2>1
  <2>2. CASE Observe
    BY <2>2, ObserveStream DEF Prompt
  <2>3. CASE Seal
    <3>1. \/ UNCHANGED answer
          \/ slot \in Captures /\ answer' = [answer EXCEPT ![slot] = SessionClosed]
      BY <2>3 DEF Seal, CallTyped
    <3>2. answer = [c \in Captures |-> answer[c]]
      BY DEF CallTyped
    <3> QED BY <3>1, <3>2
  <2>4. UNCHANGED answer \/ Observe \/ Seal
    BY DEF Next, CaptureStep, Authenticate, OpenSignaling, FinishConnect, SignalingAnswer,
           SignalingEnds, SessionLost, RefuseTrack, HandleTrack, TrackEnds, TearDown, Join,
           Capture, RequestPLI, TakeAnswer, GiveUp, RemoveWaiter, callVars
  <2> QED BY <2>1, <2>2, <2>3, <2>4
<1> QED BY Session, <1>1, PTL DEF FrameIsFresh, Spec

-----------------------------------------------------------------------------
(* Which packet a sequence number is                                       *)

\* The stream is too short for its sequence numbers to come round.
Short == Len(Sent) < SeqSpace

\* A number from its quotient and its remainder, and back.
LEMMA Division ==
  /\ \A a \in Int : /\ a = SeqSpace * (a \div SeqSpace) + (a % SeqSpace)
                    /\ a \div SeqSpace \in Int /\ a % SeqSpace \in SeqNos
  /\ \A q \in Int, r \in SeqNos : (q * SeqSpace + r) % SeqSpace = r
<1>1. SeqSpace \in Nat \ {0}
  BY StreamConstants
<1>2. ASSUME NEW a \in Int
      PROVE  /\ a = SeqSpace * (a \div SeqSpace) + (a % SeqSpace)
             /\ a \div SeqSpace \in Int /\ a % SeqSpace \in SeqNos
  BY <1>1 DEF SeqNos
<1>3. ASSUME NEW q \in Int, NEW r \in SeqNos PROVE (q * SeqSpace + r) % SeqSpace = r
  BY <1>1 DEF SeqNos
<1> QED BY <1>2, <1>3

\* Two multiples that differ by less than the divisor are the same.
LEMMA NoMultipleBetween ==
  ASSUME NEW x \in Int, NEW y \in Int, NEW d \in Int, d = SeqSpace * x - SeqSpace * y,
         d < SeqSpace, -d < SeqSpace
  PROVE  d = 0
<1>1. SeqSpace \in Nat \ {0}
  BY StreamConstants
<1> QED BY <1>1

\* Numbers with the same remainder are the same or lie far apart.
LEMMA SameRemainder ==
  ASSUME NEW a \in Int, NEW b \in Int, a % SeqSpace = b % SeqSpace,
         a - b < SeqSpace, b - a < SeqSpace
  PROVE  a = b
<1> DEFINE x == a \div SeqSpace
           y == b \div SeqSpace
           r == a % SeqSpace
<1>1. x \in Int /\ y \in Int /\ r \in SeqNos /\ SeqSpace \in Nat \ {0}
  BY Division, StreamConstants
<1>2. a = SeqSpace * x + r /\ b = SeqSpace * y + r
  BY Division
<1> HIDE DEF x, y, r
<1> DEFINE d == a - b
<1>3. d \in Int /\ d = SeqSpace * x - SeqSpace * y
  BY <1>1, <1>2 DEF SeqNos
<1>4. d < SeqSpace /\ -d < SeqSpace
  BY <1>1
<1> HIDE DEF d
<1>5. d = 0
  BY <1>1, <1>3, <1>4, NoMultipleBetween
<1> QED BY <1>5 DEF d

\* The number after a remainder is the remainder of the number after.
LEMMA AfterRemainder ==
  ASSUME NEW a \in Int
  PROVE  After(a % SeqSpace) = (a + 1) % SeqSpace
<1> DEFINE x == a \div SeqSpace
           r == a % SeqSpace
<1>0. SeqSpace \in Nat \ {0} /\ 0 \in SeqNos
  BY StreamConstants DEF SeqNos
<1>1. x \in Int /\ r \in SeqNos /\ SeqSpace \in Nat \ {0} /\ 0 \in SeqNos
  BY <1>0, Division
<1>2. a = SeqSpace * x + r
  BY Division
<1> HIDE DEF x, r
<1>3. CASE r + 1 < SeqSpace
  <2>1. r + 1 \in SeqNos
    BY <1>1, <1>3 DEF SeqNos
  <2>2. (r + 1) % SeqSpace = r + 1
    BY <1>1, <1>3, <2>1 DEF SeqNos
  <2>3. a + 1 = x * SeqSpace + (r + 1)
    BY <1>1, <1>2 DEF SeqNos
  <2>4. (x * SeqSpace + (r + 1)) % SeqSpace = r + 1
    BY <1>1, <2>1, Division
  <2> QED BY <2>2, <2>3, <2>4 DEF After, r
<1>4. CASE r + 1 = SeqSpace
  <2>1. (1 * SeqSpace + 0) % SeqSpace = 0 /\ ((x + 1) * SeqSpace + 0) % SeqSpace = 0
    BY <1>1, Division
  <2>2. r + 1 = 1 * SeqSpace + 0 /\ a + 1 = (x + 1) * SeqSpace + 0
    BY <1>1, <1>2, <1>4 DEF SeqNos
  <2> QED BY <2>1, <2>2 DEF After, r
<1> QED BY <1>1, <1>3, <1>4 DEF SeqNos

\* Adding the same number to two numbers leaves them as far apart.
LEMMA ShiftedAlike ==
  ASSUME NEW x \in Int, NEW a \in Int, NEW b \in Int, NEW n \in Int, a - b < n, b - a < n
  PROVE  /\ x + a \in Int /\ x + b \in Int
         /\ (x + a) - (x + b) < n /\ (x + b) - (x + a) < n
         /\ x + a = x + b => a = b
  OBVIOUS

\* In a short stream a sequence number is one packet's, and the next one is the
\* next packet's.
LEMMA NumbersTell ==
  ASSUME Short, NEW i \in DOMAIN Sent, NEW j \in DOMAIN Sent
  PROVE  /\ Sent[i].seq = Sent[j].seq => i = j
         /\ After(Sent[i].seq) = Sent[j].seq => j = i + 1
<1>1. /\ i \in 1..Len(Sent) /\ j \in 1..Len(Sent) /\ Len(Sent) \in Nat
      /\ Sent[i].seq = (FirstSeq + i) % SeqSpace /\ Sent[j].seq = (FirstSeq + j) % SeqSpace
  BY SentIsOrdered
<1>2. FirstSeq \in Nat /\ SeqSpace \in Nat \ {0} /\ Len(Sent) < SeqSpace
  BY VideoConstants, StreamConstants DEF Short
<1>3. /\ i \in Int /\ j \in Int /\ FirstSeq \in Int /\ SeqSpace \in Int
      /\ i - j < SeqSpace /\ j - i < SeqSpace
      /\ i + 1 \in Int /\ (i + 1) - j < SeqSpace /\ j - (i + 1) < SeqSpace
  <2> DEFINE n == Len(Sent)
  <2>1. /\ i \in 1..n /\ j \in 1..n /\ n \in Nat /\ n < SeqSpace
        /\ SeqSpace \in Nat /\ FirstSeq \in Nat
    BY <1>1, <1>2
  <2> HIDE DEF n
  <2> QED BY ONLY <2>1
<1>4. ASSUME Sent[i].seq = Sent[j].seq PROVE i = j
  <2> DEFINE a == FirstSeq + i
             b == FirstSeq + j
  <2>1. /\ a \in Int /\ b \in Int /\ a - b < SeqSpace /\ b - a < SeqSpace
        /\ a = b => i = j
    BY ONLY <1>3, ShiftedAlike
  <2>2. a % SeqSpace = b % SeqSpace
    BY <1>1, <1>4
  <2> HIDE DEF a, b
  <2> QED BY <2>1, <2>2, SameRemainder
<1>5. ASSUME After(Sent[i].seq) = Sent[j].seq PROVE j = i + 1
  <2> DEFINE c == FirstSeq + i
             k == i + 1
             a == FirstSeq + k
             b == FirstSeq + j
  <2>1. k \in Int /\ k - j < SeqSpace /\ j - k < SeqSpace /\ c \in Int /\ a = c + 1
    BY ONLY <1>3
  <2> HIDE DEF k
  <2>2. /\ a \in Int /\ b \in Int /\ a - b < SeqSpace /\ b - a < SeqSpace
        /\ a = b => k = j
    BY ONLY <1>3, <2>1, ShiftedAlike
  <2>3. After(c % SeqSpace) = b % SeqSpace
    BY <1>1, <1>5
  <2> HIDE DEF a, b, c
  <2>4. a % SeqSpace = b % SeqSpace
    BY <2>1, <2>3, AfterRemainder
  <2> QED BY <2>2, <2>4, SameRemainder DEF k
<1> QED BY <1>4, <1>5


-----------------------------------------------------------------------------
(* A unit that is whole                                                    *)

SentAs(q, t) == \E i \in DOMAIN Sent : Sent[i].seq = q /\ Sent[i].ts = t
LastOf(q, t) ==
  \E i \in DOMAIN Sent : /\ Sent[i].seq = q /\ Sent[i].ts = t
                         /\ \A j \in DOMAIN Sent : j > i => Sent[j].ts # t
Follows(q, t) == \E i \in DOMAIN Sent : Sent[i].ts = t /\ q = After(Sent[i].seq)

Plain(p) == [p EXCEPT !.marker = FALSE]
Unmarked(packets) == [i \in DOMAIN packets |-> [packets[i] EXCEPT !.marker = FALSE]]

\* The packets of a unit are those sent under their numbers, its marker is the last of
\* them, and where it has to begin another unit has ended, or was given up.
Own(u) ==
  /\ \A q \in DOMAIN u.packets :
       \E i \in DOMAIN Sent : Sent[i].seq = q /\ Plain(u.packets[q]) = Plain(Sent[i])
  /\ u.marker # NoSeq => LastOf(u.marker, u.ts)
  /\ u.explicit => u.marker # NoSeq
  /\ u.expected # NoSeq => \E t \in Stamps \ {u.ts} : Follows(u.expected, t)

\* One step back from the marker is one number less.
LEMMA AfterMinus ==
  ASSUME NEW m \in SeqNos, NEW d \in Nat
  PROVE  After(Minus(m, d + 1)) = Minus(m, d) /\ Minus(m, 0) = m
<1>1. m \in Int /\ SeqSpace \in Nat \ {0}
  BY StreamConstants DEF SeqNos
<1> DEFINE a == m - (d + 1)
<1>2. a \in Int /\ a + 1 = m - d
  BY <1>1
<1> HIDE DEF a
<1>3. After(a % SeqSpace) = (a + 1) % SeqSpace
  BY <1>2, AfterRemainder
<1>4. After(Minus(m, d + 1)) = Minus(m, d)
  BY <1>2, <1>3 DEF a, Minus
<1>5. m - 0 = m /\ m % SeqSpace = m
  BY <1>1 DEF SeqNos
<1> QED BY <1>4, <1>5 DEF Minus

\* Packets that differ in their marker at most are of one unit and of one kind.
LEMMA PlainTells ==
  ASSUME NEW p \in Packets, NEW q \in Packets, Plain(p) = Plain(q)
  PROVE  p.ts = q.ts /\ p.nal = q.nal
<1>1. Plain(p).ts = p.ts /\ Plain(q).ts = q.ts /\ Plain(p).nal = p.nal /\ Plain(q).nal = q.nal
  BY DEF Plain, Packets
<1> QED BY <1>1

\* Walking back from its marker, the packets of a complete unit are those that were
\* sent one before the other.
LEMMA RunIsSent ==
  ASSUME Short, NEW u, PendingUnit(u), Own(u), Complete(u), u.expected # NoSeq,
         NEW m \in DOMAIN Sent, Sent[m].seq = u.marker, Sent[m].ts = u.ts
  PROVE  \A d \in 0..(Cardinality(DOMAIN u.packets) - 1) :
           /\ m - d \in DOMAIN Sent /\ Sent[m - d].seq = Minus(u.marker, d)
           /\ Sent[m - d].ts = u.ts
           /\ Plain(u.packets[Minus(u.marker, d)]) = Plain(Sent[m - d])
<1> DEFINE n == Cardinality(DOMAIN u.packets)
           Back(d) == /\ m - d \in DOMAIN Sent /\ Sent[m - d].seq = Minus(u.marker, d)
                      /\ Sent[m - d].ts = u.ts
                      /\ Plain(u.packets[Minus(u.marker, d)]) = Plain(Sent[m - d])
           Good == {d \in Nat : d <= n - 1 => Back(d)}
<1>1. n \in Nat \ {0} /\ \A d \in 0..(n - 1) : Minus(u.marker, d) \in DOMAIN u.packets
  BY CompleteIsRun
<1>2. \A i \in DOMAIN Sent : i \in Int /\ Sent[i] \in Packets
  BY SentIsOrdered
<1>3. u.marker \in SeqNos
  BY <1>2 DEF Packets
<1>4. ASSUME NEW q \in DOMAIN u.packets
      PROVE  /\ u.packets[q] \in Packets /\ u.packets[q].ts = u.ts
             /\ \E i \in DOMAIN Sent : Sent[i].seq = q /\ Plain(u.packets[q]) = Plain(Sent[i])
                                       /\ Sent[i].ts = u.ts
  <2>1. u.packets[q] \in Packets /\ u.packets[q].ts = u.ts
    BY DEF PendingUnit, PacketsOf
  <2>2. PICK i \in DOMAIN Sent : Sent[i].seq = q /\ Plain(u.packets[q]) = Plain(Sent[i])
    BY DEF Own
  <2>3. Sent[i].ts = u.ts
    BY <1>2, <2>1, <2>2, PlainTells
  <2> QED BY <2>1, <2>2, <2>3
<1> HIDE DEF n
<1>5. 0 \in Good
  <2>1. Minus(u.marker, 0) = u.marker /\ m - 0 = m
    BY <1>2, <1>3, AfterMinus
  <2>2. u.marker \in DOMAIN u.packets
    <3>1. 0 \in 0..(n - 1)
      BY <1>1
    <3> QED BY <1>1, <2>1, <3>1
  <2>3. PICK i \in DOMAIN Sent : Sent[i].seq = u.marker
                                 /\ Plain(u.packets[u.marker]) = Plain(Sent[i])
    BY <1>4, <2>2
  <2>4. i = m
    BY <2>3, NumbersTell
  <2> QED BY <2>1, <2>3, <2>4
<1>6. ASSUME NEW d \in Nat, d \in Good PROVE d + 1 \in Good
  <2> SUFFICES ASSUME d + 1 <= n - 1 PROVE Back(d + 1)
    OBVIOUS
  <2>1. Back(d)
    BY <1>1, <1>6
  <2> DEFINE q == Minus(u.marker, d + 1)
  <2>2. q \in DOMAIN u.packets
    <3>1. d + 1 \in 0..(n - 1)
      BY <1>1
    <3> QED BY <1>1, <3>1
  <2>3. After(q) = Sent[m - d].seq
    BY <1>3, <2>1, AfterMinus
  <2> HIDE DEF q
  <2>4. PICK i \in DOMAIN Sent : Sent[i].seq = q /\ Plain(u.packets[q]) = Plain(Sent[i])
                                 /\ Sent[i].ts = u.ts
    BY <1>4, <2>2
  <2>5. m - d = i + 1
    BY <2>1, <2>3, <2>4, NumbersTell
  <2>6. i = m - (d + 1)
    BY <1>2, <2>5
  <2> QED BY <2>4, <2>6 DEF q
<1> HIDE DEF Good
<1>7. Nat \subseteq Good
  BY <1>5, <1>6, Induction
<1>8. ASSUME NEW d \in 0..(n - 1) PROVE Back(d)
  <2>1. d \in Nat /\ d <= n - 1
    BY <1>1
  <2> QED BY <1>7, <2>1 DEF Good
<1> QED BY <1>8 DEF n

\* It begins where its unit begins: the packet before it is of another unit.
LEMMA RunIsFirst ==
  ASSUME Short, NEW u, PendingUnit(u), Own(u), Complete(u), u.expected # NoSeq,
         NEW m \in DOMAIN Sent, Sent[m].seq = u.marker, Sent[m].ts = u.ts
  PROVE  /\ m - Cardinality(DOMAIN u.packets) \in DOMAIN Sent
         /\ Sent[m - Cardinality(DOMAIN u.packets)].ts # u.ts
<1> DEFINE n == Cardinality(DOMAIN u.packets)
           back == Minus(u.marker, u.expected)
<1>1. u.expected \in DOMAIN u.packets /\ n \in Nat \ {0}
  BY CompleteIsRun
<1>2. u.marker \in SeqNos /\ u.expected \in SeqNos /\ m \in Int
  <2>1. Sent[m] \in Packets /\ m \in Int
    BY SentIsOrdered
  <2>2. u.expected \in SeqNos
    BY <1>1 DEF PendingUnit, PacketsOf
  <2> QED BY <2>1, <2>2 DEF Packets
<1>3. back \in 0..(n - 1)
  BY <1>1 DEF Complete, Distances
<1>4. Minus(u.marker, back) = u.expected
  BY <1>2, MinusTwice
<1>5. PICK t \in Stamps \ {u.ts}, e \in DOMAIN Sent :
        Sent[e].ts = t /\ u.expected = After(Sent[e].seq)
  BY DEF Own, Follows
<1>6. \A d \in 0..(n - 1) : /\ m - d \in DOMAIN Sent /\ Sent[m - d].seq = Minus(u.marker, d)
                            /\ Sent[m - d].ts = u.ts
  BY RunIsSent
<1> HIDE DEF n, back
<1>7. m - back = e + 1 /\ e \in Int
  <2>1. m - back \in DOMAIN Sent /\ Sent[m - back].seq = u.expected
    BY <1>3, <1>4, <1>6
  <2>2. e \in Int
    BY SentIsOrdered
  <2> QED BY <1>5, <2>1, <2>2, NumbersTell
<1>8. back = n - 1
  <2> SUFFICES ASSUME back # n - 1 PROVE FALSE
    OBVIOUS
  <2>1. back + 1 \in 0..(n - 1)
    BY <1>1, <1>3
  <2>2. m - (back + 1) = e
    BY <1>2, <1>3, <1>7
  <2>3. Sent[m - (back + 1)].ts = u.ts
    BY <1>6, <2>1
  <2> QED BY <1>5, <2>2, <2>3
<1>9. m - n = e
  BY <1>1, <1>2, <1>7, <1>8
<1> QED BY <1>5, <1>9 DEF n

\* The packets of a unit that is sent, by the first and the last of them.
LEMMA SentUnitIsRun ==
  ASSUME NEW t \in Stamps, NEW a \in DOMAIN Sent, NEW b \in DOMAIN Sent, a <= b,
         \A i \in DOMAIN Sent : Sent[i].ts = t <=> a <= i /\ i <= b
  PROVE  SentUnit(t) = [i \in 1..(b - a + 1) |-> Sent[a + i - 1]]
<1> DEFINE own == {i \in DOMAIN Sent : Sent[i].ts = t}
<1>1. a \in Int /\ b \in Int /\ \A i \in DOMAIN Sent : i \in Int
  BY SentIsOrdered
<1>2. a \in own /\ b \in own /\ \A i \in own : a <= i /\ i <= b /\ i \in Int
  BY <1>1
<1> HIDE DEF own
<1>3. Min(own) = a
  <2>1. \A y \in own : a <= y
    BY <1>2
  <2>2. \A x \in own : (\A y \in own : x <= y) => x = a
    BY <1>1, <1>2
  <2> QED BY <1>2, <2>1, <2>2 DEF Min
<1>4. Max(own) = b
  <2>1. \A y \in own : b >= y
    BY <1>1, <1>2
  <2>2. \A x \in own : (\A y \in own : x >= y) => x = b
    BY <1>1, <1>2
  <2> QED BY <1>2, <2>1, <2>2 DEF Max
<1>5. SentUnit(t) = SubSeq(Sent, a, b)
  BY <1>3, <1>4 DEF SentUnit, own
<1>6. SubSeq(Sent, a, b) = [i \in 1..(b - a + 1) |-> Sent[a + i - 1]]
  BY <1>1, SentIsOrdered
<1> QED BY <1>5, <1>6

\* So a complete unit, anchored, is the unit as it was sent.
LEMMA UnitIsWhole ==
  ASSUME Short, NEW u, PendingUnit(u), Own(u), Complete(u), u.expected # NoSeq
  PROVE  Unmarked(OrderedPackets(u)) = Unmarked(SentUnit(u.ts))
<1> DEFINE n == Cardinality(DOMAIN u.packets)
<1>1. PICK m \in DOMAIN Sent : /\ Sent[m].seq = u.marker /\ Sent[m].ts = u.ts
                               /\ \A j \in DOMAIN Sent : j > m => Sent[j].ts # u.ts
  BY DEF Own, Complete, LastOf
<1>2. /\ m \in Int /\ \A i \in DOMAIN Sent : i \in Int /\ Sent[i].ts \in Int
      /\ DOMAIN Sent = 1..Len(Sent) /\ Len(Sent) \in Nat
  <2>1. \A i \in DOMAIN Sent : i \in Int /\ Sent[i] \in Packets
    BY SentIsOrdered
  <2>2. \A t \in Stamps : t \in Int
    BY UnitsAreUnits DEF Stamps
  <2> QED BY <2>1, <2>2, SentIsOrdered DEF Packets
<1>3. n \in Nat \ {0}
  BY CompleteIsRun
<1>4. \A d \in 0..(n - 1) : /\ m - d \in DOMAIN Sent /\ Sent[m - d].ts = u.ts
                            /\ Plain(u.packets[Minus(u.marker, d)]) = Plain(Sent[m - d])
  BY <1>1, RunIsSent
<1>5. m - n \in DOMAIN Sent /\ Sent[m - n].ts # u.ts
  BY <1>1, RunIsFirst
<1>6. u.ts \in Stamps
  BY DEF PendingUnit
<1> HIDE DEF n
<1>7. ASSUME NEW i \in DOMAIN Sent
      PROVE  Sent[i].ts = u.ts <=> (m - n) + 1 <= i /\ i <= m
  <2>1. CASE i > m
    BY <1>1, <1>2, <2>1
  <2>2. CASE i <= m /\ i > m - n
    <3> DEFINE d == m - i
    <3>1. d \in 0..(n - 1) /\ m - d = i
      BY <1>2, <1>3, <2>2
    <3>2. Sent[m - d].ts = u.ts
      BY <1>4, <3>1
    <3> HIDE DEF d
    <3>3. Sent[i].ts = u.ts
      BY <3>1, <3>2
    <3> QED BY <1>2, <1>3, <2>2, <3>3
  <2>3. CASE i = m - n
    BY <1>2, <1>3, <1>5, <2>3
  <2>4. CASE i < m - n
    <3>1. Sent[i].ts <= Sent[m - n].ts
      BY <1>5, <2>4, SentIsOrdered
    <3>2. m - n < m
      BY <1>2, <1>3
    <3>3. Sent[m - n].ts <= u.ts
      BY <1>1, <1>5, <3>2, SentIsOrdered
    <3>4. Sent[i].ts # u.ts
      BY <1>1, <1>2, <1>5, <3>1, <3>3
    <3> QED BY <1>2, <1>3, <2>4, <3>4
  <2> QED BY <1>2, <1>3, <2>1, <2>2, <2>3, <2>4
<1>8. SentUnit(u.ts) = [i \in 1..n |-> Sent[(m - n) + i]]
  <2> DEFINE a == (m - n) + 1
  <2>1. a \in DOMAIN Sent /\ a <= m /\ m - a + 1 = n /\ \A i \in 1..n : a + i - 1 = (m - n) + i
    BY <1>2, <1>3, <1>5
  <2>2. \A i \in DOMAIN Sent : Sent[i].ts = u.ts <=> a <= i /\ i <= m
    BY <1>7
  <2> HIDE DEF a
  <2>3. SentUnit(u.ts) = [i \in 1..(m - a + 1) |-> Sent[a + i - 1]]
    BY <1>1, <1>6, <2>1, <2>2, SentUnitIsRun
  <2> QED BY <2>1, <2>3
<1>9. OrderedPackets(u) = [i \in 1..n |-> u.packets[Minus(u.marker, n - i)]]
  BY DEF OrderedPackets, n
<1>10. ASSUME NEW i \in 1..n
       PROVE  Plain(u.packets[Minus(u.marker, n - i)]) = Plain(Sent[(m - n) + i])
  <2> DEFINE d == n - i
  <2>1. d \in 0..(n - 1) /\ m - d = (m - n) + i
    BY <1>2, <1>3
  <2>2. Plain(u.packets[Minus(u.marker, d)]) = Plain(Sent[m - d])
    BY <1>4, <2>1
  <2> QED BY <2>1, <2>2
<1> QED BY <1>8, <1>9, <1>10 DEF Unmarked, Plain

-----------------------------------------------------------------------------
(* A unit with a picture                                                   *)

\* The greatest of 1 .. n is n.
LEMMA MaxOfRange ==
  ASSUME NEW n \in Nat \ {0}, NEW S, S \subseteq 1..n, n \in S
  PROVE  Max(S) = n
<1>1. \A y \in S : n >= y
  OBVIOUS
<1>2. \A x \in S : (\A y \in S : x >= y) => x = n
  OBVIOUS
<1> QED BY <1>1, <1>2 DEF Max

\* The payloads of a unit, one after another: the fold in Depacketize.
Blank == [error |-> "none", open |-> "none", idr |-> FALSE,
          sps |-> NoParameter, pps |-> NoParameter]
Payloads(base, packets) == FoldLeft(DepacketizeOne, base, packets)
Stepwise(f, base, packets, n) ==
  /\ Payloads(base, packets) = f[n]
  /\ f[0] = base
  /\ \A i \in 1..n : f[i] = DepacketizeOne(f[i - 1], packets[i])

\* The recursion of FoldLeft over DepacketizeOne has a solution: one packet after
\* another, from what there was at first.
LEMMA FoldIsStepwise ==
  ASSUME NEW base, NEW packets, NEW n \in Nat, DOMAIN packets = 1..n
  PROVE  \E f : Stepwise(f, base, packets, n)
<1> DEFINE Value(g, s) == IF s = {} THEN base
                          ELSE DepacketizeOne(g[s \ {Max(s)}], packets[Max(s)])
           Folded(g) == [s \in SUBSET (1..n) |-> Value(g, s)]
           Fold == CHOOSE g : g = Folded(g)
<1>1. Payloads(base, packets) = Fold[1..n]
  BY DEF Payloads, FoldLeft, MapThenFoldSet
<1>2. \E g : g = Folded(g)
  <2> DEFINE Good == {k \in Nat : \E g : g = [s \in SUBSET (1..k) |-> Value(g, s)]}
  <2>1. 0 \in Good
    <3> DEFINE g == [s \in SUBSET (1..0) |-> base]
    <3>1. \A s \in SUBSET (1..0) : s = {}
      OBVIOUS
    <3>2. g = [s \in SUBSET (1..0) |-> Value(g, s)]
      BY <3>1
    <3> QED BY <3>2
  <2>2. ASSUME NEW k \in Nat, k \in Good PROVE k + 1 \in Good
    <3>1. PICK g : g = [s \in SUBSET (1..k) |-> Value(g, s)]
      BY <2>2
    <3> DEFINE h == [s \in SUBSET (1..(k + 1)) |->
                       IF k + 1 \in s THEN DepacketizeOne(g[s \ {k + 1}], packets[k + 1]) ELSE g[s]]
    <3>2. ASSUME NEW s \in SUBSET (1..(k + 1)) PROVE h[s] = Value(h, s)
      <4>1. \A r \in SUBSET (1..k) : h[r] = g[r] /\ g[r] = Value(g, r)
        <5> TAKE r \in SUBSET (1..k)
        <5>1. r \in SUBSET (1..(k + 1)) /\ k + 1 \notin r
          OBVIOUS
        <5>2. h[r] = g[r]
          BY <5>1
        <5> HIDE DEF Value, h
        <5>3. g[r] = Value(g, r)
          BY <3>1
        <5> QED BY <5>2, <5>3
      <4>2. h[s] = IF k + 1 \in s THEN DepacketizeOne(g[s \ {k + 1}], packets[k + 1]) ELSE g[s]
        OBVIOUS
      <4> HIDE DEF h
      <4>3. CASE k + 1 \in s
        <5>1. Max(s) = k + 1
          <6>1. k + 1 \in Nat \ {0} /\ s \subseteq 1..(k + 1)
            OBVIOUS
          <6> QED BY <4>3, <6>1, MaxOfRange
        <5>2. s \ {k + 1} \in SUBSET (1..k)
          OBVIOUS
        <5>3. h[s \ {k + 1}] = g[s \ {k + 1}]
          BY <4>1, <5>2
        <5>4. h[s] = DepacketizeOne(h[s \ {Max(s)}], packets[Max(s)])
          BY <4>2, <4>3, <5>1, <5>3
        <5> QED BY <4>3, <5>4
      <4>4. CASE k + 1 \notin s
        <5>1. s \in SUBSET (1..k)
          BY <4>4
        <5>2. h[s] = Value(g, s)
          <6> HIDE DEF Value
          <6> QED BY <4>1, <5>1
        <5>3. CASE s = {}
          BY <5>2, <5>3
        <5>4. CASE s # {}
          <6>1. s \ {Max(s)} \in SUBSET (1..k)
            BY <5>1
          <6>2. h[s \ {Max(s)}] = g[s \ {Max(s)}]
            <7> HIDE DEF Value
            <7> QED BY <4>1, <6>1
          <6> QED BY <5>2, <5>4, <6>2
        <5> QED BY <5>3, <5>4
      <4> QED BY <4>3, <4>4
    <3>3. h = [s \in SUBSET (1..(k + 1)) |-> h[s]]
      OBVIOUS
    <3> HIDE DEF h, Value
    <3>4. h = [s \in SUBSET (1..(k + 1)) |-> Value(h, s)]
      BY <3>2, <3>3
    <3>5. \E f : f = [s \in SUBSET (1..(k + 1)) |-> Value(f, s)]
      BY <3>4
    <3> QED BY <3>5
  <2> HIDE DEF Good
  <2>3. n \in Good
    BY <2>1, <2>2, Induction
  <2> QED BY <2>3 DEF Good
<1> HIDE DEF Fold
<1>3. Fold = Folded(Fold)
  BY <1>2 DEF Fold
<1>4. \A s \in SUBSET (1..n) : Fold[s] = Value(Fold, s)
  <2> HIDE DEF Value
  <2> QED BY <1>3
<1> DEFINE f == [i \in 0..n |-> Fold[1..i]]
<1>5. f[0] = base
  <2>1. 0 \in 0..n /\ 1..0 = {} /\ {} \in SUBSET (1..n)
    OBVIOUS
  <2> QED BY <1>4, <2>1
<1>6. ASSUME NEW i \in 1..n PROVE f[i] = DepacketizeOne(f[i - 1], packets[i])
  <2>1. /\ 1..i \in SUBSET (1..n) /\ 1..i # {} /\ (1..i) \ {i} = 1..(i - 1)
        /\ i \in Nat \ {0} /\ i \in 1..i
    <3>1. i \in Nat \ {0} /\ i <= n
      OBVIOUS
    <3>2. i \in 1..i
      BY <3>1
    <3>3. \A x : x \in (1..i) \ {i} <=> x \in 1..(i - 1)
      BY <3>1
    <3>4. \A x \in 1..i : x \in 1..n
      BY <3>1
    <3> QED BY <3>1, <3>2, <3>3, <3>4
  <2>2. Max(1..i) = i
    BY <2>1, MaxOfRange
  <2>3. Fold[1..i] = DepacketizeOne(Fold[(1..i) \ {Max(1..i)}], packets[Max(1..i)])
    BY <1>4, <2>1
  <2>4. i \in 0..n /\ i - 1 \in 0..n
    OBVIOUS
  <2>5. f[i] = Fold[1..i] /\ f[i - 1] = Fold[1..(i - 1)]
    BY <2>4
  <2> HIDE DEF f
  <2> QED BY <2>1, <2>2, <2>3, <2>5
<1>7. f[n] = Fold[1..n]
  OBVIOUS
<1> HIDE DEF f
<1> QED BY <1>1, <1>5, <1>6, <1>7 DEF Stepwise

\* A unit that is taken to hold a picture has a packet with a part of one.
LEMMA PictureHasPacket ==
  ASSUME NEW n \in Nat, NEW packets, DOMAIN packets = 1..n, Depacketize(packets).idr
  PROVE  \E i \in DOMAIN packets : packets[i].nal = "idr"
<1> DEFINE Unit(u) == u = [error |-> u.error, open |-> u.open, idr |-> u.idr,
                           sps |-> u.sps, pps |-> u.pps]
<1>0. \E f : Stepwise(f, Blank, packets, n)
  BY ONLY DOMAIN packets = 1..n, n \in Nat, FoldIsStepwise
<1>1. PICK f : /\ Payloads(Blank, packets) = f[n]
               /\ f[0] = Blank
               /\ \A i \in 1..n : f[i] = DepacketizeOne(f[i - 1], packets[i])
  BY <1>0 DEF Stepwise
<1> USE DEF Blank
<1>2. Unit(f[n]) /\ f[n].idr
  <2>1. Unit(f[n])
    <3> DEFINE Good == {k \in Nat : k <= n => Unit(f[k])}
    <3>1. 0 \in Good
      BY <1>1
    <3>2. ASSUME NEW k \in Nat, k \in Good PROVE k + 1 \in Good
      <4> SUFFICES ASSUME k + 1 <= n PROVE Unit(f[k + 1])
        OBVIOUS
      <4>1. f[k + 1] = DepacketizeOne(f[k], packets[k + 1])
        BY <1>1
      <4>2. Unit(f[k])
        BY <3>2
      <4> QED BY <4>1, <4>2 DEF DepacketizeOne
    <3> HIDE DEF Good
    <3>3. n \in Good
      BY <3>1, <3>2, Induction
    <3> QED BY <3>3 DEF Good
  <2>2. \/ Depacketize(packets) = [Blank EXCEPT !.error = "invalid"]
        \/ Depacketize(packets) = [Payloads(Blank, packets) EXCEPT !.error = "incomplete"]
        \/ Depacketize(packets) = Payloads(Blank, packets)
    BY DEF Depacketize, Payloads
  <2>3. CASE Depacketize(packets) = [Blank EXCEPT !.error = "invalid"]
    BY <2>3
  <2>4. CASE Depacketize(packets) # [Blank EXCEPT !.error = "invalid"]
    <3>1. \/ Depacketize(packets) = [f[n] EXCEPT !.error = "incomplete"]
          \/ Depacketize(packets) = f[n]
      BY ONLY <1>1, <2>2, <2>4
    <3>2. [f[n] EXCEPT !.error = "incomplete"].idr = f[n].idr
      BY <2>1
    <3> QED BY ONLY <2>1, <3>1, <3>2, Depacketize(packets).idr
  <2> QED BY <2>3, <2>4
<1>3. ASSUME NEW p, p.nal # "idr" PROVE Completes(p, "idr") = FALSE
  BY <1>3 DEF Completes
<1>4. CASE \A i \in 1..n : packets[i].nal # "idr"
  <2> DEFINE Bare(u) == Unit(u) /\ u.idr = FALSE
             Good == {k \in Nat : k <= n => Bare(f[k])}
  <2>1. 0 \in Good
    BY <1>1
  <2>2. ASSUME NEW k \in Nat, k \in Good PROVE k + 1 \in Good
    <3>1. ASSUME k + 1 <= n PROVE Bare(f[k + 1])
      <4>1. f[k + 1] = DepacketizeOne(f[k], packets[k + 1]) /\ packets[k + 1].nal # "idr"
        BY <1>1, <1>4, <3>1
      <4>2. Bare(f[k])
        <5> HIDE DEF Bare
        <5>1. k <= n
          BY <3>1
        <5> QED BY <2>2, <5>1
      <4>3. Completes(packets[k + 1], "idr") = FALSE
        BY <1>3, <4>1
      <4> QED BY <4>1, <4>2, <4>3 DEF DepacketizeOne
    <3> HIDE DEF Bare
    <3> QED BY <3>1
  <2> HIDE DEF Good
  <2>3. n \in Good
    BY <2>1, <2>2, Induction
  <2> QED BY <1>2, <2>3 DEF Good
<1> QED BY <1>4

-----------------------------------------------------------------------------
(* What is kept of the packets is what was sent                            *)

\* The anchor is where the packets of a unit end that is over.
Rooted(s) == s.anchor.next # NoSeq => s.anchor.ts \in Over(s) /\ Follows(s.anchor.next, s.anchor.ts)

\* The open unit is made of packets that were sent.
Genuine(s) ==
  /\ s.pending # NoUnit => Own(s.pending)
  /\ s.draining # NoUnit => SentAs(s.draining.last, s.draining.ts)
  /\ Rooted(s)

\* A packet as it was sent, whatever became of its form.
SentPacket(p) ==
  /\ p \in Packets
  /\ \E i \in DOMAIN Sent : /\ p.ts = Sent[i].ts /\ p.seq = Sent[i].seq
                            /\ p.form = "ok" => p = Sent[i]

\* The memory gains no unit but the one that is remembered.
LEMMA MemoryGainsOne ==
  ASSUME NEW c, Memory(c), NEW ts \in Stamps, NEW f \in MaybeSeq
  PROVE  LET longer == Append(c, [ts |-> ts, frontier |-> f])
             r == IF Len(longer) > MaxCompleted THEN Tail(longer) ELSE longer
         IN  \A j \in DOMAIN r : r[j].ts = ts \/ \E i \in DOMAIN c : r[j].ts = c[i].ts
<1> DEFINE E == [ts : Stamps, frontier : MaybeSeq]
           e == [ts |-> ts, frontier |-> f]
           longer == Append(c, e)
           r == IF Len(longer) > MaxCompleted THEN Tail(longer) ELSE longer
<1>1. c \in Seq(E) /\ Len(c) \in Nat /\ DOMAIN c = 1..Len(c)
  BY DEF Memory
<1>2. e \in E /\ e.ts = ts
  OBVIOUS
<1> HIDE DEF E, e
<1>3. /\ longer \in Seq(E) /\ Len(longer) = Len(c) + 1
      /\ \A i \in 1..Len(c) : longer[i] = c[i]
      /\ longer[Len(c) + 1] = e
  BY <1>1, <1>2
<1> HIDE DEF longer
<1>4. \A j \in 1..Len(longer) : longer[j].ts = ts \/ \E i \in DOMAIN c : longer[j].ts = c[i].ts
  BY <1>1, <1>2, <1>3
<1>5. CASE r = longer
  <2>1. DOMAIN r = 1..Len(longer)
    BY <1>3, <1>5
  <2> HIDE DEF r
  <2> QED BY <1>4, <1>5, <2>1 DEF r, longer, e
<1>6. CASE r = Tail(longer)
  <2>1. /\ DOMAIN Tail(longer) = 1..Len(c)
        /\ \A j \in 1..Len(c) : Tail(longer)[j] = longer[j + 1]
    BY <1>1, <1>3
  <2>2. \A j \in 1..Len(c) : j + 1 \in 1..Len(longer)
    BY <1>1, <1>3
  <2> HIDE DEF r
  <2> QED BY <1>4, <1>6, <2>1, <2>2 DEF r, longer, e
<1> QED BY <1>5, <1>6

\* A unit that is over is remembered, and no other.
LEMMA RemembersOne ==
  ASSUME NEW s, StreamTyped(s), NEW ts \in Stamps, NEW f \in MaybeSeq,
         NEW r, r = Remember(s, ts, f)
  PROVE  Over(r) \subseteq Over(s) \cup {ts}
<1>1. CASE Remembered(s, ts)
  BY <1>1 DEF Remember
<1>2. CASE ~Remembered(s, ts)
  <2> DEFINE c == s.completed
             longer == Append(c, [ts |-> ts, frontier |-> f])
             d == IF Len(longer) > MaxCompleted THEN Tail(longer) ELSE longer
  <2>1. r = [s EXCEPT !.completed = d]
    BY <1>2 DEF Remember
  <2>2. Memory(c) /\ Shaped(s)
    BY DEF StreamTyped
  <2>3. \A j \in DOMAIN d : d[j].ts = ts \/ \E i \in DOMAIN c : d[j].ts = c[i].ts
    BY <2>2, MemoryGainsOne
  <2> HIDE DEF d
  <2>4. r.completed = d
    BY <2>1, <2>2 DEF Shaped
  <2> QED BY <2>3, <2>4 DEF Over
<1> QED BY <1>1, <1>2

\* The anchor after a unit that is over.
LEMMA Anchored ==
  ASSUME NEW s, StreamTyped(s), NEW ts, NEW next \in MaybeSeq, NEW r,
         \/ r = SetAnchor(s, ts, next) /\ ts \in Over(s) /\ Follows(next, ts)
         \/ r = ClearAnchor(s)
  PROVE  /\ StreamTyped(r) /\ r.pending = s.pending /\ r.draining = s.draining
         /\ Over(r) = Over(s) /\ Rooted(r)
<1> DEFINE a == [ts |-> ts, next |-> next]
<1>1. Anchor(a) /\ Anchor(NoAnchor) /\ a.ts = ts /\ a.next = next
  BY AnchorsAre
<1> HIDE DEF a
<1>2. CASE r = SetAnchor(s, ts, next) /\ ts \in Over(s) /\ Follows(next, ts)
  <2>1. r = [s EXCEPT !.anchor = a]
    BY <1>2 DEF SetAnchor, a
  <2>2. /\ StreamTyped(r) /\ r.anchor = a
        /\ r.pending = s.pending /\ r.draining = s.draining /\ r.completed = s.completed
    BY <1>1, <2>1, SetAnchors
  <2> QED BY <1>1, <1>2, <2>2 DEF Over, Rooted
<1>3. CASE r = ClearAnchor(s)
  <2>1. r = [s EXCEPT !.anchor = NoAnchor]
    BY <1>3 DEF ClearAnchor
  <2>2. /\ StreamTyped(r) /\ r.anchor = NoAnchor
        /\ r.pending = s.pending /\ r.draining = s.draining /\ r.completed = s.completed
    BY <1>1, <2>1, SetAnchors
  <2> QED BY <2>2 DEF Over, Rooted, NoAnchor
<1> QED BY <1>2, <1>3

\* A unit ends: it is remembered, and the anchor is where its packets ended, or none.
LEMMA Ends ==
  ASSUME NEW s, StreamTyped(s), NEW ts \in Stamps, NEW f \in MaybeSeq, NEW next \in MaybeSeq,
         NEW over, over = Remember(s, ts, f), NEW r,
         (r = SetAnchor(over, ts, next) /\ Follows(next, ts)) \/ r = ClearAnchor(over)
  PROVE  /\ StreamTyped(r) /\ r.pending = s.pending /\ r.draining = s.draining
         /\ Over(r) \subseteq Over(s) \cup {ts} /\ Rooted(r)
<1>1. /\ StreamTyped(over) /\ over.pending = s.pending /\ over.draining = s.draining
      /\ ts \in Over(over)
  BY Remembers
<1>2. Over(over) \subseteq Over(s) \cup {ts}
  BY RemembersOne
<1>3. /\ StreamTyped(r) /\ r.pending = over.pending /\ r.draining = over.draining
      /\ Over(r) = Over(over) /\ Rooted(r)
  BY <1>1, Anchored
<1> QED BY <1>1, <1>2, <1>3

\* The last packet of a unit is followed by what comes after it.
LEMMA LastIsFollowed ==
  ASSUME NEW q, NEW t
  PROVE  /\ LastOf(q, t) => Follows(After(q), t)
         /\ SentAs(q, t) => Follows(After(q), t)
  BY DEF LastOf, SentAs, Follows

\* A unit that is dropped leaves nothing that was not sent.
LEMMA DiscardsGenuine ==
  ASSUME NEW s, StreamTyped(s), Genuine(s), NEW r, r = DiscardPending(s)
  PROVE  Genuine(r) /\ Over(r) \subseteq Over(s) \cup Filed(s)
<1>1. CASE s.pending = NoUnit
  BY <1>1 DEF DiscardPending
<1>2. CASE s.pending # NoUnit
  <2> DEFINE u == s.pending
             t == [s EXCEPT !.pending = NoUnit]
             over == Remember(t, u.ts, u.frontier)
             next == IF u.marker = NoSeq THEN NoSeq ELSE After(u.marker)
  <2>1. PendingUnit(u) /\ s.draining = NoUnit /\ Own(u)
    BY <1>2 DEF StreamTyped, Genuine
  <2>2. u.ts \in Stamps /\ u.frontier \in MaybeSeq /\ u.marker \in MaybeSeq
    BY <2>1 DEF PendingUnit
  <2>3. StreamTyped(t) /\ t.pending = NoUnit /\ t.draining = NoUnit /\ t.completed = s.completed
    BY <2>1, SetPending
  <2>4. \/ r = SetAnchor(over, u.ts, After(u.marker)) /\ u.explicit
        \/ r = ClearAnchor(over)
    BY <1>2 DEF DiscardPending
  <2>5. next \in MaybeSeq
    BY <2>2, AnchorsAre DEF MaybeSeq
  <2>6. \/ r = SetAnchor(over, u.ts, next) /\ Follows(next, u.ts)
        \/ r = ClearAnchor(over)
    <3> HIDE DEF over
    <3> QED BY <2>1, <2>4, LastIsFollowed DEF Own
  <2> HIDE DEF t, over, next
  <2>7. /\ r.pending = t.pending /\ r.draining = t.draining
        /\ Over(r) \subseteq Over(t) \cup {u.ts} /\ Rooted(r)
    BY <2>2, <2>3, <2>5, <2>6, Ends DEF over
  <2>8. Over(t) = Over(s) /\ Filed(s) = {u.ts}
    BY <1>2, <2>3 DEF Over, Filed
  <2> QED BY <2>3, <2>7, <2>8 DEF Genuine
<1> QED BY <1>1, <1>2

\* Accepting a unit leaves the anchor and the memory; a frame is the packets of
\* the unit, which has a picture.
LEMMA AcceptsUnit ==
  ASSUME NEW s, StreamTyped(s), NEW unit, NEW packets, NEW wanted,
         NEW r, r = Accept(s, unit, packets, wanted)
  PROVE  /\ r.stream.anchor = s.anchor
         /\ r.frame = NoFrame \/ (/\ r.frame.ts = packets[1].ts /\ r.frame.packets = packets
                                  /\ unit.idr)
<1>1. Shaped(s)
  BY DEF StreamTyped
<1>2. r.stream = [s EXCEPT !.sps = Prefer(unit.sps, @), !.pps = Prefer(unit.pps, @)]
  BY DEF Accept
<1>3. r.stream.anchor = s.anchor
  BY <1>1, <1>2 DEF Shaped
<1>4. r.frame = NoFrame \/ (/\ r.frame.ts = packets[1].ts /\ r.frame.packets = packets
                            /\ unit.idr)
  BY DEF Accept
<1> QED BY <1>3, <1>4

\* So does the end of the unit being drained.
LEMMA FinishesGenuine ==
  ASSUME NEW s, StreamTyped(s), Genuine(s), s.draining # NoUnit, NEW next \in SeqNos,
         NEW seenMarker, NEW r, r = FinishDrainUnit(s, next, seenMarker)
  PROVE  Genuine(r) /\ Over(r) \subseteq Over(s) \cup {s.draining.ts}
<1> DEFINE u == s.draining
           t == [s EXCEPT !.draining = NoUnit]
           over == Remember(t, u.ts, u.last)
           continuous == next = After(u.last)
           anchored == IF continuous /\ (seenMarker \/ ~u.sequenceGap)
                       THEN SetAnchor(over, u.ts, next) ELSE ClearAnchor(over)
           unit == [idr |-> FALSE, sps |-> u.sps, pps |-> u.pps]
           taken == Accept(anchored, unit, <<>>, FALSE).stream
<1>1. u.ts \in Stamps /\ u.last \in MaybeSeq /\ s.pending = NoUnit /\ next \in MaybeSeq
  BY DEF StreamTyped, DrainingUnit, MaybeSeq
<1>2. StreamTyped(t) /\ t.pending = NoUnit /\ t.draining = NoUnit /\ t.completed = s.completed
  BY <1>1, SetDraining
<1>3. Follows(After(u.last), u.ts)
  BY LastIsFollowed DEF Genuine
<1>4. \/ anchored = SetAnchor(over, u.ts, next) /\ Follows(next, u.ts)
      \/ anchored = ClearAnchor(over)
  <2> HIDE DEF over
  <2> QED BY <1>3
<1>5. r = anchored \/ r = taken
  BY DEF FinishDrainUnit
<1> HIDE DEF t, anchored
<1>6. /\ StreamTyped(anchored) /\ anchored.pending = NoUnit /\ anchored.draining = NoUnit
      /\ Over(anchored) \subseteq Over(t) \cup {u.ts} /\ Rooted(anchored)
  <2> HIDE DEF over, u
  <2> QED BY <1>1, <1>2, <1>4, Ends DEF over
<1>7. Over(t) = Over(s)
  BY <1>2 DEF Over
<1> HIDE DEF over
<1>8. /\ taken.pending = NoUnit /\ taken.draining = NoUnit
      /\ taken.completed = anchored.completed /\ taken.anchor = anchored.anchor
  <2> DEFINE nothing == <<>>
             no == FALSE
             a == Accept(anchored, unit, nothing, no)
  <2> HIDE DEF nothing, no, unit
  <2>1. /\ a.stream.pending = anchored.pending /\ a.stream.draining = anchored.draining
        /\ a.stream.completed = anchored.completed
    BY <1>6, Accepts
  <2>2. a.stream.anchor = anchored.anchor
    BY <1>6, AcceptsUnit
  <2> QED BY <1>6, <2>1, <2>2 DEF nothing, no
<1> HIDE DEF taken
<1>9. /\ r.pending = NoUnit /\ r.draining = NoUnit
      /\ r.completed = anchored.completed /\ r.anchor = anchored.anchor
  BY <1>5, <1>6, <1>8
<1>10. Over(r) = Over(anchored) /\ Rooted(r)
  BY <1>6, <1>9 DEF Over, Rooted
<1> QED BY <1>6, <1>7, <1>9, <1>10 DEF Genuine

\* What is known of a packet that was sent.
LEMMA SentPacketIs ==
  ASSUME NEW p, SentPacket(p)
  PROVE  /\ p \in Packets /\ p.ts \in Stamps /\ p.seq \in SeqNos /\ After(p.seq) \in SeqNos
         /\ SentAs(p.seq, p.ts) /\ Follows(After(p.seq), p.ts)
<1>1. p \in Packets /\ SentAs(p.seq, p.ts)
  BY DEF SentPacket, SentAs
<1>2. p.ts \in Stamps /\ p.seq \in SeqNos
  BY <1>1 DEF Packets
<1> QED BY <1>1, <1>2, LastIsFollowed, AnchorsAre

\* The unit being drained keeps the number of a packet it was sent with.
LEMMA DrainingGenuine ==
  ASSUME NEW s, StreamTyped(s), Genuine(s), NEW p, SentPacket(p), Drained(s) \subseteq {p.ts},
         NEW v, v = DrainPayload(DrainSequence(s, p), p)
  PROVE  SentAs(v.last, p.ts)
<1> DEFINE w == DrainSequence(s, p)
<1>1. SentAs(p.seq, p.ts) /\ p \in Packets
  BY SentPacketIs
<1>2. DrainingUnit(w) /\ SentAs(w.last, p.ts)
  <2>1. CASE s.draining = NoUnit
    <3> DEFINE gap == s.anchor # NoAnchor /\ p.seq # s.anchor.next
               fresh == [ts |-> p.ts, anchored |-> s.anchor # NoAnchor, last |-> p.seq,
                         invalid |-> gap, sequenceGap |-> gap, count |-> 0, open |-> "none",
                         sps |-> NoParameter, pps |-> NoParameter]
    <3>1. w = fresh
      BY <2>1 DEF DrainSequence
    <3>2. p.ts \in Stamps /\ p.seq \in SeqNos
      BY SentPacketIs
    <3> HIDE DEF gap, w
    <3> QED BY <1>1, <3>1, <3>2 DEF DrainingUnit
  <2>2. CASE s.draining # NoUnit
    <3> DEFINE u == s.draining
               gap == Minus(p.seq, u.last) # 1
               last == IF Ahead(p.seq, u.last) THEN p.seq ELSE u.last
    <3>1. DrainingUnit(u) /\ u.ts = p.ts /\ SentAs(u.last, p.ts)
      BY <2>2 DEF StreamTyped, Drained, Genuine
    <3>2. w = [u EXCEPT !.invalid = @ \/ gap, !.sequenceGap = @ \/ gap, !.last = last]
      BY <2>2 DEF DrainSequence
    <3>3. SentAs(last, p.ts) /\ last \in SeqNos
      BY <1>1, <3>1, SentPacketIs DEF DrainingUnit
    <3> HIDE DEF gap, last, w
    <3> QED BY <3>1, <3>2, <3>3 DEF DrainingUnit
  <2> QED BY <2>1, <2>2
<1> HIDE DEF w
<1> DEFINE check == CheckPayload(p, w.open)
<1>3. \/ v = [w EXCEPT !.invalid = TRUE] \/ v = [w EXCEPT !.count = @ + 1]
      \/ v = [w EXCEPT !.count = @ + 1, !.invalid = TRUE]
      \/ v = [w EXCEPT !.count = @ + 1, !.open = check.open,
                       !.sps = Newest(p, "sps", @), !.pps = Newest(p, "pps", @)]
  BY DEF DrainPayload, w
<1> HIDE DEF check
<1>4. v.last = w.last
  BY <1>2, <1>3 DEF DrainingUnit
<1> QED BY <1>2, <1>4

\* A late packet of a unit that is over.
LEMMA RejectsGenuine ==
  ASSUME NEW s, StreamTyped(s), Genuine(s), NEW p, SentPacket(p), Remembered(s, p.ts),
         NEW r, r = RejectCompleted(s, p)
  PROVE  Genuine(r)
<1> DEFINE i == CHOOSE j \in DOMAIN s.completed : s.completed[j].ts = p.ts
           moved == [s EXCEPT !.completed[i].frontier = p.seq]
           cleared == [ClearAnchor(moved) EXCEPT
                         !.pending = IF @ = NoUnit THEN @ ELSE [@ EXCEPT !.expected = NoSeq],
                         !.draining = IF @ = NoUnit THEN @ ELSE [@ EXCEPT !.anchored = FALSE]]
<1>1. Shaped(s) /\ p \in Packets
  BY DEF StreamTyped, SentPacket
<1>2. Over(r) = Over(s)
  BY <1>1, Rejects
<1>3. r = s \/ r = moved \/ r = cleared
  BY DEF RejectCompleted
<1>4. /\ moved.pending = s.pending /\ moved.draining = s.draining /\ moved.anchor = s.anchor
      /\ Shaped(moved)
  <2> DEFINE d == [s.completed EXCEPT ![i].frontier = p.seq]
  <2>1. moved = [s EXCEPT !.completed = d]
    OBVIOUS
  <2> HIDE DEF d, moved
  <2>2. moved = [pending |-> s.pending, draining |-> s.draining, sps |-> s.sps, pps |-> s.pps,
                 anchor |-> s.anchor, completed |-> d]
    BY <1>1, <2>1, Parts
  <2> QED BY <2>2 DEF Shaped
<1> HIDE DEF moved
<1>5. CASE r = s
  BY <1>5
<1>6. CASE r = moved
  BY <1>2, <1>4, <1>6 DEF Genuine, Rooted
<1>7. CASE r = cleared
  <2> DEFINE pd == IF s.pending = NoUnit THEN NoUnit ELSE [s.pending EXCEPT !.expected = NoSeq]
             dr == IF s.draining = NoUnit THEN NoUnit ELSE [s.draining EXCEPT !.anchored = FALSE]
  <2>1. r.anchor = NoAnchor /\ r.pending = pd /\ r.draining = dr
    <3>1. ClearAnchor(moved) = [pending |-> s.pending, draining |-> s.draining,
                                sps |-> moved.sps, pps |-> moved.pps, anchor |-> NoAnchor,
                                completed |-> moved.completed]
      BY <1>4 DEF Shaped, ClearAnchor
    <3> QED BY <1>7, <3>1
  <2> HIDE DEF pd, dr
  <2>2. pd # NoUnit => Own(pd)
    <3> SUFFICES ASSUME s.pending # NoUnit PROVE Own(pd)
      BY DEF pd
    <3>1. PendingUnit(s.pending) /\ Own(s.pending)
      BY DEF StreamTyped, Genuine
    <3>2. pd = [s.pending EXCEPT !.expected = NoSeq]
      BY DEF pd
    <3>3. /\ pd.ts = s.pending.ts /\ pd.packets = s.pending.packets /\ pd.marker = s.pending.marker
          /\ pd.explicit = s.pending.explicit /\ pd.expected = NoSeq
      BY <3>1, <3>2 DEF PendingUnit
    <3> QED BY <3>1, <3>3 DEF Own
  <2>3. dr # NoUnit => SentAs(dr.last, dr.ts)
    <3> SUFFICES ASSUME s.draining # NoUnit PROVE SentAs(dr.last, dr.ts)
      BY DEF dr
    <3>1. DrainingUnit(s.draining) /\ SentAs(s.draining.last, s.draining.ts)
      BY DEF StreamTyped, Genuine
    <3>2. dr = [s.draining EXCEPT !.anchored = FALSE]
      BY DEF dr
    <3>3. dr.last = s.draining.last /\ dr.ts = s.draining.ts
      BY <3>1, <3>2 DEF DrainingUnit
    <3> QED BY <3>1, <3>3
  <2> QED BY <2>1, <2>2, <2>3 DEF Genuine, Rooted, NoAnchor
<1> QED BY <1>3, <1>5, <1>6, <1>7

\* Draining a packet.
LEMMA DrainsGenuine ==
  ASSUME NEW s, StreamTyped(s), Genuine(s), s.pending = NoUnit, NEW p, SentPacket(p),
         NEW r, r = DrainPacket(s, p)
  PROVE  Genuine(r)
<1>0. p \in Packets
  BY DEF SentPacket
<1>1. CASE Remembered(s, p.ts)
  <2>1. r = RejectCompleted(s, p)
    BY <1>1 DEF DrainPacket
  <2> QED BY <1>1, <2>1, RejectsGenuine
<1>2. CASE ~Remembered(s, p.ts)
  <2> DEFINE moved == IF s.draining # NoUnit /\ s.draining.ts # p.ts
                      THEN FinishDrainUnit(s, p.seq, FALSE) ELSE s
             v == DrainPayload(DrainSequence(moved, p), p)
             filled == [moved EXCEPT !.draining = v]
  <2>1. p.seq \in SeqNos /\ After(p.seq) \in SeqNos
    BY SentPacketIs
  <2>2. /\ StreamTyped(moved) /\ moved.pending = NoUnit /\ Drained(moved) \subseteq {p.ts}
        /\ Genuine(moved)
    <3>1. CASE s.draining # NoUnit /\ s.draining.ts # p.ts
      <4>1. moved = FinishDrainUnit(s, p.seq, FALSE)
        BY <3>1
      <4>2. StreamTyped(moved) /\ moved.pending = NoUnit /\ moved.draining = NoUnit
        BY <2>1, <3>1, <4>1, FinishesDraining
      <4>3. Genuine(moved)
        BY <2>1, <3>1, <4>1, FinishesGenuine
      <4> HIDE DEF moved
      <4> QED BY <4>2, <4>3 DEF Drained
    <3>2. CASE ~(s.draining # NoUnit /\ s.draining.ts # p.ts)
      <4>1. moved = s
        BY <3>2
      <4> HIDE DEF moved
      <4> QED BY <3>2, <4>1 DEF Drained
    <3> QED BY <3>1, <3>2
  <2> HIDE DEF moved
  <2>3. DrainingUnit(v) /\ v.ts = p.ts
    BY <1>0, <2>2, Draining
  <2>4. SentAs(v.last, v.ts)
    BY <2>2, <2>3, DrainingGenuine
  <2> HIDE DEF v
  <2>5. /\ StreamTyped(filled) /\ filled.draining = v /\ filled.pending = NoUnit
        /\ filled.completed = moved.completed /\ filled.anchor = moved.anchor
    BY <2>2, <2>3, SetDraining
  <2> HIDE DEF filled
  <2>6. Genuine(filled) /\ filled.draining # NoUnit
    BY <2>2, <2>3, <2>4, <2>5, UnitsAreUnits DEF Genuine, Rooted, Over
  <2>7. r = FinishDrainUnit(filled, After(p.seq), TRUE) \/ r = filled
    BY <1>2 DEF DrainPacket, filled, v, moved
  <2>8. CASE r = FinishDrainUnit(filled, After(p.seq), TRUE)
    BY <2>1, <2>5, <2>6, <2>8, FinishesGenuine
  <2> QED BY <2>6, <2>7, <2>8
<1> QED BY <1>1, <1>2

\* A waiter spoils the unit in flight, which stays what was sent.
LEMMA BeginsGenuine ==
  ASSUME NEW s, StreamTyped(s), Genuine(s), NEW r, r = BeginWait(s)
  PROVE  Genuine(r)
<1>1. CASE s.draining = NoUnit
  BY <1>1 DEF BeginWait
<1>2. CASE s.draining # NoUnit
  <2> DEFINE u == s.draining
             v == [u EXCEPT !.invalid = TRUE, !.sps = NoParameter, !.pps = NoParameter]
  <2>1. DrainingUnit(u) /\ SentAs(u.last, u.ts)
    BY <1>2 DEF StreamTyped, Genuine
  <2>2. v.last = u.last /\ v.ts = u.ts
    BY <2>1 DEF DrainingUnit
  <2>3. Shaped(s)
    BY DEF StreamTyped
  <2>4. r = [s EXCEPT !.draining = v]
    <3>1. r = [s EXCEPT !.draining.invalid = TRUE, !.draining.sps = NoParameter,
                        !.draining.pps = NoParameter]
      BY <1>2 DEF BeginWait
    <3> QED BY <2>1, <2>3, <3>1 DEF Shaped, DrainingUnit
  <2> HIDE DEF v
  <2>5. /\ r.draining = v /\ r.pending = s.pending /\ r.completed = s.completed
        /\ r.anchor = s.anchor
    BY <2>3, <2>4, Parts
  <2> QED BY <2>1, <2>2, <2>5 DEF Genuine, Rooted, Over
<1> QED BY <1>1, <1>2

\* The time limit ends the open unit or leaves it.
LEMMA ExpiresGenuine ==
  ASSUME NEW s, StreamTyped(s), Genuine(s), NEW late, NEW r, r = Expire(s, late)
  PROVE  Genuine(r)
<1>1. CASE r = s
  BY <1>1
<1>2. CASE r = DiscardPending(s)
  BY <1>2, DiscardsGenuine
<1>3. CASE s.pending = NoUnit /\ s.draining # NoUnit /\ r # s
  <2> DEFINE u == s.draining
             t == [s EXCEPT !.draining = NoUnit]
             over == Remember(t, u.ts, u.last)
  <2>1. /\ u.ts \in Stamps /\ u.last \in MaybeSeq /\ After(u.last) \in MaybeSeq
        /\ Follows(After(u.last), u.ts)
    BY <1>3, AnchorsAre, LastIsFollowed DEF StreamTyped, DrainingUnit, MaybeSeq, Genuine
  <2>2. StreamTyped(t) /\ t.pending = NoUnit /\ t.draining = NoUnit
    BY <1>3, SetDraining
  <2>3. r = SetAnchor(over, u.ts, After(u.last)) \/ r = ClearAnchor(over)
    BY <1>3 DEF Expire
  <2> HIDE DEF t, over, u
  <2>4. r.pending = t.pending /\ r.draining = t.draining /\ Rooted(r)
    BY <2>1, <2>2, <2>3, Ends DEF over
  <2> QED BY <2>2, <2>4 DEF Genuine
<1>4. \/ r = s \/ r = DiscardPending(s)
      \/ s.pending = NoUnit /\ s.draining # NoUnit /\ r # s
  BY DEF Expire
<1> QED BY <1>1, <1>2, <1>3, <1>4

\* A packet that carries nothing leaves no open unit, and an anchor after itself.
LEMMA PoisonsGenuine ==
  ASSUME NEW s, StreamTyped(s), Genuine(s), NEW p, SentPacket(p), NEW r, r = PoisonPacket(s, p)
  PROVE  Genuine(r)
<1>1. CASE Remembered(s, p.ts)
  BY <1>1 DEF PoisonPacket
<1>2. CASE ~Remembered(s, p.ts)
  <2> DEFINE open == IF s.pending # NoUnit
                     THEN Remember(s, s.pending.ts, s.pending.frontier)
                     ELSE IF s.draining # NoUnit THEN Remember(s, s.draining.ts, s.draining.last)
                     ELSE s
             half == [open EXCEPT !.pending = NoUnit]
             shut == [half EXCEPT !.draining = NoUnit]
             frontier == IF p.form = "empty" THEN p.seq ELSE NoSeq
             over == Remember(shut, p.ts, frontier)
  <2>1. StreamTyped(open)
    <3>1. CASE s.pending # NoUnit
      <4>1. s.pending.ts \in Stamps /\ s.pending.frontier \in MaybeSeq
        BY <3>1 DEF StreamTyped, PendingUnit
      <4> QED BY <3>1, <4>1, Remembers
    <3>2. CASE s.pending = NoUnit /\ s.draining # NoUnit
      <4>1. s.draining.ts \in Stamps /\ s.draining.last \in MaybeSeq
        BY <3>2 DEF StreamTyped, DrainingUnit, MaybeSeq
      <4> QED BY <3>2, <4>1, Remembers
    <3>3. CASE s.pending = NoUnit /\ s.draining = NoUnit
      BY <3>3
    <3> QED BY <3>1, <3>2, <3>3
  <2>2. r = SetAnchor(over, p.ts, After(p.seq)) \/ r = ClearAnchor(over)
    <3>1. shut = [open EXCEPT !.pending = NoUnit, !.draining = NoUnit]
      <4> HIDE DEF open
      <4> QED BY <2>1 DEF StreamTyped, Shaped
    <3> HIDE DEF shut
    <3> QED BY <1>2, <3>1 DEF PoisonPacket
  <2> HIDE DEF open
  <2>3. StreamTyped(half) /\ half.pending = NoUnit
    BY <2>1, SetPending
  <2> HIDE DEF half
  <2>4. StreamTyped(shut) /\ shut.pending = NoUnit /\ shut.draining = NoUnit
    BY <2>3, SetDraining
  <2>5. /\ p.ts \in Stamps /\ frontier \in MaybeSeq /\ After(p.seq) \in MaybeSeq
        /\ Follows(After(p.seq), p.ts)
    BY SentPacketIs DEF MaybeSeq
  <2> HIDE DEF shut, frontier, over
  <2>6. r.pending = shut.pending /\ r.draining = shut.draining /\ Rooted(r)
    BY <2>2, <2>4, <2>5, Ends DEF over
  <2> QED BY <2>4, <2>6 DEF Genuine
<1> QED BY <1>1, <1>2

\* A packet that comes while nobody waits.
LEMMA DrainGenuine ==
  ASSUME NEW s, StreamTyped(s), Genuine(s), NEW p, SentPacket(p), NEW late,
         NEW r, r = Drain(s, p, late)
  PROVE  Genuine(r)
<1> DEFINE now == Expire(s, late)
           dropped == DiscardPending(now)
<1>1. StreamTyped(now) /\ Genuine(now)
  BY Expires, ExpiresGenuine
<1>2. r = PoisonPacket(now, p) \/ r = DrainPacket(dropped, p)
  BY DEF Drain
<1> HIDE DEF now
<1>3. CASE r = PoisonPacket(now, p)
  BY <1>1, <1>3, PoisonsGenuine
<1>4. CASE r = DrainPacket(dropped, p)
  <2>1. StreamTyped(dropped) /\ dropped.pending = NoUnit /\ Genuine(dropped)
    BY <1>1, Discards, DiscardsGenuine
  <2> HIDE DEF dropped
  <2> QED BY <1>4, <2>1, DrainsGenuine
<1> QED BY <1>2, <1>3, <1>4

\* A frame that is one whole unit as it was sent, with a picture.
Whole(f) ==
  /\ Unmarked(f.packets) = Unmarked(SentUnit(f.ts))
  /\ \E i \in DOMAIN f.packets : f.packets[i].nal = "idr"

\* A unit that begins where the anchor says begins after a unit that is over.
LEMMA NewGenuine ==
  ASSUME NEW s, StreamTyped(s), Genuine(s), NEW p, SentPacket(p), ~Remembered(s, p.ts), NEW number
  PROVE  Own(NewPending(s, p, number))
<1> DEFINE u == NewPending(s, p, number)
<1>1. /\ u.ts = p.ts /\ u.packets = <<>> /\ u.expected = s.anchor.next
      /\ u.marker = NoSeq /\ u.explicit = FALSE
  BY DEF NewPending
<1> HIDE DEF u
<1>2. u.expected # NoSeq => \E t \in Stamps \ {u.ts} : Follows(u.expected, t)
  <2> SUFFICES ASSUME s.anchor.next # NoSeq
               PROVE  \E t \in Stamps \ {p.ts} : Follows(s.anchor.next, t)
    BY <1>1
  <2>1. s.anchor.ts \in Over(s) /\ Follows(s.anchor.next, s.anchor.ts)
    BY DEF Genuine, Rooted
  <2>2. s.anchor.ts # p.ts
    BY <2>1, RememberedIsOver
  <2>3. s.anchor.ts \in Stamps
    <3>1. PICK i \in DOMAIN Sent : Sent[i].ts = s.anchor.ts
      BY <2>1 DEF Follows
    <3>2. Sent[i] \in Packets
      BY SentIsOrdered
    <3> QED BY <3>1, <3>2 DEF Packets
  <2> QED BY <2>1, <2>2, <2>3
<1> QED BY <1>1, <1>2 DEF Own, u

\* Observing the number of a packet, and its marker.
LEMMA ObservesGenuine ==
  ASSUME NEW u, PendingUnit(u), Own(u), NEW p, SentPacket(p), p.ts = u.ts, p.form = "ok"
  PROVE  Own(ObserveSequence(u, p.seq)) /\ Own(SetMarker(u, p))
<1>1. Own(ObserveSequence(u, p.seq))
  <2> DEFINE f == IF u.frontier = NoSeq \/ Ahead(p.seq, u.frontier) THEN p.seq ELSE u.frontier
             v == ObserveSequence(u, p.seq)
  <2>1. v = [u EXCEPT !.frontier = f]
    BY DEF ObserveSequence
  <2> HIDE DEF f, v
  <2>2. /\ v.ts = u.ts /\ v.packets = u.packets /\ v.expected = u.expected
        /\ v.marker = u.marker /\ v.explicit = u.explicit
    BY <2>1 DEF PendingUnit
  <2> QED BY <2>2 DEF Own, v
<1>2. Own(SetMarker(u, p))
  <2> DEFINE v == SetMarker(u, p)
  <2>1. CASE ~p.marker
    BY <2>1 DEF SetMarker
  <2>2. CASE p.marker
    <3>1. v = [u EXCEPT !.marker = p.seq, !.explicit = TRUE]
      BY <2>2 DEF SetMarker
    <3> HIDE DEF v
    <3>2. /\ v.ts = u.ts /\ v.packets = u.packets /\ v.expected = u.expected
          /\ v.marker = p.seq
      BY <3>1 DEF PendingUnit
    <3>3. p.seq # NoSeq
      BY SentPacketIs, UnitsAreUnits
    <3>4. LastOf(p.seq, p.ts)
      <4>1. PICK i \in DOMAIN Sent : p = Sent[i]
        BY DEF SentPacket
      <4>2. \A j \in DOMAIN Sent : i < j => Sent[i].ts < Sent[j].ts /\ Sent[i].marker
        BY <2>2, <4>1, SentIsOrdered
      <4>3. \A j \in DOMAIN Sent : Sent[j].ts \in Int
        <5>1. \A j \in DOMAIN Sent : Sent[j] \in Packets
          BY SentIsOrdered
        <5> QED BY <5>1 DEF Packets, Stamps
      <4>4. \A j \in DOMAIN Sent : j > i => Sent[j].ts # p.ts
        BY <4>1, <4>2, <4>3, SentIsOrdered
      <4> QED BY <4>1, <4>4 DEF LastOf
    <3> QED BY <3>2, <3>3, <3>4 DEF Own, v
  <2> QED BY <2>1, <2>2
<1> QED BY <1>1, <1>2

\* Filing a packet with those of its unit.
LEMMA FilesGenuine ==
  ASSUME NEW u, PendingUnit(u), Own(u), NEW p, SentPacket(p), p.ts = u.ts, p.form = "ok"
  PROVE  Own(AddPacket(u, p))
<1> DEFINE packets == [q \in DOMAIN u.packets \cup {p.seq} |->
                         IF q = p.seq THEN p ELSE u.packets[q]]
           next == FirstMissing(packets, WindowStart(u, p.seq))
           w == ObserveSequence(u, p.seq)
           base == IF u.expected = NoSeq THEN Minus(next, 1) ELSE w.reorderBase
           r == AddPacket(u, p)
<1>1. PendingUnit(w) /\ Own(w) /\ w.ts = u.ts
  <2>1. p \in Packets
    BY DEF SentPacket
  <2> QED BY <2>1, Observes, ObservesGenuine
<1>2. r = [w EXCEPT !.packets = packets, !.reorderNext = next, !.reorderBase = base]
  <2> HIDE DEF packets
  <2> QED BY <1>1 DEF AddPacket, packets, PendingUnit
<1>3. \A q \in DOMAIN packets :
        \E i \in DOMAIN Sent : Sent[i].seq = q /\ Plain(packets[q]) = Plain(Sent[i])
  <2> TAKE q \in DOMAIN packets
  <2>1. CASE q = p.seq
    <3>1. PICK i \in DOMAIN Sent : p = Sent[i]
      BY DEF SentPacket
    <3> QED BY <2>1, <3>1
  <2>2. CASE q # p.seq
    <3>1. q \in DOMAIN u.packets /\ packets[q] = u.packets[q]
      BY <2>2
    <3> HIDE DEF packets
    <3> QED BY <3>1 DEF Own
  <2> QED BY <2>1, <2>2
<1> HIDE DEF packets, next, base, w, r
<1>4. /\ r.ts = w.ts /\ r.packets = packets /\ r.expected = w.expected
      /\ r.marker = w.marker /\ r.explicit = w.explicit
  BY <1>1, <1>2 DEF PendingUnit
<1> QED BY <1>1, <1>3, <1>4 DEF Own, r

\* The pending unit ends: what follows it is the anchor, and a frame is whole.
LEMMA EndsGenuine ==
  ASSUME Short, NEW s, StreamTyped(s), Genuine(s), s.draining = NoUnit,
         NEW u, PendingUnit(u), Own(u), Complete(u),
         NEW unit, unit = Depacketize(OrderedPackets(u)),
         NEW next \in SeqNos, Follows(next, u.ts), NEW mark, NEW wanted,
         NEW r, r = FinishPending(s, u, unit, next, mark, wanted)
  PROVE  /\ Genuine(r.stream) /\ Over(r.stream) \subseteq Over(s) \cup {u.ts}
         /\ r.frame = NoFrame \/ Whole(r.frame)
<1> DEFINE t == [s EXCEPT !.pending = NoUnit]
           anchored == SetAnchor(t, u.ts, next)
           over == Remember(anchored, u.ts, u.frontier)
           packets == OrderedPackets(u)
           taken == Accept(over, unit, packets, wanted)
           a == [ts |-> u.ts, next |-> next]
<1>1. u.ts \in Stamps /\ u.frontier \in MaybeSeq /\ next \in MaybeSeq
  BY DEF PendingUnit, MaybeSeq
<1>2. /\ StreamTyped(t) /\ t.pending = NoUnit /\ t.draining = NoUnit
      /\ t.completed = s.completed
  BY SetPending
<1>3. Anchor(a) /\ a.ts = u.ts /\ a.next = next
  BY <1>1, AnchorsAre
<1>4. anchored = [t EXCEPT !.anchor = a]
  BY DEF SetAnchor
<1>5. \/ r.stream = over /\ r.frame = NoFrame
      \/ u.expected # NoSeq /\ r = taken
  BY DEF FinishPending
<1> HIDE DEF t, a, anchored
<1>6. /\ StreamTyped(anchored) /\ anchored.anchor = a /\ anchored.pending = NoUnit
      /\ anchored.draining = NoUnit /\ anchored.completed = s.completed
  BY <1>2, <1>3, <1>4, SetAnchors
<1>7. /\ StreamTyped(over) /\ over.pending = NoUnit /\ over.draining = NoUnit
      /\ over.anchor = a /\ u.ts \in Over(over) /\ Over(over) \subseteq Over(anchored) \cup {u.ts}
  <2>1. /\ StreamTyped(over) /\ over.pending = NoUnit /\ over.draining = NoUnit
        /\ over.anchor = a /\ u.ts \in Over(over)
    BY ONLY <1>1, <1>6, Remembers
  <2>2. Over(over) \subseteq Over(anchored) \cup {u.ts}
    BY <1>1, <1>6, RemembersOne
  <2> QED BY <2>1, <2>2
<1>8. Over(anchored) = Over(s)
  BY <1>6 DEF Over
<1> HIDE DEF over, packets
<1>9. Genuine(over)
  BY <1>3, <1>7 DEF Genuine, Rooted
<1>10. CASE r.stream = over /\ r.frame = NoFrame
  BY <1>7, <1>8, <1>9, <1>10
<1>11. CASE u.expected # NoSeq /\ r = taken
  <2>1. /\ r.stream.pending = NoUnit /\ r.stream.draining = NoUnit
        /\ r.stream.completed = over.completed
    BY <1>7, <1>11, Accepts
  <2>2. /\ r.stream.anchor = over.anchor
        /\ r.frame = NoFrame \/ (/\ r.frame.ts = packets[1].ts /\ r.frame.packets = packets
                                 /\ unit.idr)
    BY <1>7, <1>11, AcceptsUnit
  <2>3. Genuine(r.stream) /\ Over(r.stream) = Over(over)
    BY <1>9, <2>1, <2>2 DEF Genuine, Rooted, Over
  <2>4. ASSUME r.frame # NoFrame PROVE Whole(r.frame)
    <3>1. r.frame.ts = u.ts /\ r.frame.packets = packets
      BY <1>11, <2>2, <2>4, OrderedAreOwn DEF packets
    <3>2. Unmarked(packets) = Unmarked(SentUnit(u.ts))
      BY <1>11, UnitIsWhole DEF packets
    <3>3. \E i \in DOMAIN packets : packets[i].nal = "idr"
      <4> DEFINE n == Cardinality(DOMAIN u.packets)
      <4>1. n \in Nat
        BY <1>11, CompleteIsRun
      <4>2. DOMAIN packets = 1..n
        BY DEF OrderedPackets, packets
      <4>3. Depacketize(packets).idr
        BY <2>2, <2>4 DEF packets
      <4> HIDE DEF n
      <4> QED BY ONLY <4>1, <4>2, <4>3, PictureHasPacket
    <3> QED BY <3>1, <3>2, <3>3 DEF Whole
  <2> QED BY <1>7, <1>8, <2>3, <2>4
<1> QED BY <1>5, <1>10, <1>11

\* A unit that is given and dropped.
LEMMA DropsGenuine ==
  ASSUME NEW s, StreamTyped(s), Genuine(s), s.draining = NoUnit, NEW v, PendingUnit(v), Own(v),
         NEW r, r = DiscardPending([s EXCEPT !.pending = v])
  PROVE  Genuine(r) /\ Over(r) \subseteq Over(s) \cup {v.ts}
<1> DEFINE t == [s EXCEPT !.pending = v]
<1>1. /\ StreamTyped(t) /\ t.pending = v /\ t.draining = NoUnit /\ t.completed = s.completed
      /\ t.anchor = s.anchor
  BY SetPending
<1> HIDE DEF t
<1>2. Genuine(t) /\ Over(t) = Over(s)
  BY <1>1 DEF Genuine, Rooted, Over
<1>3. Filed(t) = {v.ts}
  BY <1>1, UnitsAreUnits DEF Filed
<1>4. Genuine(r) /\ Over(r) \subseteq Over(t) \cup Filed(t)
  BY <1>1, <1>2, DiscardsGenuine DEF t
<1> QED BY <1>2, <1>3, <1>4

\* A packet of another unit ends the pending one just before it: the last packet
\* of that one was sent just before the packet that came.
LEMMA TransitionIsLast ==
  ASSUME Short, NEW v, PendingUnit(v), Own(v), NEW p, SentPacket(p), p.ts # v.ts,
         NEW last, last = Minus(p.seq, 1), last \in DOMAIN v.packets
  PROVE  last \in SeqNos /\ LastOf(last, v.ts) /\ Follows(p.seq, v.ts)
<1>1. last \in SeqNos /\ p.seq \in SeqNos
  BY SentPacketIs DEF PendingUnit, PacketsOf
<1>2. After(last) = p.seq
  <2>1. 0 \in Nat /\ 0 + 1 = 1
    OBVIOUS
  <2>2. After(Minus(p.seq, 0 + 1)) = Minus(p.seq, 0) /\ Minus(p.seq, 0) = p.seq
    BY ONLY <1>1, <2>1, AfterMinus
  <2> QED BY <2>1, <2>2
<1>3. PICK i \in DOMAIN Sent : Sent[i].seq = last /\ Sent[i].ts = v.ts
  <2>1. PICK i \in DOMAIN Sent : Sent[i].seq = last /\ Plain(v.packets[last]) = Plain(Sent[i])
    BY DEF Own
  <2>2. v.packets[last] \in Packets /\ v.packets[last].ts = v.ts
    BY DEF PendingUnit, PacketsOf
  <2>3. Sent[i] \in Packets
    BY SentIsOrdered
  <2>4. Sent[i].ts = v.ts
    BY <2>1, <2>2, <2>3, PlainTells
  <2> QED BY <2>1, <2>4
<1>4. PICK j \in DOMAIN Sent : Sent[j].seq = p.seq /\ Sent[j].ts = p.ts
  BY DEF SentPacket
<1>5. j = i + 1
  BY <1>2, <1>3, <1>4, NumbersTell
<1>6. \A k \in DOMAIN Sent : Sent[k].ts \in Int
  <2>1. \A k \in DOMAIN Sent : Sent[k] \in Packets
    BY SentIsOrdered
  <2> QED BY <2>1 DEF Packets, Stamps
<1>7. \A k \in DOMAIN Sent : k > i => Sent[k].ts # v.ts
  <2> TAKE k \in DOMAIN Sent
  <2> HAVE k > i
  <2>1. k \in Int /\ i \in Int
    BY SentIsOrdered
  <2>2. CASE k = j
    BY <1>4, <2>2
  <2>3. CASE k # j
    <3>1. i < j /\ j < k
      BY <1>5, <2>1, <2>3
    <3>2. Sent[i].ts <= Sent[j].ts /\ Sent[j].ts <= Sent[k].ts
      BY <3>1, SentIsOrdered
    <3> QED BY <1>3, <1>4, <1>6, <3>2
  <2> QED BY <2>2, <2>3
<1>8. Follows(p.seq, v.ts)
  BY <1>2, <1>3 DEF Follows
<1> QED BY <1>1, <1>3, <1>7, <1>8 DEF LastOf

\* A packet of another unit ends the pending one, whole or not at all.
LEMMA TurnsGenuine ==
  ASSUME Short, NEW s, StreamTyped(s), Genuine(s), s.pending # NoUnit,
         NEW p, SentPacket(p), p.ts # s.pending.ts, NEW mark, NEW wanted,
         NEW r, r = FinishAtTimestampTransition(s, p.seq, mark, wanted)
  PROVE  /\ Genuine(r.stream) /\ Over(r.stream) \subseteq Over(s) \cup {s.pending.ts}
         /\ r.frame = NoFrame \/ Whole(r.frame)
<1> DEFINE v == s.pending
           last == Minus(p.seq, 1)
           packets == [q \in DOMAIN v.packets |->
                         IF q = last THEN [v.packets[q] EXCEPT !.marker = TRUE] ELSE v.packets[q]]
           u == [v EXCEPT !.marker = last, !.packets = packets]
           unit == Depacketize(OrderedPackets(u))
<1>1. PendingUnit(v) /\ s.draining = NoUnit /\ Own(v)
  BY DEF StreamTyped, Genuine
<1>2. \/ r.stream = DiscardPending(s) /\ r.frame = NoFrame
      \/ /\ last \in DOMAIN v.packets /\ v.marker = NoSeq
         /\ \/ r.stream = DiscardPending([s EXCEPT !.pending = u]) /\ r.frame = NoFrame
            \/ Complete(u) /\ r = FinishPending(s, u, unit, p.seq, mark, wanted)
  BY DEF FinishAtTimestampTransition
<1>3. CASE r.stream = DiscardPending(s) /\ r.frame = NoFrame
  <2>1. Filed(s) = {s.pending.ts}
    BY DEF Filed
  <2> QED BY <1>3, <2>1, DiscardsGenuine
<1>4. CASE last \in DOMAIN v.packets /\ v.marker = NoSeq
  <2>1. last \in SeqNos /\ LastOf(last, v.ts) /\ Follows(p.seq, v.ts)
    <3> HIDE DEF v
    <3>1. p.ts # v.ts
      BY DEF v
    <3> QED BY <1>1, <1>4, <3>1, TransitionIsLast
  <2>2. PacketsOf(v.packets, v.ts)
    BY <1>1 DEF PendingUnit
  <2>3. \A q \in DOMAIN v.packets :
          /\ packets[q] \in Packets /\ packets[q].ts = v.ts
          /\ Plain(packets[q]) = Plain(v.packets[q])
    <3> TAKE q \in DOMAIN v.packets
    <3> DEFINE x == v.packets[q]
               y == [x EXCEPT !.marker = TRUE]
    <3>1. x \in Packets /\ x.ts = v.ts
      BY <2>2 DEF PacketsOf
    <3>2. packets[q] = x \/ packets[q] = y
      OBVIOUS
    <3> HIDE DEF x, packets
    <3>3. y \in Packets /\ y.ts = x.ts /\ Plain(y) = Plain(x)
      BY <3>1 DEF Packets, Plain
    <3> QED BY <3>1, <3>2, <3>3 DEF x
  <2>4. DOMAIN packets = DOMAIN v.packets /\ packets = [q \in DOMAIN packets |-> packets[q]]
    OBVIOUS
  <2> HIDE DEF packets
  <2>5. PacketsOf(packets, v.ts)
    <3> HIDE DEF v
    <3>1. DOMAIN v.packets \subseteq SeqNos
      BY <2>2 DEF PacketsOf
    <3> QED BY <2>3, <2>4, <3>1 DEF PacketsOf
  <2>6. PendingUnit(u) /\ u.ts = v.ts
    <3> HIDE DEF v, last
    <3>1. last \in MaybeSeq
      BY <2>1 DEF MaybeSeq
    <3> QED BY <1>1, <2>5, <3>1, Closed
  <2>7. Own(u)
    <3>1. u.marker = last /\ u.packets = packets /\ u.expected = v.expected
      <4> HIDE DEF last
      <4> QED BY <1>1 DEF PendingUnit
    <3>2. last # NoSeq
      BY <2>1, UnitsAreUnits
    <3> HIDE DEF u, v, last
    <3>3. \A q \in DOMAIN packets :
            \E i \in DOMAIN Sent : Sent[i].seq = q /\ Plain(packets[q]) = Plain(Sent[i])
      BY <1>1, <2>3, <2>4 DEF Own
    <3> QED BY <1>1, <2>1, <2>6, <3>1, <3>2, <3>3 DEF Own
  <2>8. p.seq \in SeqNos /\ Follows(p.seq, u.ts)
    BY <2>1, <2>6, SentPacketIs
  <2> HIDE DEF u, last
  <2>9. CASE r.stream = DiscardPending([s EXCEPT !.pending = u]) /\ r.frame = NoFrame
    BY <1>1, <2>6, <2>7, <2>9, DropsGenuine
  <2>10. CASE Complete(u) /\ r = FinishPending(s, u, unit, p.seq, mark, wanted)
    <3> DEFINE n == p.seq
    <3>1. n \in SeqNos /\ Follows(n, u.ts) /\ r = FinishPending(s, u, unit, n, mark, wanted)
      BY <2>8, <2>10
    <3>2. unit = Depacketize(OrderedPackets(u))
      OBVIOUS
    <3> HIDE DEF unit, n
    <3>3. /\ Genuine(r.stream) /\ Over(r.stream) \subseteq Over(s) \cup {u.ts}
          /\ r.frame = NoFrame \/ Whole(r.frame)
      BY <1>1, <2>6, <2>7, <2>10, <3>1, <3>2, EndsGenuine
    <3> QED BY <2>6, <3>3
  <2> QED BY <1>2, <1>3, <2>9, <2>10 DEF u
<1> QED BY <1>2, <1>3, <1>4

\* A packet is filed with its unit, which then may be the frame.
LEMMA PendsGenuine ==
  ASSUME Short, NEW s, StreamTyped(s), Genuine(s), s.draining = NoUnit,
         NEW p, SentPacket(p), p.form = "ok", ~Remembered(s, p.ts), Filed(s) \subseteq {p.ts},
         NEW number, NEW mark, NEW wanted, NEW r, r = PendPacket(s, p, number, mark, wanted)
  PROVE  Genuine(r.stream) /\ (r.frame = NoFrame \/ Whole(r.frame))
<1> DEFINE u == IF s.pending = NoUnit THEN NewPending(s, p, number) ELSE s.pending
           added == AddPacket(u, p)
           ended == SetMarker(added, p)
           unit == Depacketize(OrderedPackets(ended))
           next == After(ended.marker)
           Good(v) == PendingUnit(v) /\ v.ts = p.ts /\ Own(v)
           Held(v) == r.stream = [s EXCEPT !.pending = v] /\ r.frame = NoFrame
           Dropped(v) == r.stream = DiscardPending([s EXCEPT !.pending = v]) /\ r.frame = NoFrame
<1>0. p \in Packets
  BY DEF SentPacket
<1>1. Good(u)
  <2>1. CASE s.pending = NoUnit
    BY <1>0, <2>1, NewUnit, NewGenuine
  <2>2. CASE s.pending # NoUnit
    BY <2>2 DEF StreamTyped, Filed, Genuine
  <2> QED BY <2>1, <2>2
<1> HIDE DEF u
<1>2. ASSUME NEW v, Good(v) PROVE Good(ObserveSequence(v, p.seq)) /\ Good(SetMarker(v, p))
  BY <1>0, <1>2, Observes, ObservesGenuine
<1>3. Good(added)
  BY <1>0, <1>1, Files, FilesGenuine
<1> HIDE DEF added
<1>4. Good(ended) /\ Good(ObserveSequence(u, p.seq))
      /\ Good(SetMarker(ObserveSequence(u, p.seq), p))
  <2> HIDE DEF Good
  <2> QED BY <1>1, <1>2, <1>3
<1> HIDE DEF ended
<1>5. ASSUME NEW v, Good(v), Held(v)
      PROVE  Genuine(r.stream) /\ r.frame = NoFrame
  <2> DEFINE t == r.stream
  <2>1. t.pending = v /\ t.draining = NoUnit /\ t.completed = s.completed /\ t.anchor = s.anchor
    BY <1>5, SetPending
  <2>2. r.frame = NoFrame
    BY <1>5
  <2> HIDE DEF t
  <2>3. Genuine(t)
    BY <1>5, <2>1 DEF Genuine, Rooted, Over
  <2> QED BY <2>2, <2>3 DEF t
<1>6. ASSUME NEW v, Good(v), Dropped(v)
      PROVE  Genuine(r.stream) /\ r.frame = NoFrame
  BY <1>6, DropsGenuine
<1>7. ASSUME Complete(ended), r = FinishPending(s, ended, unit, next, mark, wanted)
      PROVE  Genuine(r.stream) /\ (r.frame = NoFrame \/ Whole(r.frame))
  <2>1. PendingUnit(ended) /\ Own(ended)
    BY <1>4
  <2>2. next \in SeqNos /\ Follows(next, ended.ts)
    <3>1. ended.marker \in SeqNos /\ LastOf(ended.marker, ended.ts)
      BY <2>1, <1>7 DEF PendingUnit, Complete, MaybeSeq, Own
    <3> QED BY <3>1, AnchorsAre, LastIsFollowed
  <2>3. unit = Depacketize(OrderedPackets(ended))
    OBVIOUS
  <2> HIDE DEF next, unit, Good
  <2> QED BY <1>7, <2>1, <2>2, <2>3, EndsGenuine
<1>8. \/ Held(u) \/ Dropped(u) \/ Dropped(SetMarker(ObserveSequence(u, p.seq), p))
      \/ Dropped(ObserveSequence(u, p.seq)) \/ Dropped(added) \/ Dropped(ended) \/ Held(ended)
      \/ Complete(ended) /\ r = FinishPending(s, ended, unit, next, mark, wanted)
  BY DEF PendPacket, u, added, ended
<1> HIDE DEF Good, Held, Dropped, next, unit
<1> QED BY <1>1, <1>3, <1>4, <1>5, <1>6, <1>7, <1>8

\* What a packet does while a capture waits: a frame it gives is whole.
LEMMA PushesGenuine ==
  ASSUME Short, NEW s, StreamTyped(s), Genuine(s), NEW p, SentPacket(p),
         NEW number, NEW mark, NEW late, NEW r, r = Push(s, p, number, mark, late)
  PROVE  Genuine(r.stream) /\ (r.frame = NoFrame \/ Whole(r.frame))
<1> DEFINE now == Expire(s, late)
           after == LeaveDrainUnit(now, p)
           start == [stream |-> after, frame |-> NoFrame]
           turn == IF after.pending # NoUnit /\ after.pending.ts # p.ts
                   THEN FinishAtTimestampTransition(after, p.seq, mark, TRUE) ELSE start
           one == PendPacket(turn.stream, p, number, mark, TRUE)
           two == PendPacket(turn.stream, p, number, mark, FALSE)
<1>1. StreamTyped(now) /\ Genuine(now)
  BY Expires, ExpiresGenuine
<1>2. p.seq \in SeqNos /\ p.ts \in Stamps
  BY SentPacketIs
<1> HIDE DEF now
<1>3. CASE p.form # "ok"
  <2>1. r.stream = PoisonPacket(now, p) /\ r.frame = NoFrame
    BY <1>3 DEF Push, now
  <2> QED BY <1>1, <2>1, PoisonsGenuine
<1>4. CASE p.form = "ok" /\ Remembered(now, p.ts)
  <2>1. r.stream = RejectCompleted(now, p) /\ r.frame = NoFrame
    BY <1>4 DEF Push, now
  <2> QED BY <1>1, <1>4, <2>1, RejectsGenuine
<1>5. CASE p.form = "ok" /\ ~Remembered(now, p.ts) /\ now.draining.ts = p.ts
  <2>1. r.stream = DrainPacket(now, p) /\ r.frame = NoFrame
    BY <1>5 DEF Push, now
  <2>2. now.draining # NoUnit
    <3>1. NoUnit.ts = -1
      BY DEF NoUnit
    <3> QED BY <1>2, <1>5, <3>1, UnitsAreUnits
  <2>3. now.pending = NoUnit
    BY <1>1, <2>2 DEF StreamTyped
  <2> QED BY <1>1, <2>1, <2>3, DrainsGenuine
<1>6. CASE p.form = "ok" /\ ~Remembered(now, p.ts) /\ now.draining.ts # p.ts
  <2>1. p.ts \notin Over(now)
    BY <1>6, RememberedIsOver
  <2>2. StreamTyped(after) /\ after.draining = NoUnit /\ Genuine(after) /\ p.ts \notin Over(after)
    <3>1. CASE now.draining = NoUnit
      <4>1. after = now
        BY <3>1 DEF LeaveDrainUnit
      <4> HIDE DEF after
      <4> QED BY <1>1, <2>1, <3>1, <4>1
    <3>2. CASE now.draining # NoUnit
      <4>1. after = FinishDrainUnit(now, p.seq, FALSE)
        BY <3>2 DEF LeaveDrainUnit
      <4> HIDE DEF after
      <4>2. StreamTyped(after) /\ after.draining = NoUnit
        BY <1>1, <1>2, <3>2, <4>1, FinishesDraining
      <4>3. Genuine(after) /\ Over(after) \subseteq Over(now) \cup {now.draining.ts}
        BY <1>1, <1>2, <3>2, <4>1, FinishesGenuine
      <4> QED BY <1>6, <2>1, <4>2, <4>3
    <3> QED BY <3>1, <3>2
  <2> HIDE DEF after
  <2>3. /\ StreamTyped(turn.stream) /\ turn.stream.draining = NoUnit /\ Genuine(turn.stream)
        /\ Filed(turn.stream) \subseteq {p.ts} /\ ~Remembered(turn.stream, p.ts)
        /\ turn.frame = NoFrame \/ Whole(turn.frame)
    <3>1. CASE after.pending # NoUnit /\ after.pending.ts # p.ts
      <4> DEFINE n == p.seq
                 yes == TRUE
      <4>1. turn = FinishAtTimestampTransition(after, n, mark, yes)
        BY <3>1
      <4>2. n \in SeqNos
        BY <1>2
      <4> HIDE DEF turn, yes
      <4>3. /\ Genuine(turn.stream) /\ Over(turn.stream) \subseteq Over(after) \cup {after.pending.ts}
            /\ turn.frame = NoFrame \/ Whole(turn.frame)
        BY <2>2, <3>1, <4>1, TurnsGenuine
      <4> HIDE DEF n
      <4>4. /\ StreamTyped(turn.stream) /\ turn.stream.draining = NoUnit
            /\ turn.stream.pending = NoUnit
        BY <2>2, <3>1, <4>1, <4>2, Turns
      <4> QED BY <2>2, <3>1, <4>3, <4>4, RememberedIsOver DEF Filed
    <3>2. CASE after.pending = NoUnit \/ after.pending.ts = p.ts
      <4>1. turn = start
        BY <3>2
      <4> HIDE DEF turn
      <4>2. turn.stream = after /\ turn.frame = NoFrame
        BY <4>1
      <4> QED BY <2>2, <3>2, <4>2, RememberedIsOver DEF Filed
    <3> QED BY <3>1, <3>2
  <2>4. \/ turn.frame = NoFrame /\ r = one
        \/ r.stream = two.stream /\ r.frame = turn.frame
    <3>1. CASE turn.frame = NoFrame
      <4>1. r = one
        BY <1>6, <3>1 DEF Push, now, after
      <4> QED BY <3>1, <4>1
    <3>2. CASE turn.frame # NoFrame
      <4>1. turn = FinishAtTimestampTransition(after, p.seq, mark, TRUE)
        BY <3>2
      <4>2. r = [turn EXCEPT !.stream = PendPacket(@, p, number, mark, FALSE).stream]
        BY <1>6, <3>2 DEF Push, now, after
      <4>3. turn = [stream |-> turn.stream, frame |-> turn.frame]
        <5> HIDE DEF turn
        <5> QED BY <4>1 DEF FinishAtTimestampTransition, FinishPending, Accept
      <4> HIDE DEF turn
      <4>4. r.stream = two.stream /\ r.frame = turn.frame
        BY <4>2, <4>3
      <4> QED BY <4>4
    <3> QED BY <3>1, <3>2
  <2> HIDE DEF turn
  <2>5. ASSUME NEW wanted, NEW t, t = PendPacket(turn.stream, p, number, mark, wanted)
        PROVE  Genuine(t.stream) /\ (t.frame = NoFrame \/ Whole(t.frame))
    <3> DEFINE x == turn.stream
    <3>1. /\ StreamTyped(x) /\ Genuine(x) /\ x.draining = NoUnit /\ Filed(x) \subseteq {p.ts}
          /\ ~Remembered(x, p.ts) /\ p.form = "ok"
      BY <1>6, <2>3
    <3>2. t = PendPacket(x, p, number, mark, wanted)
      BY <2>5
    <3> HIDE DEF x
    <3> QED BY ONLY <3>1, <3>2, Short, SentPacket(p), PendsGenuine
  <2> DEFINE no == FALSE
             yes == TRUE
  <2>6. one = PendPacket(turn.stream, p, number, mark, yes)
    OBVIOUS
  <2>7. two = PendPacket(turn.stream, p, number, mark, no)
    OBVIOUS
  <2> HIDE DEF no, yes, one, two
  <2>8. CASE turn.frame = NoFrame /\ r = one
    BY <2>5, <2>6, <2>8
  <2>9. CASE r.stream = two.stream /\ r.frame = turn.frame
    BY <2>3, <2>5, <2>7, <2>9
  <2> QED BY <2>4, <2>8, <2>9
<1> QED BY <1>3, <1>4, <1>5, <1>6

-----------------------------------------------------------------------------
(* Whole frames                                                            *)

\* Every frame given is whole, and the stream keeps only what was sent.
Given ==
  /\ Genuine(stream)
  /\ \A c \in Captures : answer[c] \in {NoAnswer, SessionClosed} \/ Whole(answer[c])

\* Every packet observed is one that was sent; only its form may have changed.
LEMMA ObservedAsSent ==
  ASSUME StreamKept, Observe
  PROVE  \E p, late : SentPacket(p) /\ Receive(p, late)
<1>1. PICK pos \in missing \cup (high + 1 .. high + MaxLoss + 1), again \in BOOLEAN,
           form \in {"ok", "empty", "version"}, late \in BOOLEAN :
        pos <= Len(Sent) /\ Receive([Sent[pos] EXCEPT !.form = form], late)
  BY Zenon DEF Observe
<1>2. pos \in DOMAIN Sent
  <2>1. high \in Nat /\ missing \subseteq 1..high /\ MaxLoss \in Nat
    BY VideoConstants DEF StreamKept, Placed
  <2> QED BY <1>1, <2>1, SentIsOrdered
<1>3. Sent[pos] \in Packets /\ Sent[pos].form = "ok"
  BY <1>2, SentIsOrdered
<1> DEFINE p == [Sent[pos] EXCEPT !.form = form]
<1>4. /\ p \in Packets /\ p.ts = Sent[pos].ts /\ p.seq = Sent[pos].seq
      /\ p.form = "ok" => p = Sent[pos]
  BY <1>3 DEF Packets
<1>5. Receive(p, late)
  BY <1>1
<1> HIDE DEF p
<1>6. SentPacket(p)
  BY <1>2, <1>4 DEF SentPacket
<1> QED BY <1>5, <1>6

\* A packet gives a whole frame or none.
LEMMA ReceivesWhole ==
  ASSUME Short, StreamKept, CallTyped, Given, NEW p, SentPacket(p), NEW late, Receive(p, late)
  PROVE  Given'
<1> DEFINE s == stream
           number == generation + 1
           pushed == Push(s, p, number, watermark, late)
           t == pushed.stream
           f == pushed.frame
<1>1. StreamTyped(s) /\ Genuine(s)
  BY DEF StreamKept, Given
<1>2. /\ stream' = IF slot = NoCapture THEN Drain(s, p, late)
                   ELSE IF f # NoFrame THEN EndWait(t) ELSE t
      /\ answer' = IF slot # NoCapture /\ f # NoFrame THEN [answer EXCEPT ![slot] = f] ELSE answer
  BY DEF Receive
<1> HIDE DEF number
<1>3. Genuine(t) /\ (f = NoFrame \/ Whole(f))
  BY <1>1, PushesGenuine
<1>4. StreamTyped(t)
  <2>1. p \in Packets
    BY SentPacketIs
  <2> QED BY <1>1, <2>1, Pushes
<1> HIDE DEF pushed, t, f
<1>5. Genuine(stream')
  <2>1. CASE slot = NoCapture
    BY <1>1, <1>2, <2>1, DrainGenuine
  <2>2. CASE slot # NoCapture /\ f # NoFrame
    BY <1>2, <1>3, <1>4, <2>2, DiscardsGenuine DEF EndWait
  <2>3. CASE slot # NoCapture /\ f = NoFrame
    BY <1>2, <1>3, <2>3
  <2> QED BY <2>1, <2>2, <2>3
<1>6. answer = [c \in Captures |-> answer[c]]
  BY DEF CallTyped
<1>7. \A c \in Captures : answer'[c] = answer[c] \/ (answer'[c] = f /\ f # NoFrame)
  BY <1>2, <1>6
<1> QED BY <1>3, <1>5, <1>7 DEF Given

\* Every step keeps it.
LEMMA StepWhole ==
  ASSUME Short, StreamKept, CallTyped, Given, [Next]_vars
  PROVE  Given'
<1> USE DEF vars, sessionVars, callVars, receiverVars, streamVars
<1>1. ASSUME UNCHANGED <<stream, answer>> PROVE Given'
  BY <1>1 DEF Given
<1>2. CASE \/ UNCHANGED vars
           \/ Authenticate \/ OpenSignaling \/ FinishConnect \/ SignalingAnswer \/ SignalingEnds
           \/ SessionLost \/ RefuseTrack \/ HandleTrack \/ TrackEnds \/ TearDown \/ Join
  <2>1. UNCHANGED <<stream, answer>>
    BY <1>2 DEF Authenticate, OpenSignaling, FinishConnect, SignalingAnswer, SignalingEnds,
                SessionLost, RefuseTrack, HandleTrack, TrackEnds, TearDown, Join
  <2> QED BY <1>1, <2>1
<1>3. CASE Observe
  BY <1>3, ObservedAsSent, ReceivesWhole
<1>4. ASSUME stream' = EndWait(stream),
             UNCHANGED answer \/ \E c \in Captures : answer' = [answer EXCEPT ![c] = SessionClosed]
      PROVE  Given'
  <2>1. Genuine(stream')
    BY <1>4, DiscardsGenuine DEF EndWait, StreamKept, Given
  <2>2. answer = [c \in Captures |-> answer[c]]
    BY DEF CallTyped
  <2>3. \A c \in Captures : answer'[c] = answer[c] \/ answer'[c] = SessionClosed
    BY <1>4, <2>2
  <2> QED BY <2>1, <2>3 DEF Given
<1>5. CASE Seal
  <2>1. /\ stream' = EndWait(stream)
        /\ UNCHANGED answer \/ (slot # NoCapture /\ answer' = [answer EXCEPT ![slot] = SessionClosed])
    BY <1>5 DEF Seal
  <2> QED BY <1>4, <2>1 DEF CallTyped
<1>6. ASSUME NEW c \in Captures, CaptureStep(c) PROVE Given'
  <2>1. UNCHANGED answer
    BY <1>6 DEF CaptureStep, Capture, RequestPLI, TakeAnswer, GiveUp, RemoveWaiter
  <2>2. stream' = stream \/ stream' = BeginWait(stream) \/ stream' = EndWait(stream)
    BY <1>6 DEF CaptureStep, Capture, RequestPLI, TakeAnswer, GiveUp, RemoveWaiter
  <2>3. CASE stream' = BeginWait(stream)
    <3>1. Genuine(stream')
      BY <2>3, BeginsGenuine DEF StreamKept, Given
    <3> QED BY <2>1, <3>1 DEF Given
  <2> QED BY <1>1, <1>4, <2>1, <2>2, <2>3
<1> QED BY <1>2, <1>3, <1>5, <1>6 DEF Next

\* Initially nothing is kept and nothing was given.
LEMMA InitWhole == Init => Given
<1> SUFFICES ASSUME Init PROVE Given
  OBVIOUS
<1>1. /\ stream.pending = NoUnit /\ stream.draining = NoUnit /\ stream.anchor = NoAnchor
      /\ \A c \in Captures : answer[c] = NoAnswer
  BY DEF Init, NewStream
<1> QED BY <1>1 DEF Given, Genuine, Rooted, NoAnchor

\* Screenshots are whole: as long as the sequence numbers of the stream do not come
\* round, a frame given to a capture is one access unit with a picture as it was sent,
\* whatever the network loses, repeats, damages or reorders, and by however much.
THEOREM FramesAreWhole ==
  ASSUME Len(Sent) < SeqSpace
  PROVE  Spec => []FrameIsWhole
<1>1. Short
  BY DEF Short
<1>2. CallTyped /\ StreamKept /\ Given /\ [Next]_vars => Given'
  BY <1>1, StepWhole
<1>3. Given => FrameIsWhole
  BY DEF Given, Whole, Unmarked, FrameIsWhole, FramesGiven
<1> QED BY Session, InitWhole, <1>2, <1>3, PTL DEF Spec
=============================================================================
