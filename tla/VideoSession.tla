---------------------------- MODULE VideoSession ----------------------------
(***************************************************************************)
(* The video side of one connected session: internal/jetkvm/provider.go    *)
(* (connecting, the signaling and video pumps, Close) and video_receiver.go *)
(* (one capture waits at a time, the pump hands every RTP packet to it).   *)
(* The packets come from a device that sends Frames once, over a network   *)
(* that loses, reorders, repeats and damages them.                         *)
(***************************************************************************)
EXTENDS H264Stream

CONSTANTS MaxCaptures, \* bound: calls of Capture, numbered as they are made
          Frames,     \* the access units sent: sequences of [nal, part]
          FirstSeq,   \* where their sequence numbers start
          MaxDelay,   \* bound: how far one packet may overtake another
          MaxLoss,    \* bound: how many packets in a row may be missing
          MaxFaults   \* bound: repeated packets, damaged packets and silences

ASSUME VideoConstants == {MaxCaptures, FirstSeq, MaxDelay, MaxLoss, MaxFaults} \subseteq Nat
ASSUME FramesConstant ==
  Frames \in Seq(Seq([nal : STRING, part : {"single", "start", "middle", "end"}]) \ {<<>>})

Captures == 1..MaxCaptures
NoCapture == 0

VARIABLES
  connection,  \* where WebRTCConnector.connect is
  live,        \* the session's context is not canceled
  answered,    \* the remote description is set
  signaling, track,  \* the two pumps: "none", "reading" or "exited"
  closing,     \* connectedSession.Close: "no", "sealed", "torn" or "joined"
  stream, generation, slot, watermark, pli, closed,  \* videoReceiver
  where, answer,     \* per capture: its location and its result channel
  high, missing, faults,  \* the network: newest packet delivered, those behind it
  seen,        \* ghost: the units of which a packet came
  before, asked  \* ghost: seen when the slot was taken; a key frame was asked for since

sessionVars == <<connection, live, answered, signaling, track, closing>>
streamVars == <<stream, generation, high, missing, faults, seen>>
callVars == <<where, answer>>
receiverVars == <<slot, watermark, before, asked, pli, closed>>
vars == <<sessionVars, streamVars, callVars, receiverVars>>

NoAnswer == [ts |-> -1]
SessionClosed == [ts |-> -2]

-----------------------------------------------------------------------------
(* What the device sends                                                   *)

UnitPackets(t) ==
  [i \in 1..Len(Frames[t]) |->
     [ts |-> t, seq |-> 0, nal |-> Frames[t][i].nal, part |-> Frames[t][i].part,
      marker |-> i = Len(Frames[t]), form |-> "ok"]]

Sent ==
  LET packets == FlattenSeq([t \in 1..Len(Frames) |-> UnitPackets(t)])
  IN  [i \in 1..Len(packets) |-> [packets[i] EXCEPT !.seq = (FirstSeq + i) % SeqSpace]]

SentUnit(t) ==
  LET own == {i \in DOMAIN Sent : Sent[i].ts = t}
  IN  SubSeq(Sent, Min(own), Max(own))

Init ==
  /\ connection = "authenticating" /\ live = TRUE /\ answered = FALSE
  /\ signaling = "none" /\ track = "none"
  /\ closing = "no"
  /\ stream = NewStream /\ generation = 0 /\ watermark = 0
  /\ slot = NoCapture /\ pli = FALSE /\ closed = FALSE /\ asked = FALSE
  /\ where = [c \in Captures |-> "idle"] /\ answer = [c \in Captures |-> NoAnswer]
  /\ high = 0 /\ missing = {} /\ faults = 0 /\ seen = {} /\ before = {}

-----------------------------------------------------------------------------
(* Connecting, and the signaling pump                                      *)

Authenticate ==
  /\ connection = "authenticating"
  /\ connection' \in {"signaling", "refused"}
  /\ UNCHANGED <<live, answered, signaling, track, closing,
                 streamVars, callVars, receiverVars>>

\* Dial, send the offer, start the pump.
OpenSignaling ==
  /\ connection = "signaling"
  /\ \/ connection' = "negotiating" /\ signaling' = "reading"
     \/ connection' = "failed" /\ UNCHANGED signaling
  /\ UNCHANGED <<live, answered, track, closing,
                 streamVars, callVars, receiverVars>>

\* The data channel opens, or the attempt runs out of time or loses the session.
FinishConnect ==
  /\ connection = "negotiating"
  /\ connection' \in {"failed"} \cup (IF answered THEN {"connected"} ELSE {})
  /\ UNCHANGED <<live, answered, signaling, track, closing,
                 streamVars, callVars, receiverVars>>

SignalingAnswer ==
  /\ signaling = "reading" /\ live /\ ~answered
  /\ answered' = TRUE
  /\ UNCHANGED <<connection, live, signaling, track, closing,
                 streamVars, callVars, receiverVars>>

\* A read error, an invalid or second answer or a refused candidate.
SignalingEnds ==
  /\ signaling = "reading"
  /\ signaling' = "exited" /\ live' = FALSE
  /\ UNCHANGED <<connection, answered, track, closing,
                 streamVars, callVars, receiverVars>>

\* The peer or the data channel fails, or another session takes over.
SessionLost ==
  /\ connection \in {"negotiating", "connected"} /\ live
  /\ live' = FALSE
  /\ UNCHANGED <<connection, answered, signaling, track, closing,
                 streamVars, callVars, receiverVars>>

-----------------------------------------------------------------------------
(* Captures                                                                *)

\* The slot and what is kept with it; nothing is when it is empty.
SetSlot(c, mark, earlier, request) ==
  /\ slot' = c /\ watermark' = mark /\ before' = earlier /\ asked' = request

FreeSlot == SetSlot(NoCapture, 0, {}, FALSE)

Capture(c) ==
  /\ connection = "connected" /\ where[c] = "idle"
  /\ \A d \in 1..(c - 1) : where[d] # "idle"
  /\ \/ /\ closed \/ slot # NoCapture
        /\ where' = [where EXCEPT ![c] = "refused"]
        /\ UNCHANGED <<stream, receiverVars>>
     \/ /\ ~closed /\ slot = NoCapture
        /\ stream' = BeginWait(stream)
        /\ SetSlot(c, generation, seen, FALSE)
        /\ where' = [where EXCEPT ![c] = IF pli THEN "asking" ELSE "waiting"]
        /\ UNCHANGED <<pli, closed>>
  /\ UNCHANGED <<sessionVars, generation, high, missing, faults, seen, answer>>

RequestPLI(c) ==
  /\ where[c] = "asking"
  /\ where' = [where EXCEPT ![c] = "waiting"]
  /\ asked' = (asked \/ slot = c)
  /\ UNCHANGED <<sessionVars, streamVars, answer, slot, watermark, before, pli, closed>>

TakeAnswer(c) ==
  /\ where[c] = "waiting" /\ answer[c] # NoAnswer
  /\ where' = [where EXCEPT ![c] = "returned"]
  /\ UNCHANGED <<sessionVars, streamVars, answer, receiverVars>>

\* The select takes ctx.Done; the slot is given back under the lock, later.
GiveUp(c) ==
  /\ where[c] = "waiting"
  /\ where' = [where EXCEPT ![c] = "leaving"]
  /\ UNCHANGED <<sessionVars, streamVars, answer, receiverVars>>

\* Variant: whoever waits is removed.
RemoveAnyWaiter(c) ==
  /\ where[c] = "leaving"
  /\ where' = [where EXCEPT ![c] = "canceled"]
  /\ FreeSlot /\ stream' = EndWait(stream)
  /\ UNCHANGED <<sessionVars, generation, high, missing, faults, seen, answer, pli, closed>>

RemoveWaiter(c) ==
  /\ where[c] = "leaving"
  /\ where' = [where EXCEPT ![c] = "canceled"]
  /\ IF slot = c THEN FreeSlot /\ stream' = EndWait(stream)
                 ELSE UNCHANGED <<slot, watermark, before, asked, stream>>
  /\ UNCHANGED <<sessionVars, generation, high, missing, faults, seen, answer, pli, closed>>

-----------------------------------------------------------------------------
(* The track and its pump                                                  *)

\* The codec is not the one asked for, the session is closed or has a track.
RefuseTrack ==
  /\ answered /\ live
  /\ live' = FALSE
  /\ UNCHANGED <<connection, answered, signaling, track, closing,
                 streamVars, callVars, receiverVars>>

\* Variant: the session may have been closed.
HandleLateTrack ==
  /\ answered /\ track = "none"
  /\ track' = "reading"
  /\ pli' = TRUE /\ asked' = (asked \/ slot # NoCapture)
  /\ UNCHANGED <<connection, live, answered, signaling, closing,
                 streamVars, callVars, slot, watermark, before, closed>>

HandleTrack ==
  /\ answered /\ closing = "no" /\ track = "none"
  /\ track' = "reading"
  /\ pli' = TRUE /\ asked' = (asked \/ slot # NoCapture)
  /\ UNCHANGED <<connection, live, answered, signaling, closing,
                 streamVars, callVars, slot, watermark, before, closed>>

TrackEnds ==
  /\ track = "reading"
  /\ track' = "exited" /\ live' = FALSE
  /\ UNCHANGED <<connection, answered, signaling, closing,
                 streamVars, callVars, receiverVars>>

\* Observe: with no waiter the packet is drained; a candidate empties the slot
\* and goes to the waiter's channel.
Receive(p, late) ==
  LET pushed == Push(stream, p, generation + 1, watermark, late)
      found == slot # NoCapture /\ pushed.frame # NoFrame
  IN  /\ generation' = generation + 1
      /\ seen' = seen \cup {p.ts}
      /\ stream' = IF slot = NoCapture THEN Drain(stream, p, late)
                   ELSE IF found THEN EndWait(pushed.stream) ELSE pushed.stream
      /\ IF found THEN FreeSlot ELSE UNCHANGED <<slot, watermark, before, asked>>
      /\ answer' = IF found THEN [answer EXCEPT ![slot] = pushed.frame] ELSE answer

\* Once the receiver is closed Observe changes nothing: no step models it.
Observe ==
  \E pos \in missing \cup (high + 1 .. high + MaxLoss + 1), again \in BOOLEAN,
     form \in {"ok", "empty", "version"}, late \in BOOLEAN :
    LET cost == Cardinality({f \in {"late", "damage"} :
                               (f = "late" /\ late) \/ (f = "damage" /\ form # "ok")})
                + (IF again THEN 1 ELSE 0)
        top == IF pos > high THEN pos ELSE high
        behind == missing \cup (high + 1 .. top)
    IN  /\ track = "reading" /\ ~closed /\ pos <= Len(Sent)
        /\ faults + cost <= MaxFaults
        /\ Receive([Sent[pos] EXCEPT !.form = form], late)
        /\ high' = top
        /\ missing' = {q \in behind : (again \/ q # pos) /\ q >= top - MaxDelay}
        /\ faults' = faults + cost
        /\ UNCHANGED <<sessionVars, where, pli, closed>>

-----------------------------------------------------------------------------
(* connectedSession.Close                                                  *)

\* Variant: the capture that waits is not told.
SealSilently ==
  /\ connection \in {"connected", "failed"} /\ closing = "no"
  /\ closing' = "sealed" /\ live' = FALSE /\ closed' = TRUE
  /\ stream' = EndWait(stream)
  /\ FreeSlot
  /\ UNCHANGED <<connection, answered, signaling, track, generation, high, missing, faults,
                 seen, where, answer, pli>>

\* Under the pump lock: no pump starts any more, and the receiver is closed.
Seal ==
  /\ connection \in {"connected", "failed"} /\ closing = "no"
  /\ closing' = "sealed" /\ live' = FALSE /\ closed' = TRUE
  /\ stream' = EndWait(stream)
  /\ FreeSlot
  /\ answer' = IF slot = NoCapture THEN answer ELSE [answer EXCEPT ![slot] = SessionClosed]
  /\ UNCHANGED <<connection, answered, signaling, track, generation, high, missing, faults,
                 seen, where, pli>>

\* Closing the signaling connection and the peer makes the pumps' reads fail.
TearDown ==
  /\ closing = "sealed" /\ closing' = "torn"
  /\ UNCHANGED <<connection, live, answered, signaling, track, streamVars, callVars, receiverVars>>

Pumping == {p \in {"signaling", "track"} :
              (p = "signaling" /\ signaling = "reading") \/ (p = "track" /\ track = "reading")}

Join ==
  /\ closing = "torn" /\ Pumping = {}
  /\ closing' = "joined"
  /\ UNCHANGED <<connection, live, answered, signaling, track, streamVars, callVars, receiverVars>>

CaptureStep(c) ==
  Capture(c) \/ RequestPLI(c) \/ TakeAnswer(c) \/ GiveUp(c) \/ RemoveWaiter(c)

Next ==
  \/ Authenticate \/ OpenSignaling \/ FinishConnect
  \/ SignalingAnswer \/ SignalingEnds \/ SessionLost
  \/ RefuseTrack \/ HandleTrack \/ TrackEnds \/ Observe
  \/ Seal \/ TearDown \/ Join
  \/ \E c \in Captures : CaptureStep(c)

Spec == Init /\ [][Next]_vars

(* Goroutines that can run do: those of Close, of the pumps once their     *)
(* connections are closed, and those of the captures.  Nothing makes a     *)
(* capture give up, a packet arrive or the owner close the session.        *)
Fairness ==
  /\ WF_vars(TearDown) /\ WF_vars(Join)
  /\ WF_vars(closing = "torn" /\ TrackEnds)
  /\ WF_vars(closing = "torn" /\ SignalingEnds)
  /\ \A c \in Captures : WF_vars(RequestPLI(c)) /\ WF_vars(TakeAnswer(c))
                         /\ WF_vars(RemoveWaiter(c))

FairSpec == Spec /\ Fairness

-----------------------------------------------------------------------------
(* Properties                                                              *)

\* The state stays in its type: the receiver's slot holds a capture, the open
\* units belong to sent frames, and at most one unit is open at a time.
TypeOK ==
  /\ slot \in Captures \cup {NoCapture}
  /\ where \in [Captures -> {"idle", "refused", "asking", "waiting", "leaving",
                             "returned", "canceled"}]
  /\ {stream.pending.ts, stream.draining.ts} \subseteq (1..Len(Frames)) \cup {-1}
  /\ ~(stream.pending # NoUnit /\ stream.draining # NoUnit)
  /\ Len(stream.completed) <= MaxCompleted
  /\ stream.pending # NoUnit => DOMAIN stream.pending.packets \subseteq 0..(SeqSpace - 1)
  /\ {signaling, track} \subseteq {"none", "reading", "exited"}
  /\ closing \in {"no", "sealed", "torn", "joined"}

FramesGiven == {answer[c] : c \in Captures} \ {NoAnswer, SessionClosed}

\* Whatever is lost, repeated, damaged or overtaken, and wherever the sequence
\* numbers wrap, a frame given to a capture is one whole access unit with an
\* IDR picture as the device sent it, no packet missing, foreign or displaced.
FrameIsWhole ==
  \A f \in FramesGiven :
    LET unmarked(packets) == [i \in DOMAIN packets |-> [packets[i] EXCEPT !.marker = FALSE]]
    IN  /\ unmarked(f.packets) = unmarked(SentUnit(f.ts))
        /\ \E i \in DOMAIN f.packets : f.packets[i].nal = "idr"

\* Screenshots are fresh: a frame is given only to a capture that was waiting
\* before the first packet of that frame arrived, so a capture never shows the
\* screen as it was before it was asked for, not even by packets that repeat.
FrameIsFresh ==
  [][\A c \in Captures : answer'[c] # answer[c] /\ answer'[c] # SessionClosed
        => answer'[c].ts \notin before]_vars

\* The retained parameter sets never go back to an older access unit: a packet
\* of the past cannot make a later picture decode with what it replaced, and a
\* picture is led by parameter sets that were sent no later than it.
ParametersAdvance ==
  [][/\ stream'.sps >= stream.sps /\ stream'.pps >= stream.pps
     /\ \A f \in FramesGiven' : {f.sps, f.pps} \subseteq 1..f.ts]_vars

\* Nobody is forgotten or answered twice: a capture that has not left either
\* holds the slot or has its answer, and the slot's holder has asked for a key
\* frame, or is about to, as soon as there is a track to ask.
WaiterIsServed ==
  /\ \A c \in Captures :
       where[c] \in {"asking", "waiting"} => (slot = c) # (answer[c] # NoAnswer)
  /\ slot # NoCapture =>
       /\ where[slot] \in {"asking", "waiting", "leaving"} /\ ~closed
       /\ pli => asked \/ where[slot] = "asking"

\* A pump that starts or keeps reading after Close has joined the pumps would
\* use a session its owner has released.
JoinedMeansQuiet == closing = "joined" => Pumping = {} /\ ~live /\ slot = NoCapture

\* Closing a session ends both pumps and lets go of every capture that waits,
\* without help from the captures' own deadlines.
CloseReleases ==
  closing = "sealed" ~>
    closing = "joined" /\ \A c \in Captures : where[c] \notin {"asking", "waiting", "leaving"}
=============================================================================
