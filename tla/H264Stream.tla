----------------------------- MODULE H264Stream -----------------------------
(***************************************************************************)
(* Assembly of H.264 access units from RTP packets: the h264Stream of      *)
(* internal/jetkvm/video.go as operators on a stream record.               *)
(*                                                                         *)
(* A packet is [ts, seq, marker, nal, part, form].  seq wraps at SeqSpace  *)
(* as the 16-bit RTP sequence number does; nal is the type of the unit the *)
(* payload carries and part says whether it is a single NAL unit or a      *)
(* FU-A fragment; form is "ok", "empty" (no payload) or "version" (not     *)
(* RTP version 2).  Bytes are abstracted: a parameter set is named by the  *)
(* timestamp of the access unit that carried it (NoParameter: none), and   *)
(* the byte limits, which lead where the packet limit leads, are left out. *)
(* Whether 200 ms passed since the last packet of the open unit is the     *)
(* argument "late" of Drain and Push.                                      *)
(***************************************************************************)
EXTENDS Integers, Sequences, FiniteSets, SequencesExt, Functions

CONSTANTS SeqSpace,      \* 2^16 in the code
          ReorderWindow, \* maxH264ReorderWindow, as a number of packets
          MaxCompleted,  \* maxH264ReorderWindow, as a number of units remembered
          MaxPackets     \* maxH264Packets

ASSUME StreamConstants ==
  /\ {SeqSpace, ReorderWindow, MaxCompleted, MaxPackets} \subseteq Nat \ {0}
  /\ SeqSpace % 2 = 0
  /\ 2 * ReorderWindow < SeqSpace

NoSeq == -1
NoUnit == [ts |-> -1]
NoFrame == [ts |-> -1]
NoAnchor == [ts |-> -1, next |-> NoSeq]
NoParameter == -1

\* Unsigned subtraction and the half-range test "0 < distance < 1<<15".
Minus(a, b) == (a - b) % SeqSpace
Half == SeqSpace \div 2
Ahead(a, b) == Minus(a, b) \in 1..(Half - 1)
After(n) == (n + 1) % SeqSpace

NewStream ==
  [pending |-> NoUnit, draining |-> NoUnit, sps |-> NoParameter, pps |-> NoParameter,
   anchor |-> NoAnchor, completed |-> <<>>]

-----------------------------------------------------------------------------
(* Where the next access unit must begin, and which ones are over          *)

SetAnchor(s, ts, next) == [s EXCEPT !.anchor = [ts |-> ts, next |-> next]]
ClearAnchor(s) == [s EXCEPT !.anchor = NoAnchor]

Remembered(s, ts) == \E i \in DOMAIN s.completed : s.completed[i].ts = ts

Remember(s, ts, frontier) ==
  LET longer == Append(s.completed, [ts |-> ts, frontier |-> frontier])
  IN  IF Remembered(s, ts) THEN s
      ELSE [s EXCEPT !.completed = IF Len(longer) > MaxCompleted THEN Tail(longer) ELSE longer]

\* A packet of a unit that is over is refused; one beyond the unit's frontier
\* shows that the anchor taken from it was too early.
RejectCompleted(s, p) ==
  LET i == CHOOSE j \in DOMAIN s.completed : s.completed[j].ts = p.ts
      frontier == s.completed[i].frontier
      moved == [s EXCEPT !.completed[i].frontier = p.seq]
  IN  IF frontier # NoSeq /\ ~Ahead(p.seq, frontier) THEN s
      ELSE IF frontier = NoSeq \/ s.anchor.ts # p.ts THEN moved
      ELSE [ClearAnchor(moved) EXCEPT
              !.pending = IF @ = NoUnit THEN @ ELSE [@ EXCEPT !.expected = NoSeq],
              !.draining = IF @ = NoUnit THEN @ ELSE [@ EXCEPT !.anchored = FALSE]]

DiscardPending(s) ==
  LET u == s.pending
      over == Remember([s EXCEPT !.pending = NoUnit], u.ts, u.frontier)
  IN  IF u = NoUnit THEN s
      ELSE IF u.explicit /\ u.marker = u.frontier THEN SetAnchor(over, u.ts, After(u.marker))
      ELSE ClearAnchor(over)

-----------------------------------------------------------------------------
(* NAL units and parameter sets                                            *)

\* validateH264Payload: what a payload does to the fragment that is open.
CheckPayload(p, open) ==
  LET result(bad, incomplete, after) == [bad |-> bad, incomplete |-> incomplete, open |-> after]
  IN  CASE p.part = "single" -> result(open # "none", FALSE, "none")
        [] p.part = "start"  -> result(open # "none", FALSE, p.nal)
        [] open = "none"     -> result(FALSE, TRUE, "none")
        [] OTHER -> result(p.nal # open, FALSE, IF p.part = "end" THEN "none" ELSE open)

\* The payload completes a NAL unit of this type.  "stap" is an aggregate of an
\* SPS and a PPS.
Completes(p, nal) ==
  /\ p.nal = nal \/ (p.nal = "stap" /\ nal \in {"sps", "pps"})
  /\ p.part \in {"single", "end"}

Newest(p, nal, old) == IF Completes(p, nal) THEN p.ts ELSE old

DepacketizeOne(unit, p) ==
  LET check == CheckPayload(p, unit.open)
  IN  IF unit.error # "none" THEN unit
      ELSE IF check.bad THEN [unit EXCEPT !.error = "invalid"]
      ELSE IF check.incomplete THEN [unit EXCEPT !.error = "incomplete"]
      ELSE [unit EXCEPT !.open = check.open, !.idr = @ \/ Completes(p, "idr"),
                        !.sps = Newest(p, "sps", @), !.pps = Newest(p, "pps", @)]

\* Consecutive packets of one timestamp, of which only the last is marked.
Depacketize(packets) ==
  LET start == [error |-> "none", open |-> "none", idr |-> FALSE,
                sps |-> NoParameter, pps |-> NoParameter]
      end == FoldLeft(DepacketizeOne, start, packets)
      early == \E i \in 1..(Len(packets) - 1) : packets[i].marker
  IN  IF early THEN [start EXCEPT !.error = "invalid"]
      ELSE IF end.error = "none" /\ end.open # "none" THEN [end EXCEPT !.error = "incomplete"]
      ELSE end

Prefer(new, old) == IF new = NoParameter THEN old ELSE new

\* accept: retain the parameter sets; a unit with an IDR picture is a candidate.
Accept(s, unit, packets, wanted) ==
  LET kept == [s EXCEPT !.sps = Prefer(unit.sps, @), !.pps = Prefer(unit.pps, @)]
      usable == unit.idr /\ kept.sps # NoParameter /\ kept.pps # NoParameter
  IN  [stream |-> kept,
       frame |-> IF wanted /\ usable
                 THEN [ts |-> packets[1].ts, packets |-> packets, sps |-> kept.sps, pps |-> kept.pps]
                 ELSE NoFrame]

-----------------------------------------------------------------------------
(* Draining: packets seen while nobody waits for a frame                   *)

FinishDrainUnit(s, next, markerObserved) ==
  LET u == s.draining
      continuous == next = After(u.last)
      over == Remember([s EXCEPT !.draining = NoUnit], u.ts, u.last)
      anchored == IF continuous /\ (markerObserved \/ ~u.sequenceGap)
                  THEN SetAnchor(over, u.ts, next) ELSE ClearAnchor(over)
  IN  IF u.invalid \/ ~continuous \/ u.open # "none" \/ ~u.anchored THEN anchored
      ELSE Accept(anchored, [idr |-> FALSE, sps |-> u.sps, pps |-> u.pps], <<>>, FALSE).stream

\* Variant: the first packet of a unit is taken to follow the last unit.
DrainSequenceLoose(s, p) ==
  LET u == s.draining
      gap == u # NoUnit /\ Minus(p.seq, u.last) # 1
  IN  IF u = NoUnit
      THEN [ts |-> p.ts, anchored |-> s.anchor # NoAnchor, last |-> p.seq, invalid |-> gap,
            sequenceGap |-> gap, count |-> 0, open |-> "none",
            sps |-> NoParameter, pps |-> NoParameter]
      ELSE [u EXCEPT !.invalid = @ \/ gap, !.sequenceGap = @ \/ gap,
                     !.last = IF Ahead(p.seq, @) THEN p.seq ELSE @]

\* The unit that p opens, or the open unit after p's sequence number.
DrainSequence(s, p) ==
  LET u == s.draining
      gap == IF u = NoUnit THEN s.anchor # NoAnchor /\ p.seq # s.anchor.next
             ELSE Minus(p.seq, u.last) # 1
  IN  IF u = NoUnit
      THEN [ts |-> p.ts, anchored |-> s.anchor # NoAnchor, last |-> p.seq, invalid |-> gap,
            sequenceGap |-> gap, count |-> 0, open |-> "none",
            sps |-> NoParameter, pps |-> NoParameter]
      ELSE [u EXCEPT !.invalid = @ \/ gap, !.sequenceGap = @ \/ gap,
                     !.last = IF Ahead(p.seq, @) THEN p.seq ELSE @]

DrainPayload(u, p) ==
  LET check == CheckPayload(p, u.open)
  IN  IF u.count >= MaxPackets THEN [u EXCEPT !.invalid = TRUE]
      ELSE IF u.invalid THEN [u EXCEPT !.count = @ + 1]
      ELSE IF check.bad \/ check.incomplete THEN [u EXCEPT !.count = @ + 1, !.invalid = TRUE]
      ELSE [u EXCEPT !.count = @ + 1, !.open = check.open,
                     !.sps = Newest(p, "sps", @), !.pps = Newest(p, "pps", @)]

DrainPacket(s, p) ==
  LET moved == IF s.draining # NoUnit /\ s.draining.ts # p.ts
               THEN FinishDrainUnit(s, p.seq, FALSE) ELSE s
      filled == [moved EXCEPT !.draining = DrainPayload(DrainSequence(moved, p), p)]
  IN  IF Remembered(s, p.ts) THEN RejectCompleted(s, p)
      ELSE IF p.marker THEN FinishDrainUnit(filled, After(p.seq), TRUE)
      ELSE filled

\* Variant: the unit in flight is simply dropped.
BeginWaitForgets(s) == [s EXCEPT !.draining = NoUnit]

\* A unit in flight when a waiter registers is too old for it.
BeginWait(s) ==
  IF s.draining = NoUnit THEN s
  ELSE [s EXCEPT !.draining.invalid = TRUE, !.draining.sps = NoParameter,
                 !.draining.pps = NoParameter]

EndWait(s) == DiscardPending(s)

Expire(s, late) ==
  LET u == s.draining
      over == Remember([s EXCEPT !.draining = NoUnit], u.ts, u.last)
  IN  IF ~late THEN s
      ELSE IF s.pending # NoUnit THEN DiscardPending(s)
      ELSE IF u = NoUnit THEN s
      ELSE IF ~u.invalid /\ u.open = "none" /\ ~u.sequenceGap
           THEN SetAnchor(over, u.ts, After(u.last))
      ELSE ClearAnchor(over)

\* A packet that carries nothing ends the open unit and its own.
PoisonPacket(s, p) ==
  LET open == IF s.pending # NoUnit THEN Remember(s, s.pending.ts, s.pending.frontier)
              ELSE IF s.draining # NoUnit THEN Remember(s, s.draining.ts, s.draining.last)
              ELSE s
      closed == [open EXCEPT !.pending = NoUnit, !.draining = NoUnit]
      over == Remember(closed, p.ts, IF p.form = "empty" THEN p.seq ELSE NoSeq)
  IN  IF Remembered(s, p.ts) THEN s
      ELSE IF p.form = "empty" THEN SetAnchor(over, p.ts, After(p.seq))
      ELSE ClearAnchor(over)

Drain(s, p, late) ==
  LET now == Expire(s, late)
  IN  IF p.form # "ok" THEN PoisonPacket(now, p) ELSE DrainPacket(DiscardPending(now), p)

-----------------------------------------------------------------------------
(* Pending: the packets of one unit, reordered, while a capture waits      *)

NewPending(s, p, generation) ==
  [ts |-> p.ts, packets |-> <<>>, expected |-> s.anchor.next,
   reorderNext |-> s.anchor.next, reorderBase |-> 0, frontier |-> NoSeq,
   marker |-> NoSeq, explicit |-> FALSE, generation |-> generation]

ObserveSequence(u, seq) ==
  [u EXCEPT !.frontier = IF @ = NoSeq \/ Ahead(seq, @) THEN seq ELSE @]

\* sequenceWithinReorderWindow: without an anchor the window is around the
\* packets that came so far and may be extended backwards.
InWindow(u, seq) ==
  LET backward == Minus(u.reorderBase, seq)
      span == Minus(u.frontier, seq)
  IN  IF u.expected # NoSeq THEN Minus(seq, u.reorderNext) < ReorderWindow
      ELSE IF u.frontier = NoSeq THEN TRUE
      ELSE IF Minus(seq, u.reorderBase) < Half THEN Minus(seq, u.reorderBase) <= ReorderWindow
      ELSE backward <= ReorderWindow /\ ~(span < Half /\ span > ReorderWindow)

\* Where the run of packets starts when the window accepted seq.
WindowStart(u, seq) ==
  IF u.expected = NoSeq /\ (u.frontier = NoSeq \/ Minus(seq, u.reorderBase) >= Half)
  THEN seq ELSE u.reorderNext

\* The first sequence number at or after n of which no packet came.
FirstMissing(packets, n) ==
  LET at(k) == (n + k) % SeqSpace
      k == CHOOSE k \in 0..Cardinality(DOMAIN packets) :
             at(k) \notin DOMAIN packets /\ \A j \in 0..(k - 1) : at(j) \in DOMAIN packets
  IN  at(k)

AddPacket(u, p) ==
  LET packets == [q \in DOMAIN u.packets \cup {p.seq} |-> IF q = p.seq THEN p ELSE u.packets[q]]
      next == FirstMissing(packets, WindowStart(u, p.seq))
  IN  [ObserveSequence(u, p.seq) EXCEPT
         !.packets = packets, !.reorderNext = next,
         !.reorderBase = IF u.expected = NoSeq THEN Minus(next, 1) ELSE @]

SetMarker(u, p) ==
  IF p.marker THEN [u EXCEPT !.marker = p.seq, !.explicit = TRUE] ELSE u

\* How far before the marker the unit reaches.
Distances(u) ==
  {Minus(u.marker, q) : q \in DOMAIN u.packets \cup ({u.expected} \ {NoSeq})}

Oversized(u) == u.marker # NoSeq /\ \E d \in Distances(u) : d >= MaxPackets
Complete(u) ==
  u.marker # NoSeq /\ Distances(u) = 0..(Cardinality(DOMAIN u.packets) - 1)

OrderedPackets(u) ==
  LET n == Cardinality(DOMAIN u.packets)
  IN  [i \in 1..n |-> u.packets[Minus(u.marker, n - i)]]

\* Variant: a unit is taken though nothing says where it had to begin.
FinishUnanchored(s, u, unit, next, watermark, wanted) ==
  LET over == Remember(SetAnchor([s EXCEPT !.pending = NoUnit], u.ts, next), u.ts, u.frontier)
  IN  IF unit.error # "none" \/ (watermark # 0 /\ u.generation <= watermark)
      THEN [stream |-> over, frame |-> NoFrame]
      ELSE Accept(over, unit, OrderedPackets(u), wanted)

\* The unit is over; it is a candidate when it is anchored and newer than the
\* waiter's watermark.
FinishPending(s, u, unit, next, watermark, wanted) ==
  LET over == Remember(SetAnchor([s EXCEPT !.pending = NoUnit], u.ts, next), u.ts, u.frontier)
  IN  IF unit.error # "none" \/ u.expected = NoSeq \/ (watermark # 0 /\ u.generation <= watermark)
      THEN [stream |-> over, frame |-> NoFrame]
      ELSE Accept(over, unit, OrderedPackets(u), wanted)

\* A unit whose marker was not seen ends where the next one begins.
FinishAtTimestampTransition(s, next, watermark, wanted) ==
  LET last == Minus(next, 1)
      u == [s.pending EXCEPT !.marker = last,
              !.packets = [q \in DOMAIN @ |-> IF q = last THEN [@[q] EXCEPT !.marker = TRUE] ELSE @[q]]]
  IN  IF s.pending.marker # NoSeq \/ last \notin DOMAIN s.pending.packets
      THEN [stream |-> DiscardPending(s), frame |-> NoFrame]
      ELSE IF Oversized(u) \/ ~Complete(u)
      THEN [stream |-> DiscardPending([s EXCEPT !.pending = u]), frame |-> NoFrame]
      ELSE FinishPending(s, u, Depacketize(OrderedPackets(u)), next, watermark, wanted)

\* The part of process that files p in the unit of its timestamp.
PendPacket(s, p, generation, watermark, wanted) ==
  LET u == IF s.pending = NoUnit THEN NewPending(s, p, generation) ELSE s.pending
      added == AddPacket(u, p)
      ended == SetMarker(added, p)
      unit == Depacketize(OrderedPackets(ended))
      held(v) == [stream |-> [s EXCEPT !.pending = v], frame |-> NoFrame]
      dropped(v) == [stream |-> DiscardPending([s EXCEPT !.pending = v]), frame |-> NoFrame]
  IN  IF p.seq \in DOMAIN u.packets
      THEN IF u.packets[p.seq] = p THEN held(u) ELSE dropped(u)
      ELSE IF ~InWindow(u, p.seq) THEN dropped(SetMarker(ObserveSequence(u, p.seq), p))
      ELSE IF Cardinality(DOMAIN u.packets) >= MaxPackets THEN dropped(ObserveSequence(u, p.seq))
      ELSE IF p.marker /\ u.marker \notin {NoSeq, p.seq} THEN dropped(added)
      ELSE IF Oversized(ended) THEN dropped(ended)
      ELSE IF ~Complete(ended) THEN held(ended)
      ELSE IF unit.error = "incomplete" THEN held(ended)
      ELSE FinishPending(s, ended, unit, After(ended.marker), watermark, wanted)

\* Variant: the unit being drained stays open.
KeepDrainUnit(s, p) == s

\* A packet of another unit ends the one being drained.
LeaveDrainUnit(s, p) ==
  IF s.draining = NoUnit THEN s ELSE FinishDrainUnit(s, p.seq, FALSE)

\* process: at most one candidate; a candidate found at a change of timestamp
\* leaves the packet that revealed it to be filed without another.
Push(s, p, generation, watermark, late) ==
  LET now == Expire(s, late)
      after == LeaveDrainUnit(now, p)
      turn == IF after.pending # NoUnit /\ after.pending.ts # p.ts
              THEN FinishAtTimestampTransition(after, p.seq, watermark, TRUE)
              ELSE [stream |-> after, frame |-> NoFrame]
      only(t) == [stream |-> t, frame |-> NoFrame]
  IN  IF p.form # "ok" THEN only(PoisonPacket(now, p))
      ELSE IF Remembered(now, p.ts) THEN only(RejectCompleted(now, p))
      ELSE IF now.draining.ts = p.ts THEN only(DrainPacket(now, p))
      ELSE IF turn.frame = NoFrame THEN PendPacket(turn.stream, p, generation, watermark, TRUE)
      ELSE [turn EXCEPT !.stream = PendPacket(@, p, generation, watermark, FALSE).stream]
=============================================================================
