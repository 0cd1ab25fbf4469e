-------------------------- MODULE DeviceLaneProofs --------------------------
(***************************************************************************)
(* Proofs about DeviceLane, for any number of jobs, keys and probes and    *)
(* whatever others write into the media file: the HID state of the host is *)
(* isolated, a failed upload leaves nothing, replies are honest, and what  *)
(* is mounted is the file that was hashed.                                 *)
(*                                                                         *)
(* Where a job is determines what it holds.  The invariant says, in        *)
(* groups: which jobs come to which places (Placed), what turn and gate    *)
(* mean (Turns, Gated), what the host sees pressed (Pressing), which       *)
(* places own something on the device (Leftovers), what was accepted so    *)
(* far (Honest), and how the media file, its digest and the device's copy  *)
(* agree (FileKept).  A clean-up that could not get through excuses what   *)
(* it leaves (Spoilt).                                                     *)
(***************************************************************************)
EXTENDS DeviceLane, SequenceTheorems, TLAPS

Bits == {0, 1}
Files == [of : Jobs \cup {NoJob}, blocks : Seq(Bits \cup {"old"})]
Works ==
  [file : [1 .. 2 -> Bits], touched : BOOLEAN, stealthy : BOOLEAN, replaced : BOOLEAN,
   digest : Seq(Bits), uploaded : Seq(Bits), present : SUBSET {"partial", "final"},
   mutated : BOOLEAN]

Typed ==
  /\ kind \in [Jobs -> Kinds] /\ writes \in Nat
  /\ at \in [Jobs -> Places] /\ step \in [Jobs -> Nat]
  /\ got \in [Jobs -> {"none", "ok", "rejected"}]
  /\ due \in [Jobs -> Outcomes] /\ reply \in [Jobs -> Outcomes]
  /\ turn \in Jobs \cup {NoJob} /\ gate \in Jobs \cup {NoJob} /\ pressed \in Jobs \cup {NoJob}
  /\ awaiting \subseteq Jobs /\ canceled \subseteq Jobs /\ armed \subseteq Jobs
  /\ changed \subseteq Jobs /\ spoiled \subseteq Jobs
  /\ link \in {"up", "down", "foreign"} /\ takenOver \in BOOLEAN /\ ended \in BOOLEAN
  /\ work \in Works /\ partial \in Files /\ final \in Files /\ mounted \in Files

HIDPlaces == HIDCalls \cup {"gate", "finish"}
Before == {"list", "drop_partial", "drop_final", "start"}
Cleaning == {"abort", "abort_partial", "clean_partial", "clean_final"}
Uploaded == {"transfer", "verify", "mount"}
MediaPlaces == {"open", "hash"} \cup Before \cup Uploaded \cup Cleaning

\* Which jobs come where, and what a job carries to its clean-up.
Placed ==
  \A j \in Jobs :
    /\ at[j] \in HIDPlaces => HID(j)
    /\ at[j] \in MediaPlaces => Media(j)
    /\ at[j] = "probe" => kind[j] = "status"
    /\ at[j] = "act" => kind[j] = "power"
    /\ at[j] = "done" <=> reply[j] # "none"
    /\ at[j] \in {"finish", "neutral"} => due[j] # "none"
    /\ at[j] \in Cleaning => due[j] = "unknown"
    /\ at[j] \in {"new", "open", "hash"} \cup Before \cup Uploaded => due[j] = "none"

\* A mutation under way has the turn.
Turns ==
  \A j \in Jobs :
    /\ Mutation(j) /\ at[j] \notin {"new", "done"} => turn = j
    /\ turn = j => at[j] \notin {"new", "done"}

\* Whoever has the gate has a call to make, and a hid job keeps it to its end.
Gated ==
  /\ awaiting \subseteq {gate}
  /\ \A j \in Jobs :
       /\ gate = j => at[j] \in Calls \cup {"finish"}
       /\ at[j] \in HIDCalls \cup {"finish"} => gate = j
       /\ got[j] # "none" => j \in awaiting
       /\ j \in awaiting => at[j] \in Calls

\* What the host sees pressed will be released by the job that pressed it, or was by
\* the firmware, or could not be.
Pressing ==
  /\ takenOver => link = "foreign"
  /\ link = "foreign" => pressed = NoJob
  /\ pressed # NoJob => HID(pressed) /\ (pressed \in armed \/ pressed \in spoiled)
  /\ \A j \in Jobs :
       /\ j \in armed => at[j] \in {"press", "release", "finish", "neutral"}
       /\ at[j] \in {"press", "release", "neutral"} => j \in armed
       /\ at[j] \in {"release", "neutral"} /\ got[j] = "ok" => pressed # j
       /\ at[j] = "neutral" /\ j \in awaiting => pressed # j \/ j \in spoiled
       /\ HID(j) /\ j \in spoiled => at[j] \in {"neutral", "done"}

\* Only a job whose upload was started, and is not cleaned up, owns a file; one whose
\* start went unanswered an empty one.
Owns(j) == j \in {partial.of, final.of}
Unstarted(j) == at[j] = "done" /\ due[j] = "none" /\ reply[j] # "ok"
Leftovers ==
  \A j \in Jobs \ spoiled :
    /\ Owns(j) => \/ at[j] \in Uploaded \cup Cleaning
                  \/ at[j] = "start" /\ got[j] = "ok"
                  \/ reply[j] = "ok" \/ Unstarted(j)
    /\ at[j] \in {"start", "abort", "abort_partial"} \/ Unstarted(j) =>
         final.of # j /\ (partial.of = j => partial.blocks = <<>>)
    /\ at[j] \in {"abort_partial", "clean_partial"} /\ j \in awaiting => partial.of # j
    /\ at[j] = "clean_final" => partial.of # j /\ (j \in awaiting => final.of # j)

\* A clean-up that did not get through is the job's last.
Spoilt == \A j \in spoiled : at[j] \in Cleaning \cup {"neutral", "done"}

\* What was accepted of a job that may still say that nothing was.
Accepting == {"press", "move", "act", "drop_partial", "drop_final", "start", "mount"}
Honest ==
  \A j \in Jobs :
    /\ j \in changed => Mutation(j)
    /\ at[j] \in Accepting /\ got[j] = "ok" => j \in changed
    /\ at[j] \in {"new", "gate", "open", "hash", "list"} => j \notin changed
    /\ at[j] \in {"move", "act"} /\ got[j] # "ok" => j \notin changed
    /\ at[j] = "press" /\ got[j] # "ok" /\ step[j] <= 1 => j \notin changed
    /\ at[j] = "release" => j \in changed
    /\ at[j] \in {"press", "release"} => step[j] >= 1
    /\ at[j] \in {"finish", "neutral"} /\ due[j] \in {"not_sent", "failed"} => j \notin changed
    /\ at[j] = "finish" /\ due[j] = "ok" => j \notin armed /\ j \in changed
    /\ at[j] = "neutral" => due[j] # "ok"
    /\ at[j] \in Before /\ j \in changed => work.mutated \/ got[j] = "ok"
    /\ at[j] \in Uploaded => j \in changed

\* The opened file, the digest, what was sent and what the device keeps.
FileKept ==
  /\ (\A j \in Jobs : at[j] \in MediaPlaces => at[j] = "open") => work = NoWork
  /\ ~work.touched /\ ~work.stealthy =>
       work.file = NoWork.file /\ \A i \in 1 .. Len(work.digest) : work.digest[i] = 0
  /\ \A j \in Jobs :
       /\ at[j] = "hash" => step[j] \in {1, 2} /\ Len(work.digest) = step[j] - 1
       /\ at[j] \in Before \cup Uploaded => Len(work.digest) = 2
       /\ at[j] \in Before \cup {"hash"} => work.uploaded = <<>>
       /\ at[j] = "start" /\ got[j] = "ok" =>
            partial = [of |-> j, blocks |-> <<>>] /\ final.of # j
       /\ at[j] = "transfer" =>
            /\ step[j] = Len(work.uploaded) + 1 /\ Len(work.uploaded) <= 2
            /\ \/ partial.of = j /\ partial.blocks = work.uploaded /\ final.of # j
               \/ /\ partial = Nothing /\ final.of = j
                  /\ final.blocks = work.uploaded /\ Len(work.uploaded) = 2
       /\ at[j] \in {"verify", "mount"} => partial = Nothing /\ final.blocks = work.digest

IInv ==
  /\ Typed /\ Placed /\ Turns /\ Gated
  /\ Pressing /\ Leftovers /\ Spoilt /\ Honest /\ FileKept

-----------------------------------------------------------------------------
(* How a call ends: answered, or given up before it was handed over        *)

Results == {"ok", "failed", "unknown", "not_sent"}

CallEnds(j, r) ==
  /\ at[j] \in Calls /\ Answered(j, r)
  /\ r = "ok" => got[j] = "ok"
  /\ r = "failed" => got[j] = "rejected"
  /\ r \in {"ok", "failed", "unknown"} => j \in awaiting
  /\ r = "not_sent" => j \notin awaiting
  /\ awaiting' = awaiting \ {j}
  /\ got' = [got EXCEPT ![j] = "none"]
  /\ gate' = IF gate = j /\ ~KeepsGate(j) THEN NoJob ELSE gate
  /\ spoiled' = IF r = "not_sent" /\ Detached(j) THEN spoiled \cup {j} ELSE spoiled
  /\ UNCHANGED <<canceled, sessionVars, deviceVars>>

\* acquire gives up before a hid job has the gate.
GateGivenUp(j) ==
  /\ at[j] = "gate" /\ Return(j, "not_sent")
  /\ UNCHANGED <<callVars, armed, work, spoiled, canceled, sessionVars, deviceVars>>

\* The answer of the session ends the job's call with one of the three results.
LEMMA AnswerEnds ==
  ASSUME IInv, NEW j \in Jobs, Answer(j)
  PROVE  \E r \in Results : CallEnds(j, r)
<1>1. j \in awaiting /\ gate = j /\ at[j] \in Calls
  BY DEF IInv, Gated, Answer
<1>2. PICK r \in {"ok", "failed", "unknown"} :
        /\ r = "ok" => got[j] = "ok"
        /\ r = "failed" => got[j] = "rejected"
        /\ Answered(j, r) /\ got' = [got EXCEPT ![j] = "none"]
  BY DEF Answer
<1>3. /\ awaiting' = awaiting \ {j} /\ gate' = IF KeepsGate(j) THEN gate ELSE NoJob
      /\ UNCHANGED <<canceled, sessionVars, deviceVars, spoiled>>
  BY DEF Answer
<1>4. CallEnds(j, r)
  BY <1>1, <1>2, <1>3 DEF CallEnds
<1> QED BY <1>4 DEF Results

\* A call that cannot be sent ends so, or its job gives up waiting for the gate.
LEMMA NotSentEnds ==
  ASSUME IInv, NEW j \in Jobs, NotSent(j)
  PROVE  CallEnds(j, "not_sent") \/ GateGivenUp(j)
<1>1. CASE at[j] = "gate"
  <2>1. gate # j /\ ~Detached(j) /\ got[j] = "none"
    BY <1>1 DEF IInv, Gated, Detached, Calls, HIDCalls, NotSent
  <2>2. got' = got /\ spoiled' = spoiled /\ gate' = gate
    BY <1>1, <2>1 DEF NotSent, Spoil, IInv, Typed
  <2> QED BY <1>1, <2>2 DEF NotSent, GateGivenUp, callVars
<1>2. CASE at[j] # "gate"
  <2>1. j \notin awaiting /\ Answered(j, "not_sent") /\ at[j] \in Calls
    BY <1>2 DEF NotSent
  <2> QED BY <1>2, <2>1 DEF NotSent, CallEnds, Spoil
<1> QED BY <1>1, <1>2

-----------------------------------------------------------------------------
(* What a job step does, at the job and beside it                          *)

ControlTyped ==
  /\ at \in [Jobs -> Places] /\ step \in [Jobs -> Nat]
  /\ due \in [Jobs -> Outcomes] /\ reply \in [Jobs -> Outcomes]
  /\ turn \in Jobs \cup {NoJob}

Alone(j) ==
  \A k \in Jobs \ {j} :
    at'[k] = at[k] /\ step'[k] = step[k] /\ due'[k] = due[k] /\ reply'[k] = reply[k]

Goes(j, place) ==
  at'[j] = place /\ due'[j] = due[j] /\ reply'[j] = reply[j] /\ turn' = turn
Leaves(j, place, o) ==
  at'[j] = place /\ due'[j] = o /\ reply'[j] = reply[j] /\ turn' = turn /\ step'[j] = step[j]
Returns(j, o) ==
  /\ at'[j] = "done" /\ reply'[j] = o /\ due'[j] = due[j]
  /\ turn' = IF turn = j THEN NoJob ELSE turn

\* Going to a place moves nobody else.
LEMMA GotoMoves ==
  ASSUME IInv, NEW j \in Jobs, NEW place \in Places, NEW n \in Nat, Goto(j, place, n)
  PROVE  ControlTyped' /\ Alone(j) /\ Goes(j, place) /\ step'[j] = n
  BY DEF IInv, Typed, ControlTyped, Alone, Goes, Goto

\* Leaving a call for a place, with its outcome, moves nobody else.
LEMMA LeaveMoves ==
  ASSUME IInv, NEW j \in Jobs, NEW place \in Places, NEW o \in Outcomes, Leave(j, place, o)
  PROVE  ControlTyped' /\ Alone(j) /\ Leaves(j, place, o)
  BY DEF IInv, Typed, ControlTyped, Alone, Leaves, Leave

\* Returning moves nobody else and reports the outcome against what came before.
LEMMA ReturnMoves ==
  ASSUME IInv, NEW j \in Jobs, NEW o \in Outcomes, Return(j, o)
  PROVE  ControlTyped' /\ Alone(j) /\ Returns(j, Outcome(j, o))
<1>1. Outcome(j, o) \in Outcomes
  BY DEF Outcome, Outcomes
<1>2. "done" \in Places
  BY DEF Places
<1> QED BY <1>1, <1>2 DEF IInv, Typed, ControlTyped, Alone, Returns, Return

\* A mutation returns its outcome as it is, and nothing comes to be "none" or "ok".
LEMMA OutcomeKept ==
  ASSUME NEW j \in Jobs, NEW o \in Outcomes
  PROVE  /\ Outcome(j, o) \in Outcomes
         /\ Mutation(j) => Outcome(j, o) = o
         /\ o \in {"none", "ok", "not_sent", "failed"} => Outcome(j, o) = o
         /\ Outcome(j, o) \in {"none", "ok", "not_sent"} => Outcome(j, o) = o
  BY DEF Outcome, Outcomes

\* Whether a sequence that fails with r may be repeated.
Told(o, r, prior) == o \in Outcomes \ {"none", "ok"} /\ o = IF prior THEN "unknown" ELSE r

\* sequenceError: what a failed call in a sequence is reported as.
LEMMA SequenceErrorTold ==
  ASSUME NEW r \in Results, r # "ok", NEW prior \in BOOLEAN
  PROVE  Told(SequenceError(r, prior), r, prior) /\ SequenceError(r, prior) \in Outcomes
  BY DEF Told, SequenceError, Results, Outcomes

HIDCallMoves(j, r) ==
  \/ at[j] = "press" /\ r = "ok" /\ Goes(j, "release") /\ step'[j] = step[j] /\ armed' = armed
  \/ /\ at[j] = "press" /\ r # "ok" /\ armed' = armed
     /\ \E o \in Outcomes : Told(o, r, step[j] > 1) /\ Leaves(j, "finish", o)
  \/ at[j] = "release" /\ r # "ok" /\ Leaves(j, "finish", "unknown") /\ armed' = armed
  \/ at[j] = "release" /\ r = "ok" /\ Goes(j, "press") /\ step'[j] = step[j] + 1 /\ armed' = armed
  \/ at[j] = "release" /\ r = "ok" /\ Leaves(j, "finish", "ok") /\ armed' = armed \ {j}
  \/ at[j] = "move" /\ Leaves(j, "finish", r) /\ armed' = armed
  \/ at[j] = "neutral" /\ Returns(j, due[j]) /\ armed' = armed \ {j}

SingleCallMoves(j, r) ==
  \/ at[j] = "probe" /\ \E o \in Outcomes \ {"none"} : Returns(j, o) /\ (o = "ok" => ~ended)
  \/ at[j] = "probe" /\ Goes(j, "probe") /\ step'[j] = step[j] + 1
  \/ at[j] = "act" /\ Returns(j, r)

UploadCallMoves(j, r) ==
  \/ at[j] = "mount" /\ r = "ok" /\ Returns(j, "ok") /\ work' = NoWork
  \/ at[j] = "mount" /\ r # "ok" /\ Leaves(j, "clean_partial", "unknown") /\ work' = work
  \/ at[j] = "clean_partial" /\ Goes(j, "clean_final") /\ work' = work
  \/ at[j] \in {"clean_final", "abort_partial"} /\ Returns(j, due[j]) /\ work' = NoWork
  \/ /\ at[j] = "list" /\ r = "ok"
     /\ \E place \in {"drop_partial", "drop_final", "start"} : Goes(j, place)
     /\ \E found \in SUBSET {"partial", "final"} : work' = [work EXCEPT !.present = found]
  \/ at[j] = "list" /\ r # "ok" /\ Returns(j, "not_sent") /\ work' = NoWork
  \/ /\ at[j] \in {"drop_partial", "drop_final"} /\ r = "ok"
     /\ \E place \in {"drop_final", "start"} : Goes(j, place)
     /\ work' = [work EXCEPT !.mutated = TRUE]
  \/ /\ at[j] \in {"drop_partial", "drop_final", "start"} /\ r # "ok" /\ work' = NoWork
     /\ \E o \in Outcomes : Told(o, r, work.mutated) /\ Returns(j, o)
  \/ /\ at[j] = "start" /\ r = "ok" /\ Goes(j, "transfer") /\ step'[j] = 1
     /\ work' = [work EXCEPT !.mutated = TRUE]
  \/ /\ at[j] = "start" /\ r = "ok" /\ work' = [work EXCEPT !.mutated = TRUE]
     /\ \E place \in {"abort", "abort_partial"} : Leaves(j, place, "unknown")

\* What the end of a call does is one of three, by the kind of job it was made for.
LEMMA CallEndsMoves ==
  ASSUME IInv, NEW j \in Jobs, NEW r \in Results, CallEnds(j, r)
  PROVE  /\ ControlTyped' /\ Alone(j)
         /\ \/ HIDCallMoves(j, r) /\ work' = work
            \/ SingleCallMoves(j, r) /\ work' = work /\ armed' = armed
            \/ UploadCallMoves(j, r) /\ armed' = armed
<1> DEFINE Goal == /\ ControlTyped' /\ Alone(j)
                   /\ \/ HIDCallMoves(j, r) /\ work' = work
                      \/ SingleCallMoves(j, r) /\ work' = work /\ armed' = armed
                      \/ UploadCallMoves(j, r) /\ armed' = armed
<1>1. /\ at[j] \in Places /\ step[j] \in Nat /\ due[j] \in Outcomes /\ work \in Works
      /\ Mutation(j) => \A o \in Outcomes : Outcome(j, o) = o
      /\ work.mutated \in BOOLEAN
  BY OutcomeKept DEF IInv, Typed, Works
<1>2. Results \subseteq Outcomes \ {"none"} /\ Calls \cup {"finish", "transfer", "abort"} \subseteq Places
      /\ {"ok", "unknown", "not_sent", "failed"} \subseteq Outcomes
  BY DEF Results, Outcomes, Places
<1>3. CASE ReportAnswered(j, r) /\ UNCHANGED work
  <2>1. CASE at[j] = "press" /\ r = "ok"
    <3>1. Goto(j, "release", step[j]) /\ armed' = armed
      BY <1>3, <2>1 DEF ReportAnswered
    <3> QED BY <1>1, <1>3, <2>1, <3>1, GotoMoves DEF HIDCallMoves, Places, Calls, HIDCalls
  <2>2. CASE at[j] = "press" /\ r # "ok"
    <3>1. Leave(j, "finish", SequenceError(r, step[j] > 1)) /\ armed' = armed
      BY <1>3, <2>2 DEF ReportAnswered
    <3>2. Told(SequenceError(r, step[j] > 1), r, step[j] > 1)
          /\ SequenceError(r, step[j] > 1) \in Outcomes
      <4>1. (step[j] > 1) \in BOOLEAN
        BY <1>1
      <4> QED BY <2>2, <4>1, SequenceErrorTold
    <3> HIDE DEF Goal
    <3>3. ControlTyped' /\ Alone(j) /\ Leaves(j, "finish", SequenceError(r, step[j] > 1))
      BY <3>1, <3>2, LeaveMoves DEF Places
    <3>4. HIDCallMoves(j, r)
      BY <2>2, <3>1, <3>2, <3>3 DEF HIDCallMoves
    <3> QED BY <1>3, <3>3, <3>4 DEF Goal
  <2>3. CASE at[j] = "release" /\ r # "ok"
    <3>1. Leave(j, "finish", "unknown") /\ armed' = armed
      BY <1>3, <2>3 DEF ReportAnswered, SequenceError
    <3> QED BY <1>2, <1>3, <2>3, <3>1, LeaveMoves DEF HIDCallMoves
  <2>4. CASE at[j] = "release" /\ r = "ok"
    <3>1. \/ Goto(j, "press", step[j] + 1) /\ armed' = armed
          \/ Leave(j, "finish", "ok") /\ armed' = armed \ {j}
      BY <1>3, <2>4 DEF ReportAnswered
    <3>2. CASE Goto(j, "press", step[j] + 1) /\ armed' = armed
      BY <1>1, <1>3, <2>4, <3>2, GotoMoves DEF HIDCallMoves, Places, Calls, HIDCalls
    <3>3. CASE Leave(j, "finish", "ok") /\ armed' = armed \ {j}
      BY <1>2, <1>3, <2>4, <3>3, LeaveMoves DEF HIDCallMoves
    <3> QED BY <3>1, <3>2, <3>3
  <2>5. CASE at[j] = "move"
    <3>1. Leave(j, "finish", r) /\ armed' = armed
      BY <1>3, <2>5 DEF ReportAnswered
    <3> QED BY <1>2, <1>3, <2>5, <3>1, LeaveMoves DEF HIDCallMoves
  <2> QED BY <1>3, <2>1, <2>2, <2>3, <2>4, <2>5 DEF ReportAnswered
<1>4. CASE NeutralAnswered(j) /\ UNCHANGED work
  <2>1. Mutation(j)
    BY <1>4 DEF NeutralAnswered, IInv, Placed, HID, Mutation, HIDPlaces, HIDCalls
  <2> QED BY <1>1, <1>4, <2>1, ReturnMoves DEF NeutralAnswered, HIDCallMoves
<1>5. CASE ProbeAnswered(j, r) /\ UNCHANGED <<armed, work>>
  <2>1. at[j] = "probe"
    BY <1>5 DEF ProbeAnswered
  <2>2. CASE Goto(j, "probe", step[j] + 1)
    BY <1>1, <1>5, <2>1, <2>2, GotoMoves DEF SingleCallMoves, Places, Calls
  <2>3. CASE \E o \in Results : Return(j, o) /\ (o = "ok" => ~ended)
    <3>1. PICK o \in Results : Return(j, o) /\ (o = "ok" => ~ended)
      BY <2>3
    <3>2. o \in Outcomes \ {"none"} /\ Outcome(j, o) \in Outcomes \ {"none"}
          /\ (Outcome(j, o) = "ok" => o = "ok")
      BY <1>2, OutcomeKept
    <3> HIDE DEF Goal
    <3>3. ControlTyped' /\ Alone(j) /\ Returns(j, Outcome(j, o))
      BY <3>1, <3>2, ReturnMoves
    <3>4. SingleCallMoves(j, r)
      BY <2>1, <3>1, <3>2, <3>3 DEF SingleCallMoves
    <3> QED BY <1>5, <3>3, <3>4 DEF Goal
  <2> QED BY <1>5, <2>2, <2>3 DEF ProbeAnswered, Results
<1>6. CASE at[j] = "act" /\ Return(j, r) /\ UNCHANGED <<armed, work>>
  <2>1. Mutation(j)
    BY <1>6 DEF IInv, Placed, Mutation
  <2> QED BY <1>1, <1>2, <1>6, <2>1, ReturnMoves DEF SingleCallMoves
<1>7. CASE (AfterUpload(j, r) \/ BeforeUpload(j, r)) /\ at[j] \in MediaPlaces
  <2>1. Mutation(j) /\ Media(j)
    BY <1>7 DEF IInv, Placed, Mutation, Media
  <2>2. CASE \/ at[j] = "mount" /\ r = "ok" /\ Return(j, "ok") /\ Keep(j, work) /\ armed' = armed
             \/ /\ at[j] = "list" /\ r # "ok" /\ Return(j, "not_sent") /\ Keep(j, work)
                /\ armed' = armed
             \/ /\ at[j] \in {"clean_final", "abort_partial"} /\ Return(j, due[j]) /\ Keep(j, work)
                /\ armed' = armed
    <3>1. work' = NoWork
      BY <1>1, <1>2, <2>1, <2>2, ReturnMoves DEF Keep, Returns
    <3> QED BY <1>1, <1>2, <2>1, <2>2, <3>1, ReturnMoves DEF UploadCallMoves
  <2>3. CASE \/ at[j] = "mount" /\ r # "ok" /\ Leave(j, "clean_partial", "unknown")
                /\ Keep(j, work) /\ armed' = armed
    <3>1. work' = work
      BY <1>2, <2>3, LeaveMoves DEF Keep, Leaves, Calls
    <3> QED BY <1>2, <2>3, <3>1, LeaveMoves DEF UploadCallMoves, Calls
  <2>4. CASE at[j] = "clean_partial" /\ Goto(j, "clean_final", 1) /\ Keep(j, work) /\ armed' = armed
    <3>1. work' = work
      BY <1>2, <2>4, GotoMoves DEF Keep, Goes, Calls
    <3> QED BY <1>2, <2>4, <3>1, GotoMoves DEF UploadCallMoves, Calls
  <2>5. CASE at[j] = "list" /\ r = "ok" /\ BeforeUpload(j, r) /\ armed' = armed
    <3>1. PICK found \in SUBSET {"partial", "final"} :
            DropFrom(j, found) /\ Keep(j, [work EXCEPT !.present = found])
      BY <2>5 DEF BeforeUpload
    <3>2. PICK place \in {"drop_partial", "drop_final", "start"} : Goto(j, place, 1)
      BY <3>1 DEF DropFrom
    <3>3. ControlTyped' /\ Alone(j) /\ Goes(j, place)
      BY <1>2, <3>2, GotoMoves DEF Calls
    <3>4. work' = [work EXCEPT !.present = found]
      BY <3>1, <3>3 DEF Keep, Goes
    <3>5. UploadCallMoves(j, r)
      BY <2>5, <3>3, <3>4 DEF UploadCallMoves
    <3> QED BY <2>5, <3>3, <3>5
  <2>6. CASE /\ at[j] \in {"drop_partial", "drop_final"} /\ r = "ok" /\ BeforeUpload(j, r)
             /\ armed' = armed
    <3>1. PICK found : DropFrom(j, found) /\ Keep(j, [work EXCEPT !.mutated = TRUE])
                       /\ "partial" \notin found
      BY <1>1, <2>6 DEF BeforeUpload, Works
    <3>2. PICK place \in {"drop_final", "start"} : Goto(j, place, 1)
      BY <3>1 DEF DropFrom
    <3>3. ControlTyped' /\ Alone(j) /\ Goes(j, place)
      BY <1>2, <3>2, GotoMoves DEF Calls
    <3>4. work' = [work EXCEPT !.mutated = TRUE]
      BY <3>1, <3>3 DEF Keep, Goes
    <3>5. UploadCallMoves(j, r)
      BY <2>6, <3>3, <3>4 DEF UploadCallMoves
    <3> QED BY <2>6, <3>3, <3>5
  <2>7. CASE /\ at[j] \in {"drop_partial", "drop_final", "start"} /\ r # "ok" /\ BeforeUpload(j, r)
             /\ armed' = armed
    <3>1. Return(j, SequenceError(r, work.mutated)) /\ \E w : Keep(j, w)
      BY <2>7 DEF BeforeUpload
    <3>2. Told(SequenceError(r, work.mutated), r, work.mutated)
          /\ SequenceError(r, work.mutated) \in Outcomes
      BY <1>1, <2>7, SequenceErrorTold
    <3>3. ControlTyped' /\ Alone(j) /\ Returns(j, SequenceError(r, work.mutated))
      BY <1>1, <2>1, <3>1, <3>2, ReturnMoves
    <3>4. work' = NoWork
      BY <2>1, <3>1, <3>3 DEF Keep, Returns
    <3>5. UploadCallMoves(j, r)
      BY <2>7, <3>2, <3>3, <3>4 DEF UploadCallMoves
    <3> QED BY <2>7, <3>3, <3>5
  <2>8. CASE at[j] = "start" /\ r = "ok" /\ BeforeUpload(j, r) /\ armed' = armed
    <3>1. Keep(j, [work EXCEPT !.mutated = TRUE])
      BY <1>1, <2>8 DEF BeforeUpload, Works
    <3>2. CASE Goto(j, "transfer", 1)
      <4>1. ControlTyped' /\ Alone(j) /\ Goes(j, "transfer") /\ step'[j] = 1
        BY <1>2, <3>2, GotoMoves
      <4>2. UploadCallMoves(j, r)
        BY <2>8, <3>1, <4>1 DEF UploadCallMoves, Keep, Goes
      <4> QED BY <2>8, <4>1, <4>2
    <3>3. CASE \E place \in {"abort", "abort_partial"} : Leave(j, place, "unknown")
      <4>1. PICK place \in {"abort", "abort_partial"} : Leave(j, place, "unknown")
        BY <3>3
      <4>2. ControlTyped' /\ Alone(j) /\ Leaves(j, place, "unknown")
        BY <1>2, <4>1, LeaveMoves DEF Calls
      <4>3. UploadCallMoves(j, r)
        BY <2>8, <3>1, <4>2 DEF UploadCallMoves, Keep, Leaves
      <4> QED BY <2>8, <4>2, <4>3
    <3> QED BY <2>8, <3>2, <3>3 DEF BeforeUpload
  <2>9. CASE AfterUpload(j, r) /\ Keep(j, work) /\ UNCHANGED armed
    <3>1. r # "ok" => SequenceError(r, TRUE) = "unknown"
      BY DEF SequenceError
    <3> QED BY <2>2, <2>3, <2>4, <2>9, <3>1 DEF AfterUpload
  <2>10. CASE BeforeUpload(j, r) /\ UNCHANGED armed
    <3>1. at[j] = "list" /\ r # "ok" => Return(j, "not_sent") /\ Keep(j, work)
      BY <2>10 DEF BeforeUpload
    <3> QED BY <2>2, <2>5, <2>6, <2>7, <2>8, <2>10, <3>1 DEF BeforeUpload
  <2> QED BY <1>7, <2>9, <2>10 DEF CallEnds, Answered, ReportAnswered, NeutralAnswered,
       ProbeAnswered, AfterUpload, BeforeUpload
<1>8. AfterUpload(j, r) \/ BeforeUpload(j, r) => at[j] \in MediaPlaces
  BY DEF AfterUpload, BeforeUpload, MediaPlaces, Before, Uploaded, Cleaning
<1> QED BY <1>3, <1>4, <1>5, <1>6, <1>7, <1>8 DEF CallEnds, Answered

\* The other steps of a job.
BeginMoves(j) ==
  /\ at[j] = "new" /\ UNCHANGED <<localVars, work, deviceVars>>
  /\ \/ /\ at'[j] = FirstPlace(j) /\ step'[j] = step[j] /\ due'[j] = due[j]
        /\ reply'[j] = reply[j] /\ kind[j] # "absent"
        /\ IF Mutation(j) THEN turn = NoJob /\ turn' = j ELSE turn' = turn
     \/ Returns(j, "not_sent")

\* Begin, in terms of the moves.
LEMMA BeginTold ==
  ASSUME IInv, NEW j \in Jobs, Begin(j)
  PROVE  ControlTyped' /\ Alone(j) /\ BeginMoves(j)
<1>1. CASE Return(j, "not_sent")
  <2>1. "not_sent" \in Outcomes /\ Outcome(j, "not_sent") = "not_sent"
    BY DEF Outcomes, Outcome
  <2>2. ControlTyped' /\ Alone(j) /\ Returns(j, "not_sent")
    BY <1>1, <2>1, ReturnMoves
  <2> QED BY <2>2 DEF Begin, BeginMoves
<1>2. CASE /\ turn = NoJob \/ ~Mutation(j)
           /\ at' = [at EXCEPT ![j] = FirstPlace(j)] /\ turn' = IF Mutation(j) THEN j ELSE turn
           /\ UNCHANGED <<step, due, reply>>
  <2>1. FirstPlace(j) \in Places
    BY DEF FirstPlace, Places, Calls
  <2>2. ControlTyped'
    BY <1>2, <2>1 DEF IInv, Typed, ControlTyped
  <2>3. Alone(j) /\ at'[j] = FirstPlace(j)
    BY <1>2, <2>1 DEF IInv, Typed, Alone
  <2> QED BY <1>2, <2>2, <2>3 DEF Begin, BeginMoves
<1> QED BY <1>1, <1>2 DEF Begin

TakeGateMoves(j) ==
  /\ gate = NoJob /\ gate' = j
  /\ UNCHANGED <<awaiting, got, canceled, sessionVars, work, deviceVars, spoiled>>
  /\ \/ /\ at[j] = "gate" /\ step'[j] = 1
        /\ \/ Goes(j, "move") /\ armed' = armed
           \/ Goes(j, "press") /\ armed' = armed \cup {j}
     \/ at[j] \in Calls /\ UNCHANGED <<controlVars, armed>>

\* TakeGate, in terms of the moves.
LEMMA TakeGateTold ==
  ASSUME IInv, NEW j \in Jobs, TakeGate(j)
  PROVE  ControlTyped' /\ Alone(j) /\ TakeGateMoves(j)
<1>1. CASE at[j] = "gate"
  <2>1. PICK place \in {"move", "press"} :
          /\ Goto(j, place, 1)
          /\ armed' = IF place = "move" THEN armed ELSE armed \cup {j}
    BY <1>1 DEF TakeGate
  <2>2. place \in Places /\ 1 \in Nat
    BY DEF Places, Calls, HIDCalls
  <2>3. ControlTyped' /\ Alone(j) /\ Goes(j, place) /\ step'[j] = 1
    BY <2>1, <2>2, GotoMoves
  <2> QED BY <1>1, <2>1, <2>3 DEF TakeGate, TakeGateMoves
<1>2. CASE at[j] \in Calls /\ UNCHANGED <<controlVars, armed>>
  BY <1>2 DEF TakeGate, TakeGateMoves, IInv, Typed, ControlTyped, Alone, controlVars
<1>3. "gate" \notin Calls
  BY DEF Calls, HIDCalls
<1> QED BY <1>1, <1>2, <1>3 DEF TakeGate

FinishHIDMoves(j) ==
  /\ at[j] = "finish"
  /\ UNCHANGED <<awaiting, got, canceled, sessionVars, work, deviceVars, spoiled>>
  /\ \/ /\ takenOver \/ j \notin armed
        /\ Returns(j, due[j]) /\ armed' = armed \ {j} /\ gate' = NoJob
     \/ ~takenOver /\ j \in armed /\ Goes(j, "neutral") /\ UNCHANGED <<armed, gate>>

\* FinishHID, in terms of the moves.
LEMMA FinishHIDTold ==
  ASSUME IInv, NEW j \in Jobs, FinishHID(j)
  PROVE  ControlTyped' /\ Alone(j) /\ FinishHIDMoves(j)
<1>1. Mutation(j) /\ due[j] \in Outcomes
  BY DEF FinishHID, IInv, Typed, Placed, HID, Mutation, HIDPlaces
<1>2. CASE takenOver \/ j \notin armed
  <2>1. Return(j, due[j])
    BY <1>2 DEF FinishHID
  <2>2. ControlTyped' /\ Alone(j) /\ Returns(j, due[j])
    BY <1>1, <2>1, ReturnMoves, OutcomeKept
  <2> QED BY <1>2, <2>2 DEF FinishHID, FinishHIDMoves
<1>3. CASE ~takenOver /\ j \in armed
  <2>1. "neutral" \in Places /\ 1 \in Nat
    BY DEF Places, Calls, HIDCalls
  <2>2. ControlTyped' /\ Alone(j) /\ Goes(j, "neutral")
    BY <1>3, <2>1, GotoMoves DEF FinishHID
  <2> QED BY <1>3, <2>2 DEF FinishHID, FinishHIDMoves
<1> QED BY <1>2, <1>3

PrepareMoves(j) ==
  /\ UNCHANGED <<localVars, deviceVars>>
  /\ \/ at[j] \in {"open", "hash"} /\ Returns(j, "not_sent") /\ work' = NoWork
     \/ at[j] = "open" /\ Goes(j, "hash") /\ step'[j] = 1 /\ work' = work
     \/ /\ at[j] = "hash" /\ work' = [work EXCEPT !.digest = Append(@, work.file[step[j]])]
        /\ \/ step[j] = 1 /\ Goes(j, "hash") /\ step'[j] = 2
           \/ step[j] # 1 /\ Goes(j, "list")

\* Prepare, in terms of the moves.
LEMMA PrepareTold ==
  ASSUME IInv, NEW j \in Jobs, Prepare(j)
  PROVE  ControlTyped' /\ Alone(j) /\ PrepareMoves(j)
<1>1. /\ Media(j) /\ {"hash", "list"} \subseteq Places /\ 1 \in Nat /\ 2 \in Nat
      /\ "not_sent" \in Outcomes /\ Outcome(j, "not_sent") = "not_sent"
  BY DEF Prepare, IInv, Placed, MediaPlaces, Places, Calls, Outcomes, Outcome
<1>2. CASE Return(j, "not_sent") /\ Keep(j, work)
  <2>1. ControlTyped' /\ Alone(j) /\ Returns(j, "not_sent")
    BY <1>1, <1>2, ReturnMoves
  <2>2. work' = NoWork
    BY <1>1, <1>2, <2>1 DEF Keep, Returns
  <2> QED BY <2>1, <2>2 DEF Prepare, PrepareMoves
<1>3. CASE at[j] = "open" /\ Goto(j, "hash", 1) /\ UNCHANGED work
  <2>1. ControlTyped' /\ Alone(j) /\ Goes(j, "hash") /\ step'[j] = 1
    BY <1>1, <1>3, GotoMoves
  <2> QED BY <1>3, <2>1 DEF Prepare, PrepareMoves
<1>4. CASE /\ at[j] = "hash" /\ step[j] = 1 /\ Goto(j, "hash", 2)
           /\ work' = [work EXCEPT !.digest = Append(@, work.file[step[j]])]
  <2>1. ControlTyped' /\ Alone(j) /\ Goes(j, "hash") /\ step'[j] = 2
    BY <1>1, <1>4, GotoMoves
  <2> QED BY <1>4, <2>1 DEF Prepare, PrepareMoves
<1>5. CASE /\ at[j] = "hash" /\ step[j] # 1 /\ Goto(j, "list", 1)
           /\ work' = [work EXCEPT !.digest = Append(@, work.file[step[j]])]
  <2>1. ControlTyped' /\ Alone(j) /\ Goes(j, "list")
    BY <1>1, <1>5, GotoMoves
  <2> QED BY <1>5, <2>1 DEF Prepare, PrepareMoves
<1> QED BY <1>2, <1>3, <1>4, <1>5 DEF Prepare

TransferMoves(j) ==
  /\ at[j] = "transfer" /\ UNCHANGED <<localVars, pressed, final, mounted, changed>>
  /\ \/ Leaves(j, "clean_partial", "unknown") /\ UNCHANGED <<work, partial>>
     \/ /\ step[j] <= 2 /\ Goes(j, "transfer") /\ step'[j] = step[j] + 1
        /\ work' = [work EXCEPT !.uploaded = Append(@, work.file[step[j]])]
        /\ partial' = IF partial.of = j
                      THEN [partial EXCEPT !.blocks = Append(@, work.file[step[j]])]
                      ELSE partial
     \/ /\ step[j] = 3 /\ final.of = j /\ work.uploaded = work.digest /\ Goes(j, "verify")
        /\ UNCHANGED <<work, partial>>

\* Transfer, in terms of the moves.
LEMMA TransferTold ==
  ASSUME IInv, NEW j \in Jobs, Transfer(j)
  PROVE  ControlTyped' /\ Alone(j) /\ TransferMoves(j)
<1>1. /\ {"transfer", "verify", "clean_partial"} \subseteq Places /\ 1 \in Nat
      /\ step[j] + 1 \in Nat /\ "unknown" \in Outcomes
  BY DEF IInv, Typed, Places, Calls, Outcomes
<1>2. CASE Discard(j) /\ UNCHANGED <<work, partial>>
  <2>1. ControlTyped' /\ Alone(j) /\ Leaves(j, "clean_partial", "unknown")
    BY <1>1, <1>2, LeaveMoves DEF Discard
  <2> QED BY <1>2, <2>1 DEF Transfer, TransferMoves
<1>3. CASE Goto(j, "transfer", step[j] + 1) /\ step[j] <= 2
           /\ work' = [work EXCEPT !.uploaded = Append(@, work.file[step[j]])]
           /\ partial' = IF partial.of = j
                         THEN [partial EXCEPT !.blocks = Append(@, work.file[step[j]])]
                         ELSE partial
  <2>1. ControlTyped' /\ Alone(j) /\ Goes(j, "transfer") /\ step'[j] = step[j] + 1
    BY <1>1, <1>3, GotoMoves
  <2> QED BY <1>3, <2>1 DEF Transfer, TransferMoves
<1>4. CASE /\ step[j] = 3 /\ final.of = j /\ work.uploaded = work.digest
           /\ Goto(j, "verify", 1) /\ UNCHANGED <<work, partial>>
  <2>1. ControlTyped' /\ Alone(j) /\ Goes(j, "verify")
    BY <1>1, <1>4, GotoMoves
  <2> QED BY <1>4, <2>1 DEF Transfer, TransferMoves
<1> QED BY <1>2, <1>3, <1>4 DEF Transfer

AbortMoves(j) ==
  at[j] = "abort" /\ Goes(j, "abort_partial") /\ UNCHANGED <<localVars, work, deviceVars>>

\* Abort, in terms of the moves.
LEMMA AbortTold ==
  ASSUME IInv, NEW j \in Jobs, Abort(j)
  PROVE  ControlTyped' /\ Alone(j) /\ AbortMoves(j)
<1>1. "abort_partial" \in Places /\ 1 \in Nat
  BY DEF Places, Calls
<1>2. ControlTyped' /\ Alone(j) /\ Goes(j, "abort_partial")
  BY <1>1, GotoMoves DEF Abort
<1> QED BY <1>2 DEF Abort, AbortMoves

VerifyMoves(j) ==
  /\ at[j] = "verify" /\ UNCHANGED <<localVars, deviceVars>>
  /\ \/ Leaves(j, "clean_partial", "unknown") /\ work' = work
     \/ step[j] # 4 /\ Goes(j, "verify") /\ work' = work
     \/ step[j] >= 4 /\ Unchanged(step[j]) /\ Goes(j, "mount") /\ work' = work
     \/ step[j] >= 4 /\ Unchanged(step[j]) /\ Returns(j, "ok") /\ work' = NoWork

\* Verify, in terms of the moves.
LEMMA VerifyTold ==
  ASSUME IInv, NEW j \in Jobs, Verify(j)
  PROVE  ControlTyped' /\ Alone(j) /\ VerifyMoves(j)
<1>1. /\ Media(j) /\ {"mount", "verify", "clean_partial"} \subseteq Places /\ 1 \in Nat
      /\ step[j] \in Nat /\ step[j] + 1 \in Nat /\ {"unknown", "ok"} \subseteq Outcomes
      /\ Outcome(j, "ok") = "ok" /\ at[j] = "verify"
  BY DEF Verify, IInv, Typed, Placed, MediaPlaces, Uploaded, Places, Calls, Outcomes, Outcome
<1>2. CASE Discard(j) /\ Keep(j, work)
  <2>1. ControlTyped' /\ Alone(j) /\ Leaves(j, "clean_partial", "unknown")
    BY <1>1, <1>2, LeaveMoves DEF Discard
  <2> QED BY <1>2, <2>1 DEF Verify, VerifyMoves, Keep, Leaves
<1>3. CASE step[j] < 4 /\ Goto(j, "verify", step[j] + 1) /\ Keep(j, work)
  <2>1. ControlTyped' /\ Alone(j) /\ Goes(j, "verify")
    BY <1>1, <1>3, GotoMoves
  <2>2. work' = work /\ step[j] # 4
    BY <1>1, <1>3, <2>1 DEF Keep, Goes
  <2> QED BY <2>1, <2>2 DEF Verify, VerifyMoves
<1>4. CASE Goto(j, "mount", 1) /\ Keep(j, work) /\ ~(step[j] < 4) /\ Unchanged(step[j])
  <2>1. ControlTyped' /\ Alone(j) /\ Goes(j, "mount")
    BY <1>1, <1>4, GotoMoves
  <2>2. work' = work /\ step[j] >= 4
    BY <1>1, <1>4, <2>1 DEF Keep, Goes
  <2> QED BY <1>4, <2>1, <2>2 DEF Verify, VerifyMoves
<1>5. CASE Return(j, "ok") /\ Keep(j, work) /\ ~(step[j] < 4) /\ Unchanged(step[j])
  <2>1. ControlTyped' /\ Alone(j) /\ Returns(j, "ok")
    BY <1>1, <1>5, ReturnMoves
  <2>2. work' = NoWork /\ step[j] >= 4
    BY <1>1, <1>5, <2>1 DEF Keep, Returns
  <2> QED BY <1>5, <2>1, <2>2 DEF Verify, VerifyMoves
<1> QED BY <1>2, <1>3, <1>4, <1>5 DEF Verify

SendMoves(j) ==
  /\ gate = j /\ at[j] \in Calls /\ j \notin awaiting /\ ~ended
  /\ UNCHANGED <<controlVars, gate, canceled, armed, sessionVars, work>>
  /\ awaiting' = awaiting \cup {j}
  /\ \/ /\ link = "up" /\ Possible(j)
        /\ Effect(j) /\ got' = [got EXCEPT ![j] = "ok"] /\ spoiled' = spoiled
     \/ /\ \E o \in {"rejected", "none"} : got' = [got EXCEPT ![j] = o]
        /\ spoiled' = IF Detached(j) /\ Possible(j) THEN spoiled \cup {j} ELSE spoiled
        /\ UNCHANGED deviceVars

HIDCallEnds(j) ==
  \E r \in Results : CallEnds(j, r) /\ HIDCallMoves(j, r) /\ work' = work
SingleCallEnds(j) ==
  \E r \in Results : CallEnds(j, r) /\ SingleCallMoves(j, r) /\ work' = work /\ armed' = armed
UploadCallEnds(j) ==
  \E r \in Results : CallEnds(j, r) /\ UploadCallMoves(j, r) /\ armed' = armed
GivesUpGate(j) ==
  /\ at[j] = "gate" /\ Returns(j, "not_sent")
  /\ UNCHANGED <<callVars, armed, work, spoiled, canceled, sessionVars, deviceVars>>

JobMoves(j) ==
  /\ ControlTyped' /\ Alone(j) /\ kind' = kind /\ writes' = writes
  /\ \/ BeginMoves(j) \/ TakeGateMoves(j) \/ GivesUpGate(j) \/ SendMoves(j)
     \/ HIDCallEnds(j) \/ SingleCallEnds(j) \/ UploadCallEnds(j)
     \/ FinishHIDMoves(j) \/ PrepareMoves(j) \/ TransferMoves(j) \/ AbortMoves(j)
     \/ VerifyMoves(j)

OthersMove ==
  /\ UNCHANGED <<kind, controlVars, callVars, armed, spoiled>>
  /\ \/ DeviceStores /\ writes' = writes
     \/ /\ WriteFile \/ UNCHANGED work
        /\ UNCHANGED <<partial, final, mounted, changed>>
        /\ \/ UNCHANGED <<pressed, sessionVars>> /\ canceled' \subseteq Jobs
           \/ /\ canceled' = canceled
              /\ \/ LinkFails \/ Displaced \/ RecognizeTakeover \/ SessionEnds
        /\ writes' = writes \/ WriteFile

\* Send, in terms of the moves.
LEMMA SendTold ==
  ASSUME IInv, NEW j \in Jobs, Send(j)
  PROVE  ControlTyped' /\ Alone(j) /\ SendMoves(j)
<1>1. UNCHANGED controlVars
  BY DEF Send
<1>2. ControlTyped' /\ Alone(j)
  BY <1>1 DEF controlVars, IInv, Typed, ControlTyped, Alone
<1>3. SendMoves(j)
  BY DEF Send, SendMoves, Spoil
<1> QED BY <1>2, <1>3

\* Every step is a move of one job, or of the device, the writers and the contexts.
LEMMA StepMoves ==
  ASSUME IInv, [Next]_vars
  PROVE  OthersMove \/ \E j \in Jobs : JobMoves(j)
<1>1. ASSUME NEW j \in Jobs, JobStep(j), UNCHANGED <<kind, writes>> PROVE JobMoves(j)
  <2>1. ASSUME Answer(j) \/ NotSent(j) PROVE JobMoves(j)
    <3>1. CASE GateGivenUp(j)
      <4>1. "not_sent" \in Outcomes /\ Outcome(j, "not_sent") = "not_sent"
        BY DEF Outcomes, Outcome
      <4>2. ControlTyped' /\ Alone(j) /\ Returns(j, "not_sent")
        BY <3>1, <4>1, ReturnMoves DEF GateGivenUp
      <4> QED BY <1>1, <3>1, <4>2 DEF GateGivenUp, GivesUpGate, JobMoves
    <3>2. CASE \E r \in Results : CallEnds(j, r)
      <4>1. PICK r \in Results : CallEnds(j, r)
        BY <3>2
      <4>2. HIDCallEnds(j) \/ SingleCallEnds(j) \/ UploadCallEnds(j)
        BY <4>1, CallEndsMoves DEF HIDCallEnds, SingleCallEnds, UploadCallEnds
      <4>3. ControlTyped' /\ Alone(j)
        BY <4>1, CallEndsMoves
      <4> QED BY <1>1, <4>2, <4>3 DEF JobMoves
    <3> QED BY <2>1, <3>1, <3>2, AnswerEnds, NotSentEnds DEF Results
  <2> QED BY <1>1, <2>1, BeginTold, TakeGateTold, SendTold, FinishHIDTold, PrepareTold,
             TransferTold, AbortTold, VerifyTold DEF JobStep, JobMoves
<1>2. ASSUME NEW j \in Jobs, Cancel(j), UNCHANGED <<kind, writes>> PROVE OthersMove
  <2>1. canceled' \subseteq Jobs
    BY <1>2 DEF Cancel, IInv, Typed
  <2> QED BY <1>2, <2>1 DEF Cancel, OthersMove, othersVars, deviceVars
<1>3. ASSUME DeviceStores \/ LinkFails \/ Displaced \/ RecognizeTakeover \/ SessionEnds,
             UNCHANGED <<kind, writes>>
      PROVE  OthersMove
  <2>1. CASE DeviceStores
    BY <1>3, <2>1 DEF DeviceStores, OthersMove
  <2>2. CASE LinkFails
    BY <1>3, <2>2 DEF LinkFails, OthersMove, othersVars, deviceVars
  <2>3. CASE Displaced
    BY <1>3, <2>3 DEF Displaced, OthersMove, othersVars
  <2>4. CASE RecognizeTakeover
    BY <1>3, <2>4 DEF RecognizeTakeover, OthersMove, othersVars, deviceVars
  <2>5. CASE SessionEnds
    BY <1>3, <2>5 DEF SessionEnds, OthersMove, othersVars, deviceVars
  <2> QED BY <1>3, <2>1, <2>2, <2>3, <2>4, <2>5
<1>4. ASSUME WriteFile, UNCHANGED kind PROVE OthersMove
  <2>1. UNCHANGED <<othersVars, canceled, sessionVars, deviceVars>>
    BY <1>4, Zenon DEF WriteFile
  <2>2. canceled' \subseteq Jobs
    BY <2>1 DEF IInv, Typed
  <2> QED BY <1>4, <2>1, <2>2 DEF OthersMove, othersVars, deviceVars
<1>5. ASSUME UNCHANGED vars PROVE OthersMove
  <2>1. canceled' \subseteq Jobs
    BY <1>5 DEF vars, IInv, Typed
  <2> QED BY <1>5, <2>1 DEF vars, OthersMove, deviceVars
<1> QED BY <1>1, <1>2, <1>3, <1>4, <1>5 DEF Next, Done

-----------------------------------------------------------------------------
(* Types, places and turns                                                 *)

\* A step keeps each kind of job at the places of its kind.
LEMMA StepPlaced ==
  ASSUME IInv, [Next]_vars
  PROVE  Placed'
<1> USE DEF HID, Media, HIDPlaces, MediaPlaces, Before, Uploaded, Cleaning, HIDCalls
<1>1. ASSUME OthersMove PROVE Placed'
  BY <1>1 DEF OthersMove, controlVars, IInv, Placed
<1>2. ASSUME NEW j \in Jobs, JobMoves(j) PROVE Placed'
  <2>1. kind' = kind /\ Alone(j)
    BY <1>2 DEF JobMoves
  <2> DEFINE P(k) ==
        /\ at[k] \in HIDPlaces => HID(k)
        /\ at[k] \in MediaPlaces => Media(k)
        /\ at[k] = "probe" => kind[k] = "status"
        /\ at[k] = "act" => kind[k] = "power"
        /\ at[k] = "done" <=> reply[k] # "none"
        /\ at[k] \in {"finish", "neutral"} => due[k] # "none"
        /\ at[k] \in Cleaning => due[k] = "unknown"
        /\ at[k] \in {"new", "open", "hash"} \cup Before \cup Uploaded => due[k] = "none"
  <2>2. ASSUME NEW k \in Jobs \ {j} PROVE P(k)'
    BY <2>1, <2>2 DEF Alone, IInv, Placed
  <2>3. P(j)
    BY DEF IInv, Placed
  <2>4. P(j)'
    <3>1. CASE BeginMoves(j)
      BY <2>1, <2>3, <3>1 DEF BeginMoves, Returns, FirstPlace, IInv, Typed, Kinds
    <3>2. CASE TakeGateMoves(j)
      BY <2>1, <2>3, <3>2 DEF TakeGateMoves, Goes, controlVars
    <3>3. CASE GivesUpGate(j)
      BY <2>1, <2>3, <3>3 DEF GivesUpGate, Returns
    <3>4. CASE SendMoves(j)
      BY <2>1, <2>3, <3>4 DEF SendMoves, controlVars
    <3>5. CASE HIDCallEnds(j)
      BY <2>1, <2>3, <3>5 DEF HIDCallEnds, HIDCallMoves, Goes, Leaves, Returns, Told, Results
    <3>6. CASE SingleCallEnds(j)
      BY <2>1, <2>3, <3>6 DEF SingleCallEnds, SingleCallMoves, Goes, Returns, Results
    <3>7. CASE UploadCallEnds(j)
      BY <2>1, <2>3, <3>7 DEF UploadCallEnds, UploadCallMoves, Goes, Leaves, Returns, Told
    <3>8. CASE FinishHIDMoves(j)
      BY <2>1, <2>3, <3>8 DEF FinishHIDMoves, Goes, Returns
    <3>9. CASE PrepareMoves(j)
      BY <2>1, <2>3, <3>9 DEF PrepareMoves, Goes, Returns
    <3>10. CASE TransferMoves(j)
      BY <2>1, <2>3, <3>10 DEF TransferMoves, Goes, Leaves
    <3>11. CASE AbortMoves(j)
      BY <2>1, <2>3, <3>11 DEF AbortMoves, Goes
    <3>12. CASE VerifyMoves(j)
      BY <2>1, <2>3, <3>12 DEF VerifyMoves, Goes, Leaves, Returns
    <3> QED BY <1>2, <3>1, <3>2, <3>3, <3>4, <3>5, <3>6, <3>7, <3>8, <3>9, <3>10, <3>11, <3>12
            DEF JobMoves
  <2> QED BY <2>2, <2>4 DEF Placed
<1> QED BY <1>1, <1>2, StepMoves

\* A step keeps the turn with a mutation that is under way.
LEMMA StepTurns ==
  ASSUME IInv, [Next]_vars
  PROVE  Turns'
<1> USE DEF HIDPlaces, MediaPlaces, Before, Uploaded, Cleaning, HIDCalls
<1>1. ASSUME OthersMove PROVE Turns'
  BY <1>1 DEF OthersMove, controlVars, IInv, Turns, Mutation
<1>2. ASSUME NEW j \in Jobs, JobMoves(j) PROVE Turns'
  <2>1. kind' = kind /\ Alone(j) /\ NoJob \notin Jobs
    BY <1>2, LaneConstants DEF JobMoves
  <2> DEFINE P(k) == /\ Mutation(k) /\ at[k] \notin {"new", "done"} => turn = k
                     /\ turn = k => at[k] \notin {"new", "done"}
             Same == at[j] \notin {"new", "done"} /\ at'[j] \notin {"new", "done"} /\ turn' = turn
             Over == at'[j] = "done" /\ turn' = IF turn = j THEN NoJob ELSE turn
             Taken == /\ at[j] = "new" /\ at'[j] \notin {"new", "done"}
                      /\ IF Mutation(j) THEN turn = NoJob /\ turn' = j ELSE turn' = turn
  <2>2. \A k \in Jobs : P(k)
    BY DEF IInv, Turns
  <2>3. Same \/ Over \/ Taken
    <3>1. CASE BeginMoves(j)
      BY <3>1 DEF BeginMoves, Returns, FirstPlace
    <3>2. CASE TakeGateMoves(j)
      BY <3>2 DEF TakeGateMoves, Goes, controlVars, Calls
    <3>3. CASE GivesUpGate(j)
      BY <3>3 DEF GivesUpGate, Returns
    <3>4. CASE SendMoves(j)
      BY <3>4 DEF SendMoves, controlVars, Calls
    <3>5. CASE HIDCallEnds(j)
      BY <3>5 DEF HIDCallEnds, HIDCallMoves, Goes, Leaves, Returns
    <3>6. CASE SingleCallEnds(j)
      BY <3>6 DEF SingleCallEnds, SingleCallMoves, Goes, Returns
    <3>7. CASE UploadCallEnds(j)
      BY <3>7 DEF UploadCallEnds, UploadCallMoves, Goes, Leaves, Returns
    <3>8. CASE FinishHIDMoves(j)
      BY <3>8 DEF FinishHIDMoves, Goes, Returns
    <3>9. CASE PrepareMoves(j)
      BY <3>9 DEF PrepareMoves, Goes, Returns
    <3>10. CASE TransferMoves(j)
      BY <3>10 DEF TransferMoves, Goes, Leaves
    <3>11. CASE AbortMoves(j)
      BY <3>11 DEF AbortMoves, Goes
    <3>12. CASE VerifyMoves(j)
      BY <3>12 DEF VerifyMoves, Goes, Leaves, Returns
    <3> QED BY <1>2, <3>1, <3>2, <3>3, <3>4, <3>5, <3>6, <3>7, <3>8, <3>9, <3>10, <3>11, <3>12
            DEF JobMoves
  <2>4. ASSUME NEW k \in Jobs PROVE P(k)'
    <3>1. Mutation(k)' <=> Mutation(k)
      BY <2>1 DEF Mutation
    <3>2. P(k) /\ P(j)
      BY <2>2
    <3>3. k # j => at'[k] = at[k]
      BY <2>1 DEF Alone
    <3> HIDE DEF Same, Over, Taken
    <3>4. CASE Same BY <2>1, <3>1, <3>2, <3>3, <3>4 DEF Same
    <3>5. CASE Over BY <2>1, <3>1, <3>2, <3>3, <3>5 DEF Over
    <3>6. CASE Taken BY <2>1, <3>1, <3>2, <3>3, <3>6 DEF Taken, Mutation
    <3> QED BY <2>3, <3>4, <3>5, <3>6
  <2> QED BY <2>4 DEF Turns
<1> QED BY <1>1, <1>2, StepMoves

\* A step keeps the RPC gate with the job that holds it.
LEMMA StepGated ==
  ASSUME IInv, [Next]_vars
  PROVE  Gated'
<1> USE DEF HIDCalls
<1>1. ASSUME OthersMove PROVE Gated'
  BY <1>1 DEF OthersMove, controlVars, callVars, IInv, Gated
<1>2. ASSUME NEW j \in Jobs, JobMoves(j) PROVE Gated'
  <2>1. kind' = kind /\ Alone(j) /\ NoJob \notin Jobs /\ awaiting \subseteq {gate}
        /\ gate \in Jobs \cup {NoJob} /\ got \in [Jobs -> {"none", "ok", "rejected"}]
        /\ awaiting \subseteq Jobs
    BY <1>2, LaneConstants DEF JobMoves, IInv, Gated, Typed
  <2>2. (at[j] \in HIDCalls \cup {"gate", "finish"} => HID(j))
        /\ (at[j] \in {"probe", "act"} \cup MediaPlaces => ~HID(j))
    BY DEF IInv, Placed, HID, Media, HIDPlaces
  <2> DEFINE P(k) == /\ gate = k => at[k] \in Calls \cup {"finish"}
                     /\ at[k] \in HIDCalls \cup {"finish"} => gate = k
                     /\ got[k] # "none" => k \in awaiting
                     /\ k \in awaiting => at[k] \in Calls
             \* What the step does with the gate, the call and the place of the job.
             Free == /\ at[j] \notin Calls \cup {"finish"} /\ at'[j] \notin HIDCalls \cup {"finish"}
                     /\ UNCHANGED callVars
             Take == /\ gate = NoJob /\ gate' = j /\ at'[j] \in Calls
                     /\ UNCHANGED <<awaiting, got>>
             Ask == /\ gate = j /\ at[j] \in Calls /\ at'[j] = at[j] /\ gate' = gate
                    /\ awaiting' = awaiting \cup {j}
                    /\ \E o \in {"ok", "rejected", "none"} : got' = [got EXCEPT ![j] = o]
             Hold == /\ gate = j /\ at'[j] \in HIDCalls \cup {"finish"} /\ gate' = gate
                     /\ awaiting' = awaiting \ {j} /\ got' = [got EXCEPT ![j] = "none"]
             Drop == /\ at'[j] \notin HIDCalls \cup {"finish"} /\ gate' = IF gate = j THEN NoJob ELSE gate
                     /\ awaiting' = awaiting \ {j} /\ got' = [got EXCEPT ![j] = "none"]
  <2>3. \A k \in Jobs : P(k)
    BY DEF IInv, Gated
  <2>4. Free \/ Take \/ Ask \/ Hold \/ Drop
    <3>1. CASE BeginMoves(j)
      BY <3>1 DEF BeginMoves, Returns, FirstPlace, localVars, Calls
    <3>2. CASE TakeGateMoves(j)
      BY <3>2 DEF TakeGateMoves, Goes, controlVars, Calls
    <3>3. CASE GivesUpGate(j)
      BY <3>3 DEF GivesUpGate, Returns, Calls
    <3>4. CASE SendMoves(j)
      BY <3>4, Zenon DEF SendMoves, controlVars
    <3>5. CASE HIDCallEnds(j)
      <4>1. PICK r \in Results : CallEnds(j, r) /\ HIDCallMoves(j, r)
        BY <3>5 DEF HIDCallEnds
      <4>2. gate = j /\ HID(j) /\ HID(j)'
        BY <2>1, <2>2, <2>3, <4>1 DEF HIDCallMoves, HID
      <4>3. at'[j] \in HIDCalls \cup {"finish"} \/ at'[j] = "done"
        BY <4>1 DEF HIDCallMoves, Goes, Leaves, Returns
      <4> QED BY <4>1, <4>2, <4>3 DEF CallEnds, KeepsGate
    <3>6. CASE SingleCallEnds(j)
      <4>1. PICK r \in Results : CallEnds(j, r) /\ SingleCallMoves(j, r)
        BY <3>6 DEF SingleCallEnds
      <4>2. ~HID(j) /\ at'[j] \notin HIDCalls \cup {"finish"}
        BY <2>2, <4>1 DEF SingleCallMoves, Goes, Returns
      <4> QED BY <4>1, <4>2 DEF CallEnds, KeepsGate
    <3>7. CASE UploadCallEnds(j)
      <4>1. PICK r \in Results : CallEnds(j, r) /\ UploadCallMoves(j, r)
        BY <3>7 DEF UploadCallEnds
      <4>2. ~HID(j) /\ at'[j] \notin HIDCalls \cup {"finish"}
        BY <2>2, <4>1
        DEF UploadCallMoves, Goes, Leaves, Returns, MediaPlaces, Before, Uploaded, Cleaning
      <4> QED BY <4>1, <4>2 DEF CallEnds, KeepsGate
    <3>8. CASE FinishHIDMoves(j)
      <4>1. gate = j /\ j \notin awaiting /\ got[j] = "none"
        BY <2>1, <2>3, <3>8 DEF FinishHIDMoves, Calls
      <4>2. awaiting = awaiting \ {j} /\ got = [got EXCEPT ![j] = "none"]
        BY <2>1, <4>1
      <4> QED BY <3>8, <4>1, <4>2 DEF FinishHIDMoves, Goes, Returns
    <3>9. CASE PrepareMoves(j)
      BY <3>9 DEF PrepareMoves, Goes, Returns, localVars, Calls
    <3>10. CASE TransferMoves(j)
      BY <3>10 DEF TransferMoves, Goes, Leaves, localVars, Calls
    <3>11. CASE AbortMoves(j)
      BY <3>11 DEF AbortMoves, Goes, localVars, Calls
    <3>12. CASE VerifyMoves(j)
      BY <3>12 DEF VerifyMoves, Goes, Leaves, Returns, localVars, Calls
    <3> QED BY <1>2, <3>1, <3>2, <3>3, <3>4, <3>5, <3>6, <3>7, <3>8, <3>9, <3>10, <3>11, <3>12
            DEF JobMoves
  <2>5. ASSUME NEW k \in Jobs PROVE P(k)' /\ awaiting' \subseteq {gate'}
    <3>1. P(k) /\ P(j)
      BY <2>3
    <3>2. k # j => at'[k] = at[k]
      BY <2>1 DEF Alone
    <3> HIDE DEF Free, Take, Ask, Hold, Drop
    <3>3. CASE Free BY <2>1, <3>1, <3>2, <3>3 DEF Free, callVars
    <3>4. CASE Take BY <2>1, <3>1, <3>2, <3>4 DEF Take, Calls
    <3>5. CASE Ask BY <2>1, <3>1, <3>2, <3>5 DEF Ask
    <3>6. CASE Hold BY <2>1, <3>1, <3>2, <3>6 DEF Hold, Calls
    <3>7. CASE Drop BY <2>1, <3>1, <3>2, <3>7 DEF Drop
    <3> QED BY <2>4, <3>3, <3>4, <3>5, <3>6, <3>7
  <2> QED BY <2>5 DEF Gated
<1> QED BY <1>1, <1>2, StepMoves

\* The parts of the type beside the control of the jobs.
CallTyped ==
  /\ got \in [Jobs -> {"none", "ok", "rejected"}] /\ gate \in Jobs \cup {NoJob}
  /\ awaiting \subseteq Jobs /\ canceled \subseteq Jobs /\ armed \subseteq Jobs
  /\ spoiled \subseteq Jobs
  /\ link \in {"up", "down", "foreign"} /\ takenOver \in BOOLEAN /\ ended \in BOOLEAN
StoreTyped ==
  /\ pressed \in Jobs \cup {NoJob} /\ changed \subseteq Jobs
  /\ partial \in Files /\ final \in Files /\ mounted \in Files

\* The empty file and the empty work are a file and a work.
LEMMA NothingTyped == Nothing \in Files /\ NoWork \in Works
<1>1. <<0, 0>> \in [1 .. 2 -> Bits]
  BY DEF Bits
<1>2. <<>> \in Seq(Bits) /\ <<>> \in Seq(Bits \cup {"old"})
  OBVIOUS
<1>3. Nothing \in Files
  BY <1>2 DEF Nothing, Files
<1> QED BY <1>1, <1>2, <1>3 DEF NoWork, Works

\* One block that is read, hashed, uploaded or stored keeps its containers typed.
LEMMA BlockRead ==
  ASSUME IInv, NEW n \in {1, 2}
  PROVE  /\ work.file[n] \in Bits
         /\ [work EXCEPT !.digest = Append(@, work.file[n])] \in Works
         /\ [work EXCEPT !.uploaded = Append(@, work.file[n])] \in Works
         /\ [partial EXCEPT !.blocks = Append(@, work.file[n])] \in Files
<1>1. work \in Works /\ partial \in Files
  BY DEF IInv, Typed
<1>2. work.file[n] \in Bits
  BY <1>1 DEF Works
<1>3. /\ Append(work.digest, work.file[n]) \in Seq(Bits)
      /\ Append(work.uploaded, work.file[n]) \in Seq(Bits)
  BY <1>1, <1>2 DEF Works
<1>4. Append(partial.blocks, work.file[n]) \in Seq(Bits \cup {"old"})
  BY <1>1, <1>2 DEF Files
<1>5. [work EXCEPT !.digest = Append(@, work.file[n])] \in Works
  BY <1>1, <1>3 DEF Works
<1>6. [work EXCEPT !.uploaded = Append(@, work.file[n])] \in Works
  BY <1>1, <1>3 DEF Works
<1>7. [partial EXCEPT !.blocks = Append(@, work.file[n])] \in Files
  BY <1>1, <1>4 DEF Files
<1> QED BY <1>2, <1>5, <1>6, <1>7

\* Where the job is in the file.
LEMMA ReadPosition ==
  ASSUME IInv, NEW j \in Jobs
  PROVE  /\ at[j] = "hash" => step[j] \in {1, 2}
         /\ at[j] = "transfer" /\ step[j] <= 2 => step[j] \in {1, 2}
<1>1. ASSUME at[j] = "transfer", step[j] <= 2 PROVE step[j] \in {1, 2}
  <2>1. Len(work.uploaded) \in Nat
    BY DEF IInv, Typed, Works
  <2>2. step[j] = Len(work.uploaded) + 1
    BY <1>1 DEF IInv, FileKept
  <2> QED BY <1>1, <2>1, <2>2
<1> QED BY <1>1 DEF IInv, FileKept

\* What the device does on a request keeps its store typed.
LEMMA EffectTyped ==
  ASSUME IInv, NEW j \in Jobs, Effect(j)
  PROVE  StoreTyped'
<1>1. [of |-> j, blocks |-> <<>>] \in Files
  BY DEF Files
<1>2. pressed' \in Jobs \cup {NoJob}
  BY DEF Effect, IInv, Typed
<1>3. partial' \in Files /\ final' \in Files /\ mounted' \in Files
  BY <1>1, NothingTyped DEF Effect, Deletes, IInv, Typed
<1>4. changed' \subseteq Jobs
  BY DEF Effect, IInv, Typed
<1> QED BY <1>2, <1>3, <1>4 DEF StoreTyped

\* A step keeps every variable in its type.
LEMMA StepTyped ==
  ASSUME IInv, [Next]_vars
  PROVE  Typed'
<1>0. Typed
  BY DEF IInv
<1>1. ASSUME OthersMove PROVE Typed'
  <2>1. ControlTyped'
    BY <1>0, <1>1 DEF OthersMove, controlVars, Typed, ControlTyped
  <2>2. CallTyped'
    BY <1>0, <1>1
    DEF OthersMove, DeviceStores, LinkFails, Displaced, RecognizeTakeover, SessionEnds, callVars,
        sessionVars, Typed, CallTyped
  <2>3. StoreTyped'
    BY <1>0, <1>1, NothingTyped
    DEF OthersMove, DeviceStores, LinkFails, Displaced, RecognizeTakeover, SessionEnds,
        deviceVars, Typed, StoreTyped
  <2>4. work' \in Works
    <3>1. CASE UNCHANGED work
      BY <1>0, <3>1 DEF Typed
    <3>2. CASE WriteFile
      <4>1. CASE work' = [work EXCEPT !.replaced = TRUE]
        BY <1>0, <4>1 DEF Typed, Works
      <4>2. ASSUME NEW hidden \in BOOLEAN, NEW b \in {1, 2},
                   work' = [work EXCEPT !.file[b] = 1 - @,
                                        !.touched = @ \/ ~hidden, !.stealthy = @ \/ hidden]
            PROVE  work' \in Works
        <5>1. work.file[b] \in Bits /\ 1 - work.file[b] \in Bits
          BY <1>0 DEF Typed, Works, Bits
        <5>2. [work.file EXCEPT ![b] = 1 - @] \in [1 .. 2 -> Bits]
          BY <1>0, <5>1 DEF Typed, Works
        <5>3. (work.touched \/ ~hidden) \in BOOLEAN /\ (work.stealthy \/ hidden) \in BOOLEAN
          OBVIOUS
        <5> QED BY <1>0, <4>2, <5>2, <5>3 DEF Typed, Works
      <4>3. \/ work' = [work EXCEPT !.replaced = TRUE]
            \/ \E hidden \in BOOLEAN, b \in {1, 2} :
                 work' = [work EXCEPT !.file[b] = 1 - @,
                                      !.touched = @ \/ ~hidden, !.stealthy = @ \/ hidden]
        BY <3>2, Zenon DEF WriteFile
      <4> QED BY <4>1, <4>2, <4>3, Zenon
    <3> QED BY <1>1, <3>1, <3>2 DEF OthersMove, DeviceStores
  <2>5. kind' = kind /\ writes' \in Nat
    <3>1. writes' = writes \/ (writes > 0 /\ writes' = writes - 1)
      BY <1>1, Zenon DEF OthersMove, WriteFile
    <3> QED BY <1>0, <1>1, <3>1 DEF OthersMove, Typed
  <2> QED BY <1>0, <2>1, <2>2, <2>3, <2>4, <2>5 DEF Typed, ControlTyped, CallTyped, StoreTyped
<1>2. ASSUME NEW j \in Jobs, JobMoves(j) PROVE Typed'
  <2>1. ControlTyped' /\ kind' = kind /\ writes' = writes
    BY <1>2 DEF JobMoves
  <2>2. CallTyped' /\ StoreTyped' /\ work' \in Works
    <3> USE <1>0 DEF callVars, sessionVars, deviceVars, localVars
    <3>1. CASE BeginMoves(j)
      BY <3>1 DEF BeginMoves, Typed, CallTyped, StoreTyped
    <3>2. CASE TakeGateMoves(j)
      BY <3>2 DEF TakeGateMoves, Typed, CallTyped, StoreTyped
    <3>3. CASE GivesUpGate(j)
      BY <3>3 DEF GivesUpGate, Typed, CallTyped, StoreTyped
    <3>4. CASE SendMoves(j)
      <4>1. StoreTyped'
        BY <3>4, EffectTyped DEF SendMoves, Typed, StoreTyped
      <4>2. CallTyped'
        BY <3>4 DEF SendMoves, Typed, CallTyped
      <4> QED BY <3>4, <4>1, <4>2 DEF SendMoves, Typed
    <3>5. CASE HIDCallEnds(j)
      BY <3>5
      DEF HIDCallEnds, HIDCallMoves, CallEnds, Typed, CallTyped, StoreTyped
    <3>6. CASE SingleCallEnds(j)
      BY <3>6
      DEF SingleCallEnds, CallEnds, Typed, CallTyped, StoreTyped
    <3>7. CASE UploadCallEnds(j)
      <4>1. CallTyped' /\ StoreTyped'
        BY <3>7 DEF UploadCallEnds, CallEnds, Typed, CallTyped, StoreTyped
      <4>2. \/ work' = work \/ work' = NoWork \/ work' = [work EXCEPT !.mutated = TRUE]
            \/ \E found \in SUBSET {"partial", "final"} : work' = [work EXCEPT !.present = found]
        BY <3>7 DEF UploadCallEnds, UploadCallMoves
      <4>3. work' \in Works
        BY <4>2, NothingTyped DEF Typed, Works
      <4> QED BY <4>1, <4>3
    <3>8. CASE FinishHIDMoves(j)
      BY <3>8 DEF FinishHIDMoves, Typed, CallTyped, StoreTyped
    <3>9. CASE PrepareMoves(j)
      <4>1. CallTyped' /\ StoreTyped'
        BY <3>9 DEF PrepareMoves, Typed, CallTyped, StoreTyped
      <4>2. work' \in Works
        BY <3>9, BlockRead, ReadPosition, NothingTyped DEF PrepareMoves, Typed
      <4> QED BY <4>1, <4>2
    <3>10. CASE TransferMoves(j)
      <4>1. CallTyped' /\ pressed' = pressed /\ final' = final /\ mounted' = mounted
            /\ changed' = changed
        BY <3>10 DEF TransferMoves, Typed, CallTyped
      <4>2. work' \in Works /\ partial' \in Files
        BY <3>10, BlockRead, ReadPosition DEF TransferMoves, Typed
      <4> QED BY <4>1, <4>2 DEF StoreTyped, Typed
    <3>11. CASE AbortMoves(j)
      BY <3>11 DEF AbortMoves, Typed, CallTyped, StoreTyped
    <3>12. CASE VerifyMoves(j)
      BY <3>12, NothingTyped DEF VerifyMoves, Typed, CallTyped, StoreTyped
    <3> QED BY <1>2, <3>1, <3>2, <3>3, <3>4, <3>5, <3>6, <3>7, <3>8, <3>9, <3>10, <3>11, <3>12
            DEF JobMoves
  <2> QED BY <1>0, <2>1, <2>2 DEF Typed, ControlTyped, CallTyped, StoreTyped
<1> QED BY <1>1, <1>2, StepMoves

-----------------------------------------------------------------------------
(* The keys and buttons                                                    *)

\* The part of Pressing that is about one job.
Armed(j) ==
  /\ j \in armed => at[j] \in {"press", "release", "finish", "neutral"}
  /\ at[j] \in {"press", "release", "neutral"} => j \in armed
  /\ at[j] \in {"release", "neutral"} /\ got[j] = "ok" => pressed # j
  /\ at[j] = "neutral" /\ j \in awaiting => pressed # j \/ j \in spoiled
  /\ HID(j) /\ j \in spoiled => at[j] \in {"neutral", "done"}

\* The calls of the other jobs are as they were.
CallsAlone(j) ==
  \A k \in Jobs \ {j} :
    /\ k \in awaiting' <=> k \in awaiting
    /\ k \in spoiled' <=> k \in spoiled
    /\ k \in armed' <=> k \in armed
    /\ k \in changed' <=> k \in changed
    /\ got'[k] = got[k]

\* A step of one job leaves the calls of the others alone.
LEMMA JobCallsAlone ==
  ASSUME IInv, NEW j \in Jobs, JobMoves(j)
  PROVE  CallsAlone(j) /\ pressed' \in {pressed, j, NoJob}
<1> USE DEF callVars, sessionVars, deviceVars, localVars
<1>0. got \in [Jobs -> {"none", "ok", "rejected"}]
  BY DEF IInv, Typed
<1>1. CASE BeginMoves(j)
  BY <1>1 DEF BeginMoves, CallsAlone
<1>2. CASE TakeGateMoves(j)
  BY <1>2 DEF TakeGateMoves, CallsAlone
<1>3. CASE GivesUpGate(j)
  BY <1>3 DEF GivesUpGate, CallsAlone
<1>4. CASE SendMoves(j)
  <2>1. pressed' \in {pressed, j, NoJob} /\ changed' \in {changed, changed \cup {j}}
    BY <1>4 DEF SendMoves, Effect
  <2>2. armed' = armed /\ awaiting' = awaiting \cup {j} /\ spoiled' \in {spoiled, spoiled \cup {j}}
        /\ \E o \in {"ok", "rejected", "none"} : got' = [got EXCEPT ![j] = o]
    BY <1>4, Zenon DEF SendMoves
  <2> QED BY <1>0, <2>1, <2>2 DEF CallsAlone
<1>5. CASE HIDCallEnds(j)
  BY <1>0, <1>5 DEF HIDCallEnds, HIDCallMoves, CallEnds, CallsAlone
<1>6. CASE SingleCallEnds(j)
  BY <1>0, <1>6 DEF SingleCallEnds, CallEnds, CallsAlone
<1>7. CASE UploadCallEnds(j)
  BY <1>0, <1>7 DEF UploadCallEnds, CallEnds, CallsAlone
<1>8. CASE FinishHIDMoves(j)
  BY <1>8 DEF FinishHIDMoves, CallsAlone
<1>9. CASE PrepareMoves(j)
  BY <1>9 DEF PrepareMoves, CallsAlone
<1>10. CASE TransferMoves(j)
  BY <1>10 DEF TransferMoves, CallsAlone
<1>11. CASE AbortMoves(j)
  BY <1>11 DEF AbortMoves, CallsAlone
<1>12. CASE VerifyMoves(j)
  BY <1>12 DEF VerifyMoves, CallsAlone
<1> QED BY <1>1, <1>2, <1>3, <1>4, <1>5, <1>6, <1>7, <1>8, <1>9, <1>10, <1>11, <1>12
        DEF JobMoves

\* Every place belongs to one kind of job.
LEMMA PlaceTells ==
  ASSUME IInv, NEW j \in Jobs
  PROVE  /\ at[j] \in HIDPlaces => HID(j) /\ Mutation(j)
         /\ at[j] \in MediaPlaces => ~HID(j) /\ Media(j) /\ Mutation(j) /\ turn = j
         /\ at[j] \in {"probe", "act"} => ~HID(j) /\ (at[j] = "act" => Mutation(j))
<1>1. at[j] \in HIDPlaces \cup MediaPlaces \cup {"probe", "act"} => at[j] \notin {"new", "done"}
  BY DEF HIDPlaces, HIDCalls, MediaPlaces, Before, Uploaded, Cleaning
<1> QED BY <1>1 DEF IInv, Placed, Turns, HID, Media, Mutation

\* A step keeps what is pressed with the job that has to release it.
LEMMA StepPressing ==
  ASSUME IInv, [Next]_vars
  PROVE  Pressing'
<1> USE DEF HIDCalls
<1>0. /\ \A j \in Jobs : Armed(j)
      /\ takenOver => link = "foreign"
      /\ link = "foreign" => pressed = NoJob
      /\ pressed # NoJob => HID(pressed) /\ (pressed \in armed \/ pressed \in spoiled)
      /\ pressed \in Jobs \cup {NoJob} /\ NoJob \notin Jobs
  BY LaneConstants DEF IInv, Pressing, Armed, Typed
<1>1. ASSUME OthersMove PROVE Pressing'
  <2>1. UNCHANGED <<kind, at, awaiting, got, armed, spoiled>>
    BY <1>1 DEF OthersMove, controlVars, callVars
  <2>2. \/ UNCHANGED <<pressed, link, takenOver>>
        \/ link = "up" /\ link' = "down" /\ UNCHANGED <<pressed, takenOver>>
        \/ link = "up" /\ link' = "foreign" /\ pressed' = NoJob /\ UNCHANGED takenOver
        \/ link = "foreign" /\ UNCHANGED <<link, pressed>>
    BY <1>1
    DEF OthersMove, DeviceStores, LinkFails, Displaced, RecognizeTakeover, SessionEnds,
        sessionVars, deviceVars
  <2>3. \A j \in Jobs : Armed(j)'
    BY <1>0, <2>1, <2>2 DEF Armed, HID
  <2>4. /\ (takenOver => link = "foreign")' /\ (link = "foreign" => pressed = NoJob)'
        /\ (pressed # NoJob => HID(pressed) /\ (pressed \in armed \/ pressed \in spoiled))'
    BY <1>0, <2>1, <2>2 DEF HID
  <2> QED BY <2>3, <2>4 DEF Pressing, Armed
<1>2. ASSUME NEW j \in Jobs, JobMoves(j) PROVE Pressing'
  <2>1. kind' = kind /\ Alone(j) /\ CallsAlone(j) /\ pressed' \in {pressed, j, NoJob}
    BY <1>2, JobCallsAlone DEF JobMoves
  <2>2. \A k \in Jobs : HID(k)' <=> HID(k)
    BY <2>1 DEF HID
  <2>3. ASSUME NEW k \in Jobs \ {j} PROVE Armed(k)'
    BY <1>0, <2>1, <2>2, <2>3 DEF Armed, Alone, CallsAlone
  <2>4. Armed(j) /\ got[j] \in {"none", "ok", "rejected"} /\ got \in [Jobs -> {"none", "ok", "rejected"}]
    BY <1>0 DEF IInv, Typed
  <2> DEFINE Same == UNCHANGED <<pressed, link, takenOver>>
             Held == pressed = j => j \in armed' \/ j \in spoiled'
             Quiet == Same /\ Held /\ Armed(j)'
  <2>5. (got[j] # "none" => j \in awaiting) /\ (j \in awaiting => at[j] \in Calls)
    BY DEF IInv, Gated
  <2>6. \/ Quiet
        \/ /\ Armed(j)' /\ UNCHANGED <<link, takenOver>> /\ link = "up"
           /\ pressed' = NoJob \/ (pressed' = j /\ HID(j) /\ j \in armed') \/ (pressed' = pressed /\ Held)
    <3>1. CASE BeginMoves(j)
      BY <1>0, <2>2, <2>4, <3>1
      DEF BeginMoves, Returns, FirstPlace, Armed, localVars, callVars, sessionVars, deviceVars
    <3>2. CASE TakeGateMoves(j)
      BY <1>0, <2>2, <2>4, <3>2
      DEF TakeGateMoves, Goes, Armed, controlVars, sessionVars, deviceVars
    <3>3. CASE GivesUpGate(j)
      BY <1>0, <2>2, <2>4, <3>3
      DEF GivesUpGate, Returns, Armed, callVars, sessionVars, deviceVars
    <3>4. CASE SendMoves(j)
      <4>1. /\ at'[j] = at[j] /\ armed' = armed /\ awaiting' = awaiting \cup {j}
            /\ UNCHANGED <<link, takenOver>>
        BY <3>4 DEF SendMoves, controlVars, sessionVars
      <4>2. CASE /\ link = "up" /\ Effect(j) /\ got' = [got EXCEPT ![j] = "ok"] /\ spoiled' = spoiled
        <5>1. pressed' = CASE at[j] = "press" -> j
                  [] at[j] \in {"release", "neutral"} /\ pressed = j -> NoJob
                  [] OTHER -> pressed
          BY <4>2 DEF Effect
        <5>2. got'[j] = "ok"
          BY <2>4, <4>2
        <5>3. at[j] = "press" => HID(j)
          BY PlaceTells DEF HIDPlaces
        <5> QED BY <1>0, <2>2, <2>4, <4>1, <4>2, <5>1, <5>2, <5>3 DEF Armed
      <4>3. CASE /\ \E o \in {"rejected", "none"} : got' = [got EXCEPT ![j] = o]
                 /\ spoiled' = IF Detached(j) /\ Possible(j) THEN spoiled \cup {j} ELSE spoiled
                 /\ UNCHANGED deviceVars
        <5>1. got'[j] # "ok"
          BY <2>4, <4>3
        <5>2. at[j] = "neutral" => Detached(j) /\ Possible(j)
          BY DEF Detached, Possible
        <5>3. HID(j) /\ Detached(j) => at[j] = "neutral"
          BY PlaceTells DEF Detached, MediaPlaces, Cleaning
        <5>4. pressed' = pressed
          BY <4>3 DEF deviceVars
        <5> QED BY <1>0, <2>2, <2>4, <4>1, <4>3, <5>1, <5>2, <5>3, <5>4 DEF Armed
      <4> QED BY <3>4, <4>2, <4>3 DEF SendMoves
    <3>5. CASE HIDCallEnds(j)
      <4>1. PICK r \in Results : CallEnds(j, r) /\ HIDCallMoves(j, r)
        BY <3>5 DEF HIDCallEnds
      <4>2. HID(j) /\ (Detached(j) <=> at[j] = "neutral") /\ at[j] # "start"
        BY <4>1, PlaceTells DEF HIDCallMoves, HIDPlaces, Detached
      <4>3. /\ UNCHANGED <<link, takenOver, pressed>> /\ got'[j] = "none" /\ j \notin awaiting'
            /\ r = "ok" => got[j] = "ok"
            /\ r # "not_sent" => j \in awaiting
            /\ spoiled' = IF r = "not_sent" /\ Detached(j) THEN spoiled \cup {j} ELSE spoiled
        BY <2>4, <4>1, <4>2 DEF CallEnds, Results, sessionVars, deviceVars
      <4> QED BY <1>0, <2>2, <2>4, <4>1, <4>2, <4>3 DEF Armed, HIDCallMoves, Goes, Leaves, Returns
    <3>6. CASE SingleCallEnds(j)
      <4>1. PICK r \in Results : CallEnds(j, r) /\ SingleCallMoves(j, r) /\ armed' = armed
        BY <3>6 DEF SingleCallEnds
      <4>2. ~HID(j)
        BY <4>1, PlaceTells DEF SingleCallMoves
      <4>3. UNCHANGED <<link, takenOver, pressed>> /\ spoiled \subseteq spoiled'
        BY <4>1 DEF CallEnds, sessionVars, deviceVars
      <4> QED BY <1>0, <2>2, <2>4, <4>1, <4>2, <4>3 DEF Armed, SingleCallMoves, Goes, Returns
    <3>7. CASE UploadCallEnds(j)
      <4>1. PICK r \in Results : CallEnds(j, r) /\ UploadCallMoves(j, r) /\ armed' = armed
        BY <3>7 DEF UploadCallEnds
      <4>2. ~HID(j)
        BY <4>1, PlaceTells DEF UploadCallMoves, MediaPlaces, Before, Uploaded, Cleaning
      <4>3. UNCHANGED <<link, takenOver, pressed>> /\ spoiled \subseteq spoiled'
        BY <4>1 DEF CallEnds, sessionVars, deviceVars
      <4> QED BY <1>0, <2>2, <2>4, <4>1, <4>2, <4>3 DEF Armed, UploadCallMoves, Goes, Leaves, Returns
    <3>8. CASE FinishHIDMoves(j)
      <4>1. UNCHANGED <<link, takenOver, pressed, spoiled, awaiting, got>>
        BY <3>8 DEF FinishHIDMoves, sessionVars, deviceVars
      <4>2. j \notin awaiting /\ got[j] = "none"
        BY <2>5, <3>8 DEF FinishHIDMoves, Calls
      <4> QED BY <1>0, <2>2, <2>4, <3>8, <4>1, <4>2 DEF FinishHIDMoves, Armed, Goes, Returns
    <3>9. CASE PrepareMoves(j) \/ TransferMoves(j) \/ AbortMoves(j) \/ VerifyMoves(j)
      <4>1. UNCHANGED <<link, takenOver, pressed, spoiled, awaiting, got, armed>>
        BY <3>9 DEF PrepareMoves, TransferMoves, AbortMoves, VerifyMoves, localVars, callVars,
                    sessionVars, deviceVars
      <4>2. /\ at[j] \notin {"press", "release", "finish", "neutral", "done"}
            /\ at'[j] \notin {"press", "release", "finish", "neutral"}
        BY <3>9 DEF PrepareMoves, TransferMoves, AbortMoves, VerifyMoves, Goes, Leaves, Returns
      <4> QED BY <1>0, <2>2, <2>4, <4>1, <4>2 DEF Armed
    <3> QED BY <1>2, <3>1, <3>2, <3>3, <3>4, <3>5, <3>6, <3>7, <3>8, <3>9 DEF JobMoves
  <2>7. /\ (takenOver => link = "foreign")' /\ (link = "foreign" => pressed = NoJob)'
        /\ (pressed # NoJob => HID(pressed) /\ (pressed \in armed \/ pressed \in spoiled))'
    <3>1. ASSUME pressed' = pressed, pressed # NoJob, Held
          PROVE  HID(pressed)' /\ (pressed \in armed \/ pressed \in spoiled)'
      BY <1>0, <2>1, <2>2, <3>1 DEF CallsAlone
    <3> QED BY <1>0, <2>1, <2>2, <2>6, <3>1
  <2> QED BY <2>3, <2>6, <2>7 DEF Pressing, Armed
<1> QED BY <1>1, <1>2, StepMoves

-----------------------------------------------------------------------------
(* What an upload leaves                                                   *)

\* The part of Leftovers that is about one job.
Left(j) ==
  j \notin spoiled =>
    /\ Owns(j) => \/ at[j] \in Uploaded \cup Cleaning
                  \/ at[j] = "start" /\ got[j] = "ok"
                  \/ reply[j] = "ok" \/ Unstarted(j)
    /\ at[j] \in {"start", "abort", "abort_partial"} \/ Unstarted(j) =>
         final.of # j /\ (partial.of = j => partial.blocks = <<>>)
    /\ at[j] \in {"abort_partial", "clean_partial"} /\ j \in awaiting => partial.of # j
    /\ at[j] = "clean_final" => partial.of # j /\ (j \in awaiting => final.of # j)

\* A file of another job stays what it is, or goes.
FilesAlone(j) ==
  \A k \in Jobs \ {j} :
    /\ partial'.of = k => partial' = partial
    /\ final'.of = k => final' = final

\* What an accepted request does to the files.
LEMMA EffectStores ==
  ASSUME NEW j \in Jobs, Effect(j)
  PROVE  /\ partial' = IF at[j] = "start" THEN [of |-> j, blocks |-> <<>>]
                       ELSE IF at[j] \in {"drop_partial", "clean_partial", "abort_partial"}
                            THEN Nothing ELSE partial
         /\ final' = IF at[j] \in {"drop_final", "clean_final"} THEN Nothing ELSE final
<1>1. partial' = IF at[j] = "start" THEN [of |-> j, blocks |-> <<>>]
                 ELSE Deletes(j, {"drop_partial", "clean_partial", "abort_partial"}, partial)
  BY Zenon DEF Effect
<1>2. final' = Deletes(j, {"drop_final", "clean_final"}, final)
  BY Zenon DEF Effect
<1>3. final' = IF at[j] \in {"drop_final", "clean_final"} THEN Nothing ELSE final
  BY <1>2, Zenon DEF Deletes
<1>4. partial' = IF at[j] = "start" THEN [of |-> j, blocks |-> <<>>]
                 ELSE IF at[j] \in {"drop_partial", "clean_partial", "abort_partial"}
                      THEN Nothing ELSE partial
  BY <1>1, Zenon DEF Deletes
<1> QED BY <1>3, <1>4

\* A job touches no file but by its own request, and spoils no release but its own.
LEMMA JobFilesAlone ==
  ASSUME IInv, NEW j \in Jobs, JobMoves(j)
  PROVE  FilesAlone(j) /\ spoiled \subseteq spoiled'
<1> USE DEF deviceVars, localVars
<1>0. NoJob \notin Jobs
  BY LaneConstants
<1>1. CASE UNCHANGED <<partial, final, spoiled>>
  BY <1>1 DEF FilesAlone
<1>2. CASE BeginMoves(j) \/ TakeGateMoves(j) \/ GivesUpGate(j) \/ FinishHIDMoves(j)
           \/ PrepareMoves(j) \/ AbortMoves(j) \/ VerifyMoves(j)
  BY <1>1, <1>2 DEF BeginMoves, TakeGateMoves, GivesUpGate, FinishHIDMoves, PrepareMoves,
                    AbortMoves, VerifyMoves
<1>3. CASE SendMoves(j)
  <2>1. CASE Effect(j)
    <3>1. [of |-> j, blocks |-> <<>>].of = j /\ Nothing.of = NoJob
      BY DEF Nothing
    <3>2. partial' = partial \/ partial'.of = j \/ partial'.of = NoJob
      BY <2>1, <3>1, EffectStores
    <3>3. final' = final \/ final'.of = NoJob
      BY <2>1, <3>1, EffectStores
    <3>4. spoiled \subseteq spoiled'
      BY <1>3 DEF SendMoves
    <3> QED BY <1>0, <3>2, <3>3, <3>4 DEF FilesAlone
  <2>2. CASE UNCHANGED deviceVars
    BY <1>3, <2>2 DEF SendMoves, FilesAlone
  <2> QED BY <1>3, <2>1, <2>2 DEF SendMoves
<1>4. CASE HIDCallEnds(j) \/ SingleCallEnds(j) \/ UploadCallEnds(j)
  BY <1>4 DEF HIDCallEnds, SingleCallEnds, UploadCallEnds, CallEnds, FilesAlone
<1>5. CASE TransferMoves(j)
  <2>1. partial \in Files /\ final' = final /\ spoiled' = spoiled
    BY <1>5 DEF IInv, Typed, TransferMoves
  <2>2. partial' = partial \/ (partial.of = j /\ \E b : partial' = [partial EXCEPT !.blocks = b])
    BY <1>5 DEF TransferMoves
  <2>3. partial' = partial \/ partial'.of = j
    BY <2>1, <2>2 DEF Files
  <2> QED BY <1>0, <2>1, <2>3 DEF FilesAlone
<1> QED BY <1>2, <1>3, <1>4, <1>5 DEF JobMoves

\* A step keeps what is left on the device accounted for by the upload under way.
LEMMA StepLeftovers ==
  ASSUME IInv, [Next]_vars
  PROVE  Leftovers'
<1>0. /\ \A j \in Jobs : Left(j)
      /\ NoJob \notin Jobs /\ Nothing.of = NoJob
  BY LaneConstants DEF IInv, Leftovers, Left, Nothing
<1>1. ASSUME OthersMove PROVE Leftovers'
  <2>1. UNCHANGED <<at, due, reply, awaiting, got, spoiled>>
    BY <1>1 DEF OthersMove, controlVars, callVars
  <2>2. \/ UNCHANGED <<partial, final>>
        \/ Len(partial.blocks) = 2 /\ final' = partial /\ partial' = Nothing
    BY <1>1 DEF OthersMove, DeviceStores
  <2>3. Len(partial.blocks) = 2 => partial.blocks # <<>>
    OBVIOUS
  <2>4. ASSUME NEW j \in Jobs PROVE Left(j)'
    <3>1. Left(j)
      BY <1>0
    <3>2. CASE UNCHANGED <<partial, final>>
      BY <2>1, <3>1, <3>2 DEF Left, Owns, Unstarted
    <3>3. CASE Len(partial.blocks) = 2 /\ final' = partial /\ partial' = Nothing
      BY <1>0, <2>1, <2>3, <3>1, <3>3 DEF Left, Owns, Unstarted
    <3> QED BY <2>2, <3>2, <3>3
  <2> QED BY <2>4 DEF Leftovers, Left
<1>2. ASSUME NEW j \in Jobs, JobMoves(j) PROVE Leftovers'
  <2>1. /\ kind' = kind /\ Alone(j) /\ CallsAlone(j) /\ FilesAlone(j) /\ spoiled \subseteq spoiled'
        /\ got \in [Jobs -> {"none", "ok", "rejected"}]
    BY <1>2, JobCallsAlone, JobFilesAlone DEF JobMoves, IInv, Typed
  <2>2. ASSUME NEW k \in Jobs \ {j} PROVE Left(k)'
    <3>1. Left(k)
      BY <1>0
    <3>2. at'[k] = at[k] /\ due'[k] = due[k] /\ reply'[k] = reply[k]
      BY <2>1 DEF Alone
    <3>3. (k \in awaiting' <=> k \in awaiting) /\ (k \in spoiled' <=> k \in spoiled) /\ got'[k] = got[k]
      BY <2>1 DEF CallsAlone
    <3>4. (partial'.of = k => partial' = partial) /\ (final'.of = k => final' = final)
      BY <2>1 DEF FilesAlone
    <3> QED BY <3>1, <3>2, <3>3, <3>4 DEF Left, Owns, Unstarted
  <2>3. /\ Left(j) /\ (reply[j] # "none" => at[j] = "done")
        /\ (got[j] # "none" => j \in awaiting) /\ (j \in awaiting => at[j] \in Calls)
        /\ (at[j] = "start" => due[j] = "none")
    BY <1>0 DEF IInv, Placed, Gated, Before
  <2> USE DEF Uploaded, Cleaning, Unstarted
  \* A step that leaves the files alone, from a place where the job owns none.
  <2>4. ASSUME at[j] \notin Uploaded \cup Cleaning \cup {"start", "done"},
               UNCHANGED <<partial, final>>,
               at'[j] \notin Cleaning
        PROVE  Left(j)'
    BY <2>1, <2>3, <2>4 DEF Left, Owns
  <2>5. Left(j)'
    <3>1. CASE BeginMoves(j)
      BY <2>4, <3>1 DEF BeginMoves, Returns, FirstPlace, deviceVars
    <3>2. CASE TakeGateMoves(j)
      <4>1. CASE at[j] = "gate"
        BY <2>4, <3>2, <4>1 DEF TakeGateMoves, Goes, controlVars, deviceVars, Calls
      <4>2. CASE UNCHANGED <<at, due, reply, awaiting, got, spoiled, partial, final>>
        BY <2>3, <4>2 DEF Left, Owns
      <4> QED BY <3>2, <4>1, <4>2 DEF TakeGateMoves, controlVars, deviceVars
    <3>3. CASE GivesUpGate(j)
      BY <2>4, <3>3 DEF GivesUpGate, Returns, deviceVars
    <3>4. CASE SendMoves(j)
      <4>1. /\ at'[j] = at[j] /\ reply'[j] = reply[j] /\ awaiting' = awaiting \cup {j}
            /\ at[j] \in Calls \ {"done"} /\ j \notin awaiting /\ got[j] = "none"
        BY <2>1, <2>3, <3>4 DEF SendMoves, controlVars, Calls, HIDCalls
      <4>2. CASE Effect(j) /\ got' = [got EXCEPT ![j] = "ok"] /\ spoiled' = spoiled
        <5>1. /\ partial' = IF at[j] = "start" THEN [of |-> j, blocks |-> <<>>]
                            ELSE IF at[j] \in {"drop_partial", "clean_partial", "abort_partial"}
                                 THEN Nothing ELSE partial
              /\ final' = IF at[j] \in {"drop_final", "clean_final"} THEN Nothing ELSE final
          BY <4>2, EffectStores
        <5>2. got'[j] = "ok"
          BY <2>1, <4>2
        <5> DEFINE start == [of |-> j, blocks |-> <<>>]
        <5>3. start.of = j /\ start.blocks = <<>>
          OBVIOUS
        <5> HIDE DEF start
        <5>4. CASE at[j] = "start"
          <6>1. partial' = start /\ final' = final
            BY <5>1, <5>4 DEF start
          <6> QED BY <2>3, <4>1, <4>2, <5>2, <5>3, <5>4, <6>1 DEF Left, Owns
        <5>5. CASE at[j] # "start"
          <6>1. /\ partial' = IF at[j] \in {"drop_partial", "clean_partial", "abort_partial"}
                             THEN Nothing ELSE partial
                /\ final' = IF at[j] \in {"drop_final", "clean_final"} THEN Nothing ELSE final
            BY <5>1, <5>5
          <6> QED BY <1>0, <2>3, <4>1, <4>2, <5>5, <6>1 DEF Left, Owns
        <5> QED BY <5>4, <5>5
      <4>3. CASE /\ \E o \in {"rejected", "none"} : got' = [got EXCEPT ![j] = o]
                 /\ spoiled' = IF Detached(j) /\ Possible(j) THEN spoiled \cup {j} ELSE spoiled
                 /\ UNCHANGED deviceVars
        <5>1. ASSUME j \notin spoiled', at[j] \in {"abort_partial", "clean_partial"}
              PROVE  partial.of # j
          BY <1>0, <4>3, <5>1 DEF Detached, Possible, Present
        <5>2. ASSUME j \notin spoiled', at[j] = "clean_final" PROVE final.of # j
          BY <1>0, <4>3, <5>2 DEF Detached, Possible, Present
        <5>3. UNCHANGED <<partial, final>>
          BY <4>3 DEF deviceVars
        <5> QED BY <2>1, <2>3, <4>1, <5>1, <5>2, <5>3 DEF Left, Owns
      <4> QED BY <3>4, <4>2, <4>3 DEF SendMoves
    <3>5. CASE HIDCallEnds(j)
      BY <2>4, <3>5 DEF HIDCallEnds, HIDCallMoves, CallEnds, Goes, Leaves, Returns, deviceVars
    <3>6. CASE SingleCallEnds(j)
      BY <2>4, <3>6 DEF SingleCallEnds, SingleCallMoves, CallEnds, Goes, Returns, deviceVars
    <3>7. CASE UploadCallEnds(j)
      <4>1. PICK r \in Results : CallEnds(j, r) /\ UploadCallMoves(j, r)
        BY <3>7 DEF UploadCallEnds
      <4>2. /\ UNCHANGED <<partial, final>> /\ got'[j] = "none" /\ j \notin awaiting'
            /\ r = "ok" => got[j] = "ok"
            /\ r = "failed" => got[j] = "rejected"
            /\ r # "not_sent" => j \in awaiting
            /\ r = "not_sent" => got[j] = "none"
            /\ spoiled' = IF r = "not_sent" /\ Detached(j) THEN spoiled \cup {j} ELSE spoiled
        BY <2>1, <2>3, <4>1 DEF CallEnds, Results, deviceVars
      <4>3. at[j] \in {"abort_partial", "clean_partial", "clean_final"} => Detached(j)
        BY DEF Detached
      <4>4. CASE at[j] \in {"list", "drop_partial", "drop_final"}
        BY <2>4, <4>1, <4>2, <4>4 DEF UploadCallMoves, Goes, Returns
      <4>5. CASE at[j] = "start"
        <5>1. j \notin spoiled
          BY <4>5 DEF IInv, Spoilt
        <5>2. \/ at'[j] = "done" /\ due'[j] = "none" /\ reply'[j] # "ok"
              \/ at'[j] \in {"transfer", "abort", "abort_partial"}
          BY <2>3, <4>1, <4>5 DEF UploadCallMoves, Goes, Leaves, Returns, Told
        <5> QED BY <2>1, <2>3, <4>2, <4>5, <5>1, <5>2 DEF Left, Owns
      <4>6. CASE at[j] = "mount"
        <5>1. \/ at'[j] = "done" /\ reply'[j] = "ok"
              \/ at'[j] = "clean_partial"
          BY <4>1, <4>6 DEF UploadCallMoves, Leaves, Returns
        <5> QED BY <4>2, <5>1 DEF Left, Owns
      <4>7. CASE at[j] = "clean_partial"
        <5>1. at'[j] = "clean_final"
          BY <4>1, <4>7 DEF UploadCallMoves, Goes
        <5> QED BY <2>1, <2>3, <4>2, <4>3, <4>7, <5>1 DEF Left, Owns
      <4>8. CASE at[j] \in {"clean_final", "abort_partial"}
        <5>1. at'[j] = "done"
          BY <4>1, <4>8 DEF UploadCallMoves, Returns
        <5> QED BY <2>1, <2>3, <4>2, <4>3, <4>8, <5>1 DEF Left, Owns
      <4> QED BY <4>1, <4>4, <4>5, <4>6, <4>7, <4>8 DEF UploadCallMoves
    <3>8. CASE FinishHIDMoves(j)
      BY <2>4, <3>8 DEF FinishHIDMoves, Goes, Returns, deviceVars
    <3>9. CASE PrepareMoves(j)
      BY <2>4, <3>9 DEF PrepareMoves, Goes, Returns, deviceVars
    <3>10. CASE TransferMoves(j)
      <4>1. at'[j] \in {"clean_partial", "transfer", "verify"} /\ awaiting' = awaiting
        BY <3>10 DEF TransferMoves, Goes, Leaves, localVars, callVars
      <4>2. j \notin awaiting
        BY <2>3, <3>10 DEF TransferMoves, Calls, HIDCalls
      <4> QED BY <4>1, <4>2 DEF Left, Owns
    <3>11. CASE AbortMoves(j)
      <4>1. /\ at[j] = "abort" /\ at'[j] = "abort_partial"
            /\ UNCHANGED <<awaiting, spoiled, partial, final>>
        BY <3>11 DEF AbortMoves, Goes, localVars, callVars, deviceVars
      <4>2. j \notin awaiting
        BY <2>3, <4>1 DEF Calls, HIDCalls
      <4> QED BY <2>3, <4>1, <4>2 DEF Left, Owns
    <3>12. CASE VerifyMoves(j)
      <4>1. /\ \/ at'[j] \in {"clean_partial", "verify", "mount"}
               \/ reply'[j] = "ok" /\ at'[j] = "done"
            /\ awaiting' = awaiting
        BY <3>12 DEF VerifyMoves, Goes, Leaves, Returns, localVars, callVars
      <4>2. j \notin awaiting
        BY <2>3, <3>12 DEF VerifyMoves, Calls, HIDCalls
      <4> QED BY <4>1, <4>2 DEF Left, Owns
    <3> QED BY <1>2, <3>1, <3>2, <3>3, <3>4, <3>5, <3>6, <3>7, <3>8, <3>9, <3>10, <3>11, <3>12
            DEF JobMoves
  <2> QED BY <2>2, <2>5 DEF Leftovers, Left
<1> QED BY <1>1, <1>2, StepMoves

\* A call that does not get through is the last of its job but the deletion of the
\* final file.
LEMMA StepSpoilt ==
  ASSUME IInv, [Next]_vars
  PROVE  Spoilt'
<1> DEFINE Late(j) == at[j] \in Cleaning \cup {"neutral", "done"}
<1>0. \A j \in spoiled : Late(j)
  BY DEF IInv, Spoilt
<1>1. ASSUME OthersMove PROVE Spoilt'
  BY <1>0, <1>1 DEF OthersMove, controlVars, Spoilt
<1>2. ASSUME NEW j \in Jobs, JobMoves(j) PROVE Spoilt'
  <2> USE DEF Cleaning
  <2>1. Alone(j) /\ CallsAlone(j) /\ spoiled' \subseteq Jobs
    BY <1>2, JobCallsAlone, StepTyped DEF JobMoves, Typed
  <2>2. ASSUME NEW k \in Jobs \ {j}, k \in spoiled' PROVE Late(k)'
    BY <1>0, <2>1, <2>2 DEF Alone, CallsAlone
  <2>3. ASSUME spoiled' = spoiled, ~Late(j) \/ Late(j)' PROVE j \in spoiled' => Late(j)'
    BY <1>0, <2>3
  <2>4. j \in spoiled' => Late(j)'
    <3> USE DEF localVars
    <3>1. CASE BeginMoves(j)
      BY <2>3, <3>1 DEF BeginMoves
    <3>2. CASE TakeGateMoves(j)
      BY <2>3, <3>2 DEF TakeGateMoves, controlVars
    <3>3. CASE GivesUpGate(j)
      BY <2>3, <3>3 DEF GivesUpGate
    <3>4. CASE SendMoves(j)
      <4>1. at'[j] = at[j]
        BY <3>4 DEF SendMoves, controlVars
      <4>2. spoiled' = spoiled \/ Detached(j)
        BY <3>4 DEF SendMoves
      <4> QED BY <2>3, <4>1, <4>2 DEF Detached
    <3>5. CASE HIDCallEnds(j)
      <4>1. PICK r \in Results : CallEnds(j, r) /\ HIDCallMoves(j, r)
        BY <3>5 DEF HIDCallEnds
      <4>2. Late(j) => Late(j)'
        BY <4>1 DEF HIDCallMoves, Returns
      <4>3. spoiled' = spoiled \/ at[j] = "neutral"
        BY <4>1 DEF CallEnds, HIDCallMoves, Detached
      <4> QED BY <2>3, <4>2, <4>3
    <3>6. CASE SingleCallEnds(j)
      BY <2>3, <3>6 DEF SingleCallEnds, SingleCallMoves, CallEnds, Detached
    <3>7. CASE UploadCallEnds(j)
      <4>1. PICK r \in Results : CallEnds(j, r) /\ UploadCallMoves(j, r)
        BY <3>7 DEF UploadCallEnds
      <4>2. Late(j) => Late(j)'
        BY <4>1 DEF UploadCallMoves, Returns, Goes
      <4>3. CASE spoiled' = spoiled
        BY <2>3, <4>2, <4>3
      <4>4. CASE r = "not_sent" /\ Detached(j)
        BY <4>1, <4>2, <4>4 DEF UploadCallMoves, Detached, Returns
      <4> QED BY <4>1, <4>3, <4>4 DEF CallEnds
    <3>8. CASE FinishHIDMoves(j)
      BY <2>3, <3>8 DEF FinishHIDMoves
    <3>9. CASE PrepareMoves(j)
      BY <2>3, <3>9 DEF PrepareMoves
    <3>10. CASE TransferMoves(j)
      BY <2>3, <3>10 DEF TransferMoves
    <3>11. CASE AbortMoves(j)
      BY <2>3, <3>11 DEF AbortMoves, Goes
    <3>12. CASE VerifyMoves(j)
      BY <2>3, <3>12 DEF VerifyMoves
    <3> QED BY <1>2, <3>1, <3>2, <3>3, <3>4, <3>5, <3>6, <3>7, <3>8, <3>9, <3>10, <3>11, <3>12
            DEF JobMoves
  <2> QED BY <2>1, <2>2, <2>4 DEF Spoilt
<1> QED BY <1>1, <1>2, StepMoves

-----------------------------------------------------------------------------
(* What was accepted, and what is said of it                               *)

\* The part of Honest that is about one job.
Accounted(j) ==
  /\ j \in changed => Mutation(j)
  /\ at[j] \in Accepting /\ got[j] = "ok" => j \in changed
  /\ at[j] \in {"new", "gate", "open", "hash", "list"} => j \notin changed
  /\ at[j] \in {"move", "act"} /\ got[j] # "ok" => j \notin changed
  /\ at[j] = "press" /\ got[j] # "ok" /\ step[j] <= 1 => j \notin changed
  /\ at[j] = "release" => j \in changed
  /\ at[j] \in {"press", "release"} => step[j] >= 1
  /\ at[j] \in {"finish", "neutral"} /\ due[j] \in {"not_sent", "failed"} => j \notin changed
  /\ at[j] = "finish" /\ due[j] = "ok" => j \notin armed /\ j \in changed
  /\ at[j] = "neutral" => due[j] # "ok"
  /\ at[j] \in Before /\ j \in changed => work.mutated \/ got[j] = "ok"
  /\ at[j] \in Uploaded => j \in changed

\* The media job has the turn, so that the file and the device's storage are its own.
LEMMA JobStoreAlone ==
  ASSUME IInv, NEW j \in Jobs, JobMoves(j)
  PROVE  /\ UNCHANGED <<work, partial, final>> \/ at[j] \in MediaPlaces
         /\ \A k \in Jobs \ {j} : at[k] \in MediaPlaces => UNCHANGED <<work, partial, final>>
         /\ mounted' \in {mounted, final} /\ (mounted' # mounted => at[j] = "mount")
<1> USE DEF deviceVars, localVars, MediaPlaces, Before, Uploaded, Cleaning
<1>1. /\ UNCHANGED <<work, partial, final>> \/ at[j] \in MediaPlaces
      /\ mounted' \in {mounted, final} /\ (mounted' # mounted => at[j] = "mount")
  <2>1. CASE BeginMoves(j) \/ TakeGateMoves(j) \/ GivesUpGate(j) \/ FinishHIDMoves(j)
             \/ AbortMoves(j)
    BY <2>1 DEF BeginMoves, TakeGateMoves, GivesUpGate, FinishHIDMoves, AbortMoves
  <2>2. CASE PrepareMoves(j) \/ TransferMoves(j) \/ VerifyMoves(j)
    BY <2>2 DEF PrepareMoves, TransferMoves, VerifyMoves
  <2>3. CASE SendMoves(j)
    <3>1. CASE Effect(j)
      <4>1. mounted' = IF at[j] = "mount" THEN final ELSE mounted
        BY <3>1, Zenon DEF Effect
      <4>2. work' = work
        BY <2>3 DEF SendMoves
      <4>3. at[j] \notin MediaPlaces => UNCHANGED <<partial, final>>
        BY <3>1, EffectStores
      <4> QED BY <4>1, <4>2, <4>3
    <3>2. CASE UNCHANGED deviceVars
      BY <2>3, <3>2 DEF SendMoves
    <3> QED BY <2>3, <3>1, <3>2 DEF SendMoves
  <2>4. CASE HIDCallEnds(j) \/ SingleCallEnds(j)
    BY <2>4 DEF HIDCallEnds, SingleCallEnds, CallEnds
  <2>5. CASE UploadCallEnds(j)
    BY <2>5 DEF UploadCallEnds, UploadCallMoves, CallEnds
  <2> QED BY <2>1, <2>2, <2>3, <2>4, <2>5 DEF JobMoves
<1>2. ASSUME NEW k \in Jobs \ {j}, at[k] \in MediaPlaces, at[j] \in MediaPlaces PROVE FALSE
  BY <1>2, PlaceTells
<1> QED BY <1>1, <1>2

\* A step keeps what a job will report in line with what its calls did.
LEMMA StepHonest ==
  ASSUME IInv, [Next]_vars
  PROVE  Honest'
<1> USE DEF HIDCalls
<1>0. \A j \in Jobs : Accounted(j)
  BY DEF IInv, Honest, Accounted
<1>1. ASSUME OthersMove PROVE Honest'
  <2>1. UNCHANGED <<kind, at, step, due, got, armed>>
    BY <1>1 DEF OthersMove, controlVars, callVars
  <2>2. changed' = changed
    BY <1>1 DEF OthersMove, DeviceStores
  <2>3. work'.mutated = work.mutated
    <3>1. CASE UNCHANGED work
      BY <3>1
    <3>2. CASE WriteFile
      <4>1. \/ work' = [work EXCEPT !.replaced = TRUE]
            \/ \E hidden \in BOOLEAN, b \in {1, 2} :
                 work' = [work EXCEPT !.file[b] = 1 - @,
                                      !.touched = @ \/ ~hidden, !.stealthy = @ \/ hidden]
        BY <3>2, Zenon DEF WriteFile
      <4>2. work \in Works
        BY DEF IInv, Typed
      <4>3. CASE work' = [work EXCEPT !.replaced = TRUE]
        BY <4>2, <4>3 DEF Works
      <4>4. ASSUME NEW hidden \in BOOLEAN, NEW b \in {1, 2},
                   work' = [work EXCEPT !.file[b] = 1 - @,
                                        !.touched = @ \/ ~hidden, !.stealthy = @ \/ hidden]
            PROVE  work'.mutated = work.mutated
        BY <4>2, <4>4 DEF Works
      <4> QED BY <4>1, <4>3, <4>4, Zenon
    <3> QED BY <1>1, <3>1, <3>2 DEF OthersMove, DeviceStores
  <2>4. ASSUME NEW j \in Jobs PROVE Accounted(j)'
    BY <1>0, <2>1, <2>2, <2>3 DEF Accounted, Mutation
  <2> QED BY <2>4 DEF Honest, Accounted
<1>2. ASSUME NEW j \in Jobs, JobMoves(j) PROVE Honest'
  <2>1. /\ kind' = kind /\ Alone(j) /\ CallsAlone(j)
        /\ got \in [Jobs -> {"none", "ok", "rejected"}] /\ step[j] \in Nat /\ work \in Works
    BY <1>2, JobCallsAlone DEF JobMoves, IInv, Typed
  <2>2. \A k \in Jobs : Mutation(k)' <=> Mutation(k)
    BY <2>1 DEF Mutation
  <2>3. ASSUME NEW k \in Jobs \ {j} PROVE Accounted(k)'
    <3>1. Accounted(k) /\ (Mutation(k)' <=> Mutation(k))
      BY <1>0, <2>2
    <3>2. at'[k] = at[k] /\ step'[k] = step[k] /\ due'[k] = due[k]
      BY <2>1 DEF Alone
    <3>3. /\ (k \in armed' <=> k \in armed) /\ (k \in changed' <=> k \in changed)
          /\ got'[k] = got[k]
      BY <2>1 DEF CallsAlone
    <3>4. at[k] \in Before => work' = work
      BY <1>2, JobStoreAlone DEF MediaPlaces
    <3> QED BY <3>1, <3>2, <3>3, <3>4 DEF Accounted
  <2>4. /\ Accounted(j) /\ (Mutation(j)' <=> Mutation(j))
        /\ (got[j] # "none" => j \in awaiting) /\ (j \in awaiting => at[j] \in Calls)
    BY <1>0, <2>2 DEF IInv, Gated
  <2>5. j \in armed => at[j] \in {"press", "release", "finish", "neutral"}
    BY DEF IInv, Pressing
  <2> USE DEF Uploaded, Before, Accepting
  <2> DEFINE Same == changed' = changed
  <2>6. Accounted(j)'
    <3>1. CASE BeginMoves(j)
      <4>1. /\ Same /\ at'[j] \in {"gate", "open", "act", "probe", "done"} /\ at[j] = "new"
            /\ got' = got
        BY <3>1 DEF BeginMoves, Returns, FirstPlace, deviceVars, localVars, callVars
      <4>2. got[j] # "ok"
        BY <2>4, <4>1 DEF Calls
      <4> QED BY <2>4, <4>1, <4>2 DEF Accounted
    <3>2. CASE TakeGateMoves(j)
      <4>1. Same /\ UNCHANGED <<got, work>>
        BY <3>2 DEF TakeGateMoves, deviceVars
      <4>2. CASE at[j] = "gate"
        <5>1. at'[j] \in {"move", "press"} /\ step'[j] = 1
          BY <3>2, <4>2 DEF TakeGateMoves, Goes, Calls
        <5>2. got'[j] # "ok"
          BY <2>4, <4>1, <4>2 DEF Calls
        <5> QED BY <2>4, <4>1, <4>2, <5>1, <5>2 DEF Accounted
      <4>3. CASE UNCHANGED <<controlVars, armed>>
        BY <2>4, <4>1, <4>3 DEF Accounted, controlVars
      <4> QED BY <3>2, <4>2, <4>3 DEF TakeGateMoves
    <3>3. CASE GivesUpGate(j)
      <4>1. Same /\ at'[j] = "done"
        BY <3>3 DEF GivesUpGate, Returns, deviceVars
      <4> QED BY <2>4, <4>1 DEF Accounted
    <3>4. CASE SendMoves(j)
      <4>1. UNCHANGED <<at, step, due, armed, work>> /\ at[j] \in Calls /\ got[j] = "none"
        BY <2>1, <2>4, <3>4 DEF SendMoves, controlVars
      <4>2. CASE Effect(j) /\ got' = [got EXCEPT ![j] = "ok"]
        <5>1. got'[j] = "ok"
          BY <2>1, <4>2
        <5>2. changed' = IF at[j] \in Accepting THEN changed \cup {j} ELSE changed
          BY <4>2, Zenon DEF Effect, Accepting
        <5>3. at[j] \in Accepting => Mutation(j)
          BY PlaceTells DEF Accepting, HIDPlaces, MediaPlaces
        <5>4. at[j] \notin {"finish", "new", "gate", "open", "hash"}
          BY <4>1 DEF Calls
        <5> QED BY <2>4, <4>1, <5>1, <5>2, <5>3, <5>4 DEF Accounted, Accepting
      <4>3. CASE (\E o \in {"rejected", "none"} : got' = [got EXCEPT ![j] = o]) /\ UNCHANGED deviceVars
        <5>1. got'[j] # "ok" /\ Same
          BY <2>1, <4>3 DEF deviceVars
        <5> QED BY <2>4, <4>1, <5>1 DEF Accounted
      <4> QED BY <3>4, <4>2, <4>3 DEF SendMoves
    <3>5. CASE HIDCallEnds(j)
      <4>1. PICK r \in Results : CallEnds(j, r) /\ HIDCallMoves(j, r)
        BY <3>5 DEF HIDCallEnds
      <4>2. /\ Same /\ got'[j] = "none"
            /\ r = "ok" => got[j] = "ok"
            /\ r \in {"failed", "not_sent"} => got[j] # "ok"
        BY <2>1, <2>4, <4>1 DEF CallEnds, Results, deviceVars
      <4>3. CASE at[j] = "press"
        <5>1. \/ r = "ok" /\ at'[j] = "release" /\ step'[j] = step[j] /\ armed' = armed
              \/ at'[j] = "finish" /\ Told(due'[j], r, step[j] > 1)
          BY <4>1, <4>3 DEF HIDCallMoves, Goes, Leaves
        <5>2. Told(due'[j], r, step[j] > 1) =>
                /\ due'[j] # "ok"
                /\ due'[j] \in {"not_sent", "failed"} => step[j] <= 1 /\ due'[j] = r
          BY <2>1 DEF Told
        <5> QED BY <2>4, <4>2, <4>3, <5>1, <5>2 DEF Accounted, Accepting
      <4>4. CASE at[j] = "release"
        <5>1. \/ at'[j] = "finish" /\ due'[j] = "unknown"
              \/ at'[j] = "press" /\ step'[j] = step[j] + 1
              \/ at'[j] = "finish" /\ due'[j] = "ok" /\ armed' = armed \ {j}
          BY <4>1, <4>4 DEF HIDCallMoves, Goes, Leaves
        <5> QED BY <2>1, <2>4, <4>2, <4>4, <5>1 DEF Accounted
      <4>5. CASE at[j] = "move"
        <5>1. at'[j] = "finish" /\ due'[j] = r /\ armed' = armed
          BY <4>1, <4>5 DEF HIDCallMoves, Leaves
        <5> QED BY <2>4, <2>5, <4>2, <4>5, <5>1 DEF Accounted, Accepting
      <4>6. CASE at[j] = "neutral"
        <5>1. at'[j] = "done"
          BY <4>1, <4>6 DEF HIDCallMoves, Returns
        <5> QED BY <2>4, <4>2, <5>1 DEF Accounted
      <4> QED BY <4>1, <4>3, <4>4, <4>5, <4>6 DEF HIDCallMoves
    <3>6. CASE SingleCallEnds(j)
      <4>1. Same /\ at'[j] \in {"probe", "done"}
        BY <3>6 DEF SingleCallEnds, SingleCallMoves, CallEnds, Goes, Returns, deviceVars
      <4> QED BY <2>4, <4>1 DEF Accounted
    <3>7. CASE UploadCallEnds(j)
      <4>1. PICK r \in Results : CallEnds(j, r) /\ UploadCallMoves(j, r)
        BY <3>7 DEF UploadCallEnds
      <4>2. Same /\ got'[j] = "none" /\ (r = "ok" => got[j] = "ok")
        BY <2>1, <2>4, <4>1 DEF CallEnds, deviceVars
      <4>3. CASE at'[j] \in {"done", "abort", "abort_partial", "clean_partial", "clean_final"}
        BY <2>4, <4>2, <4>3 DEF Accounted
      <4>4. CASE at[j] = "list" /\ at'[j] \in {"drop_partial", "drop_final", "start"}
        BY <2>4, <4>2, <4>4 DEF Accounted
      <4>5. CASE /\ at[j] \in {"drop_partial", "drop_final"} /\ at'[j] \in {"drop_final", "start"}
                 /\ work' = [work EXCEPT !.mutated = TRUE]
        <5>1. work'.mutated
          BY <2>1, <4>5 DEF Works
        <5> QED BY <2>4, <4>2, <4>5, <5>1 DEF Accounted
      <4>6. CASE at[j] = "start" /\ r = "ok" /\ at'[j] = "transfer"
        BY <2>4, <4>2, <4>6 DEF Accounted, Accepting
      <4> QED BY <4>1, <4>3, <4>4, <4>5, <4>6 DEF UploadCallMoves, Goes, Leaves, Returns
    <3>8. CASE FinishHIDMoves(j)
      <4>1. /\ Same /\ at[j] = "finish" /\ due'[j] = due[j]
            /\ at'[j] = "done" \/ (at'[j] = "neutral" /\ j \in armed)
        BY <3>8 DEF FinishHIDMoves, Goes, Returns, deviceVars
      <4> QED BY <2>4, <4>1 DEF Accounted
    <3>9. CASE PrepareMoves(j)
      <4>1. Same /\ at[j] \in {"open", "hash"} /\ at'[j] \in {"done", "hash", "list"}
        BY <3>9 DEF PrepareMoves, Goes, Returns, deviceVars
      <4> QED BY <2>4, <4>1 DEF Accounted
    <3>10. CASE TransferMoves(j)
      <4>1. Same /\ at[j] = "transfer" /\ at'[j] \in {"clean_partial", "transfer", "verify"}
        BY <3>10 DEF TransferMoves, Goes, Leaves
      <4>2. j \in changed
        BY <2>4, <4>1 DEF Accounted
      <4> QED BY <2>4, <4>1, <4>2 DEF Accounted
    <3>11. CASE AbortMoves(j)
      <4>1. Same /\ at'[j] = "abort_partial"
        BY <3>11 DEF AbortMoves, Goes, deviceVars
      <4> QED BY <2>4, <4>1 DEF Accounted
    <3>12. CASE VerifyMoves(j)
      <4>1. /\ Same /\ at[j] = "verify" /\ at'[j] \in {"clean_partial", "verify", "mount", "done"}
            /\ got' = got
        BY <3>12 DEF VerifyMoves, Goes, Leaves, Returns, deviceVars, localVars, callVars
      <4>2. j \in changed
        BY <2>4, <4>1 DEF Accounted
      <4> QED BY <2>4, <4>1, <4>2 DEF Accounted
    <3> QED BY <1>2, <3>1, <3>2, <3>3, <3>4, <3>5, <3>6, <3>7, <3>8, <3>9, <3>10, <3>11, <3>12
            DEF JobMoves
  <2> QED BY <2>3, <2>6 DEF Honest, Accounted
<1> QED BY <1>1, <1>2, StepMoves

-----------------------------------------------------------------------------
(* The file                                                                *)

\* The parts of FileKept.
Fresh == (\A j \in Jobs : at[j] \in MediaPlaces => at[j] = "open") => work = NoWork
Untouched ==
  ~work.touched /\ ~work.stealthy =>
    work.file = NoWork.file /\ \A i \in 1 .. Len(work.digest) : work.digest[i] = 0
Follows(j) ==
  /\ at[j] = "hash" => step[j] \in {1, 2} /\ Len(work.digest) = step[j] - 1
  /\ at[j] \in Before \cup Uploaded => Len(work.digest) = 2
  /\ at[j] \in Before \cup {"hash"} => work.uploaded = <<>>
  /\ at[j] = "start" /\ got[j] = "ok" =>
       partial = [of |-> j, blocks |-> <<>>] /\ final.of # j
  /\ at[j] = "transfer" =>
       /\ step[j] = Len(work.uploaded) + 1 /\ Len(work.uploaded) <= 2
       /\ \/ partial.of = j /\ partial.blocks = work.uploaded /\ final.of # j
          \/ /\ partial = Nothing /\ final.of = j
             /\ final.blocks = work.uploaded /\ Len(work.uploaded) = 2
  /\ at[j] \in {"verify", "mount"} => partial = Nothing /\ final.blocks = work.digest

\* What a write to the file does to what the job knows of it.
LEMMA WriteFileTold ==
  ASSUME IInv, WriteFile
  PROVE  /\ work'.digest = work.digest /\ work'.uploaded = work.uploaded
         /\ Untouched' /\ ~(\A j \in Jobs : at[j] \in MediaPlaces => at[j] = "open")
<1>1. work \in Works /\ Untouched
  BY DEF IInv, Typed, FileKept, Untouched
<1>2. \/ work' = [work EXCEPT !.replaced = TRUE]
      \/ \E hidden \in BOOLEAN, b \in {1, 2} :
           work' = [work EXCEPT !.file[b] = 1 - @,
                                !.touched = @ \/ ~hidden, !.stealthy = @ \/ hidden]
  BY Zenon DEF WriteFile
<1>3. ASSUME work' = [work EXCEPT !.replaced = TRUE]
      PROVE  work'.digest = work.digest /\ work'.uploaded = work.uploaded /\ Untouched'
  <2>1. /\ work'.digest = work.digest /\ work'.uploaded = work.uploaded /\ work'.file = work.file
        /\ work'.touched = work.touched /\ work'.stealthy = work.stealthy
    BY <1>1, <1>3 DEF Works
  <2> QED BY <1>1, <2>1 DEF Untouched
<1>4. ASSUME NEW hidden \in BOOLEAN, NEW b \in {1, 2},
             work' = [work EXCEPT !.file[b] = 1 - @,
                                  !.touched = @ \/ ~hidden, !.stealthy = @ \/ hidden]
      PROVE  work'.digest = work.digest /\ work'.uploaded = work.uploaded /\ Untouched'
  <2>1. /\ work'.digest = work.digest /\ work'.uploaded = work.uploaded
        /\ work'.touched = (work.touched \/ ~hidden) /\ work'.stealthy = (work.stealthy \/ hidden)
    BY <1>1, <1>4 DEF Works
  <2>2. work'.touched \/ work'.stealthy
    BY <1>1, <2>1 DEF Works
  <2> QED BY <2>1, <2>2 DEF Untouched
<1>5. work'.digest = work.digest /\ work'.uploaded = work.uploaded /\ Untouched'
  BY <1>2, <1>3, <1>4, Zenon
<1>6. \E j \in Jobs : at[j] \in {"hash", "list", "drop_partial", "drop_final", "start",
                                 "transfer", "verify"}
  BY Zenon DEF WriteFile
<1> QED BY <1>5, <1>6 DEF MediaPlaces, Before, Uploaded

\* A step keeps what an upload has read in line with what it has stored.
LEMMA StepFileKept ==
  ASSUME IInv, [Next]_vars
  PROVE  FileKept'
<1>0. /\ Fresh /\ Untouched /\ \A j \in Jobs : Follows(j)
      /\ work \in Works /\ partial \in Files /\ NoJob \notin Jobs
  BY LaneConstants DEF IInv, Typed, FileKept, Fresh, Untouched, Follows
<1>1. ASSUME OthersMove PROVE FileKept'
  <2>1. UNCHANGED <<at, step, got>>
    BY <1>1 DEF OthersMove, controlVars, callVars
  <2>2. CASE UNCHANGED <<work, partial, final>>
    <3>1. Fresh' /\ Untouched' /\ \A j \in Jobs : Follows(j)'
      BY <1>0, <2>1, <2>2 DEF Fresh, Untouched, Follows
    <3> QED BY <3>1 DEF Fresh, Untouched, Follows, FileKept
  <2>3. CASE WriteFile /\ UNCHANGED <<partial, final>>
    <3>1. Fresh' /\ Untouched'
      BY <2>1, <2>3, WriteFileTold DEF Fresh
    <3>2. \A j \in Jobs : Follows(j)'
      BY <1>0, <2>1, <2>3, WriteFileTold DEF Follows
    <3> QED BY <3>1, <3>2 DEF Fresh, Untouched, Follows, FileKept
  <2>4. CASE DeviceStores
    <3>1. /\ Len(partial.blocks) = 2 /\ final' = partial /\ partial' = Nothing /\ work' = work
          /\ Len(<<>>) = 0 /\ Nothing.blocks = <<>> /\ Nothing.of = NoJob
      BY <2>4 DEF DeviceStores, Nothing
    <3>2. Fresh' /\ Untouched'
      BY <1>0, <2>1, <3>1 DEF Fresh, Untouched
    <3>3. ASSUME NEW j \in Jobs PROVE Follows(j)'
      <4>1. partial # Nothing /\ partial.blocks # <<>>
        BY <3>1
      <4>2. Follows(j) /\ [of |-> j, blocks |-> <<>>].blocks = <<>>
        BY <1>0
      <4> DEFINE start == [of |-> j, blocks |-> <<>>]
      <4>3. partial # start
        BY <4>1, <4>2
      <4> HIDE DEF start
      <4>4. at[j] \notin {"verify", "mount"} /\ ~(at[j] = "start" /\ got[j] = "ok")
        BY <4>1, <4>2, <4>3 DEF Follows, start
      <4>5. at[j] = "transfer" => /\ step[j] = Len(work.uploaded) + 1
                                  /\ partial.of = j /\ partial.blocks = work.uploaded
        BY <4>1, <4>2 DEF Follows
      <4> QED BY <2>1, <3>1, <4>2, <4>4, <4>5 DEF Follows
    <3> QED BY <3>2, <3>3 DEF Fresh, Untouched, Follows, FileKept
  <2> QED BY <1>1, <2>2, <2>3, <2>4 DEF OthersMove
<1>2. ASSUME NEW j \in Jobs, JobMoves(j) PROVE FileKept'
  <2>1. /\ Alone(j) /\ CallsAlone(j) /\ Follows(j)
        /\ got \in [Jobs -> {"none", "ok", "rejected"}] /\ step[j] \in Nat
        /\ (got[j] # "none" => j \in awaiting) /\ (j \in awaiting => at[j] \in Calls)
    BY <1>0, <1>2, JobCallsAlone DEF JobMoves, IInv, Typed, Gated
  <2>2. ASSUME NEW k \in Jobs \ {j} PROVE Follows(k)'
    <3>1. Follows(k)
      BY <1>0
    <3>2. at'[k] = at[k] /\ step'[k] = step[k] /\ got'[k] = got[k]
      BY <2>1 DEF Alone, CallsAlone
    <3>3. at[k] \in MediaPlaces => UNCHANGED <<work, partial, final>>
      BY <1>2, JobStoreAlone
    <3>4. CASE at[k] \notin MediaPlaces
      BY <3>2, <3>4 DEF Follows, MediaPlaces, Before, Uploaded
    <3>5. CASE UNCHANGED <<work, partial, final>>
      BY <3>1, <3>2, <3>5 DEF Follows
    <3> QED BY <3>3, <3>4, <3>5
  <2>3. CASE at[j] \notin MediaPlaces
    <3>1. UNCHANGED <<work, partial, final>>
      BY <1>2, <2>3, JobStoreAlone
    <3>2. at'[j] \notin MediaPlaces \/ at'[j] = "open"
      <4> USE DEF MediaPlaces, Before, Uploaded, Cleaning
      <4>1. CASE SendMoves(j)
        BY <2>3, <4>1 DEF SendMoves, controlVars
      <4>2. CASE TakeGateMoves(j)
        BY <2>3, <4>2 DEF TakeGateMoves, Goes, controlVars
      <4>3. CASE BeginMoves(j)
        BY <4>3 DEF BeginMoves, Returns, FirstPlace
      <4>4. CASE GivesUpGate(j) \/ FinishHIDMoves(j)
        BY <4>4 DEF GivesUpGate, FinishHIDMoves, Goes, Returns
      <4>5. CASE HIDCallEnds(j)
        BY <4>5 DEF HIDCallEnds, HIDCallMoves, Goes, Leaves, Returns
      <4>6. CASE SingleCallEnds(j)
        BY <4>6 DEF SingleCallEnds, SingleCallMoves, Goes, Returns
      <4>7. ~(UploadCallEnds(j) \/ PrepareMoves(j) \/ TransferMoves(j) \/ AbortMoves(j)
              \/ VerifyMoves(j))
        BY <2>3 DEF UploadCallEnds, UploadCallMoves, PrepareMoves, TransferMoves, AbortMoves,
                    VerifyMoves
      <4> QED BY <1>2, <4>1, <4>2, <4>3, <4>4, <4>5, <4>6, <4>7 DEF JobMoves
    <3>3. Follows(j)'
      BY <3>2 DEF Follows, MediaPlaces, Before, Uploaded
    <3>4. Fresh'
      BY <1>0, <2>1, <2>3, <3>1, <3>2 DEF Fresh, Alone
    <3>5. Untouched'
      BY <1>0, <3>1 DEF Untouched
    <3> QED BY <2>2, <3>3, <3>4, <3>5 DEF Fresh, Untouched, Follows, FileKept
  <2>4. CASE at[j] \in MediaPlaces
    <3>1. /\ Untouched' /\ Follows(j)'
          /\ \/ at'[j] = "done" /\ work' = NoWork
             \/ at'[j] \in MediaPlaces \ {"open"}
             \/ at'[j] = at[j] /\ work' = work
      <4> DEFINE Same == UNCHANGED <<work, partial, final>>
      <4>0. NoWork.digest = <<>> /\ NoWork.uploaded = <<>> /\ Untouched /\ Len(<<>>) = 0
            /\ NoWork.file = <<0, 0>>
        BY <1>0 DEF NoWork
      <4>1. ASSUME at'[j] = "done", work' = NoWork
            PROVE  Untouched' /\ Follows(j)'
        BY <4>0, <4>1 DEF Untouched, Follows, Before, Uploaded
      <4>2. ASSUME work'.file = work.file, work'.touched = work.touched,
                   work'.stealthy = work.stealthy, work'.digest = work.digest
            PROVE  Untouched'
        BY <4>0, <4>2 DEF Untouched
      <4>3. CASE BeginMoves(j) \/ GivesUpGate(j) \/ HIDCallEnds(j) \/ SingleCallEnds(j)
                 \/ FinishHIDMoves(j)
        BY <2>4, <4>3
        DEF MediaPlaces, Before, Uploaded, Cleaning, BeginMoves, GivesUpGate, HIDCallEnds,
            HIDCallMoves, SingleCallEnds, SingleCallMoves, FinishHIDMoves
      <4>4. CASE TakeGateMoves(j)
        <5>1. Same /\ got' = got /\ UNCHANGED <<at, step>>
          BY <2>4, <4>4
          DEF TakeGateMoves, controlVars, deviceVars, MediaPlaces, Before, Uploaded, Cleaning
        <5> QED BY <2>1, <4>0, <5>1 DEF Untouched, Follows
      <4>5. CASE SendMoves(j)
        <5>1. work' = work /\ UNCHANGED <<at, step>>
          BY <4>5 DEF SendMoves, controlVars
        <5>2. CASE Effect(j) /\ at[j] = "start"
          <6>1. partial' = [of |-> j, blocks |-> <<>>] /\ final' = final
            BY <5>2, EffectStores
          <6>2. j \notin spoiled
            BY <5>2 DEF IInv, Spoilt, Cleaning
          <6>3. final.of # j
            BY <5>2, <6>2 DEF IInv, Leftovers
          <6> QED BY <2>1, <4>0, <5>1, <5>2, <6>1, <6>3 DEF Untouched, Follows, Before, Uploaded
        <5>3. CASE Effect(j) /\ at[j] # "start"
          <6>1. at[j] \notin {"hash", "transfer"}
            BY <4>5 DEF SendMoves, Calls, HIDCalls
          <6>2. at[j] \notin {"drop_partial", "clean_partial", "abort_partial", "drop_final",
                              "clean_final"} => UNCHANGED <<partial, final>>
            BY <5>3, EffectStores
          <6> QED BY <2>1, <4>0, <5>1, <5>3, <6>1, <6>2
                  DEF Untouched, Follows, Before, Uploaded
        <5>4. CASE (\E o \in {"rejected", "none"} : got' = [got EXCEPT ![j] = o])
                   /\ UNCHANGED deviceVars
          <6>1. got'[j] # "ok" /\ Same
            BY <2>1, <5>1, <5>4 DEF deviceVars
          <6> QED BY <2>1, <4>0, <5>1, <6>1 DEF Untouched, Follows
        <5> QED BY <4>5, <5>1, <5>2, <5>3, <5>4 DEF SendMoves
      <4>6. CASE UploadCallEnds(j)
        <5>1. PICK r \in Results : CallEnds(j, r) /\ UploadCallMoves(j, r)
          BY <4>6 DEF UploadCallEnds
        <5>2. UNCHANGED <<partial, final>> /\ got'[j] = "none" /\ (r = "ok" => got[j] = "ok")
          BY <2>1, <5>1 DEF CallEnds, deviceVars
        <5>3. CASE at'[j] = "done" /\ work' = NoWork
          BY <4>1, <5>3
        <5>4. CASE at'[j] \in {"clean_partial", "clean_final"} /\ work' = work
          BY <4>0, <5>4 DEF Untouched, Follows, MediaPlaces, Before, Uploaded, Cleaning
        <5>5. CASE /\ at[j] = "list" /\ at'[j] \in {"drop_partial", "drop_final", "start"}
                   /\ \E found \in SUBSET {"partial", "final"} :
                        work' = [work EXCEPT !.present = found]
          <6>1. /\ work'.file = work.file /\ work'.touched = work.touched
                /\ work'.stealthy = work.stealthy /\ work'.digest = work.digest
                /\ work'.uploaded = work.uploaded
            BY <1>0, <5>5 DEF Works
          <6>2. Untouched'
            BY <4>2, <6>1
          <6> QED BY <2>1, <5>2, <5>5, <6>1, <6>2 DEF Follows, MediaPlaces, Before, Uploaded
        <5>6. CASE /\ work' = [work EXCEPT !.mutated = TRUE]
                   /\ \/ /\ at[j] \in {"drop_partial", "drop_final"}
                         /\ at'[j] \in {"drop_final", "start"}
                      \/ at[j] = "start" /\ r = "ok" /\ at'[j] = "transfer" /\ step'[j] = 1
                      \/ at[j] = "start" /\ at'[j] \in {"abort", "abort_partial"}
          <6>1. /\ work'.file = work.file /\ work'.touched = work.touched
                /\ work'.stealthy = work.stealthy /\ work'.digest = work.digest
                /\ work'.uploaded = work.uploaded
            BY <1>0, <5>6 DEF Works
          <6>2. Untouched'
            BY <4>2, <6>1
          <6>3. CASE at[j] # "start"
            BY <2>1, <5>2, <5>6, <6>1, <6>2, <6>3 DEF Follows, MediaPlaces, Before, Uploaded
          <6>4. CASE at'[j] = "transfer" /\ at[j] = "start" /\ r = "ok" /\ step'[j] = 1
            <7>1. /\ partial = [of |-> j, blocks |-> <<>>] /\ final.of # j /\ work.uploaded = <<>>
                  /\ Len(work.digest) = 2
              BY <2>1, <5>2, <6>4 DEF Follows, Before
            <7>2. partial.of = j /\ partial.blocks = work.uploaded
              BY <7>1
            <7> QED BY <4>0, <5>2, <6>1, <6>2, <6>4, <7>1, <7>2
                    DEF Follows, MediaPlaces, Before, Uploaded
          <6>5. CASE at'[j] \in {"abort", "abort_partial"}
            BY <6>2, <6>5 DEF Follows, MediaPlaces, Before, Uploaded, Cleaning
          <6> QED BY <5>6, <6>3, <6>4, <6>5
        <5> QED BY <5>1, <5>3, <5>4, <5>5, <5>6 DEF UploadCallMoves, Goes, Leaves, Returns
      <4>7. CASE PrepareMoves(j)
        <5>1. UNCHANGED <<partial, final>>
          BY <4>7 DEF PrepareMoves, deviceVars
        <5>2. CASE at'[j] = "done" /\ work' = NoWork
          BY <4>1, <5>2
        <5>3. CASE at[j] = "open" /\ at'[j] = "hash" /\ step'[j] = 1 /\ work' = work
          <6>1. \A k \in Jobs \ {j} : at[k] \notin MediaPlaces
            BY <2>4, PlaceTells
          <6>2. work = NoWork
            BY <1>0, <5>3, <6>1 DEF Fresh
          <6> QED BY <4>0, <5>3, <6>2 DEF Untouched, Follows, MediaPlaces, Before, Uploaded
        <5>4. CASE /\ at[j] = "hash" /\ work' = [work EXCEPT !.digest = Append(@, work.file[step[j]])]
                   /\ \/ step[j] = 1 /\ at'[j] = "hash" /\ step'[j] = 2
                      \/ step[j] # 1 /\ at'[j] = "list"
          <6>1. step[j] \in {1, 2} /\ Len(work.digest) = step[j] - 1 /\ work.uploaded = <<>>
                /\ work.digest \in Seq(Bits) /\ work.file[step[j]] \in Bits
            BY <1>0, <2>1, <5>4, BlockRead DEF Follows, Works
          <6>2. /\ work'.file = work.file /\ work'.touched = work.touched
                /\ work'.stealthy = work.stealthy /\ work'.uploaded = work.uploaded
                /\ work'.digest = Append(work.digest, work.file[step[j]])
            BY <1>0, <5>4 DEF Works
          <6>3. Len(work'.digest) = step[j]
            BY <6>1, <6>2
          <6>4. Untouched'
            <7>1. ASSUME ~work.touched, ~work.stealthy, NEW i \in 1 .. Len(work'.digest)
                  PROVE  work'.digest[i] = 0
              <8>1. work.file[step[j]] = 0
                BY <4>0, <6>1, <7>1 DEF Untouched
              <8>2. \A n \in 1 .. Len(work.digest) : work.digest[n] = 0
                BY <4>0, <7>1 DEF Untouched
              <8> QED BY <6>1, <6>2, <6>3, <7>1, <8>1, <8>2
            <7> QED BY <4>0, <6>2, <7>1 DEF Untouched
          <6> QED BY <5>4, <6>1, <6>2, <6>3, <6>4 DEF Follows, MediaPlaces, Before, Uploaded
        <5> QED BY <4>7, <5>2, <5>3, <5>4 DEF PrepareMoves, Goes, Returns
      <4>8. CASE TransferMoves(j)
        <5>1. at[j] = "transfer" /\ final' = final
          BY <4>8 DEF TransferMoves
        <5>2. CASE at'[j] = "clean_partial" /\ UNCHANGED work
          BY <4>0, <5>2 DEF Untouched, Follows, MediaPlaces, Before, Uploaded, Cleaning
        <5>3. CASE /\ step[j] = 3 /\ final.of = j /\ work.uploaded = work.digest
                   /\ at'[j] = "verify" /\ UNCHANGED <<work, partial>>
          <6>1. partial = Nothing /\ final.blocks = work.digest /\ Len(work.digest) = 2
            BY <2>1, <5>1, <5>3 DEF Follows, Uploaded
          <6> QED BY <4>0, <5>1, <5>3, <6>1
                  DEF Untouched, Follows, MediaPlaces, Before, Uploaded
        <5>4. CASE /\ step[j] <= 2 /\ at'[j] = "transfer" /\ step'[j] = step[j] + 1
                   /\ work' = [work EXCEPT !.uploaded = Append(@, work.file[step[j]])]
                   /\ partial' = IF partial.of = j
                                 THEN [partial EXCEPT !.blocks = Append(@, work.file[step[j]])]
                                 ELSE partial
          <6>1. /\ step[j] = Len(work.uploaded) + 1 /\ Len(work.digest) = 2
                /\ work.uploaded \in Seq(Bits) /\ step[j] \in {1, 2}
            BY <1>0, <2>1, <5>1, <5>4, ReadPosition DEF Follows, Uploaded, Works
          <6>2. work.file[step[j]] \in Bits
            BY <6>1, BlockRead
          <6>3. partial.of = j /\ partial.blocks = work.uploaded /\ final.of # j
            <7>1. Len(work.uploaded) # 2
              <8>1. step[j] # 3
                BY <6>1
              <8>2. ASSUME Len(work.uploaded) = 2 PROVE step[j] = 3
                <9>1. step[j] = Len(work.uploaded) + 1
                  BY <6>1
                <9> QED BY <8>2, <9>1
              <8> QED BY <8>1, <8>2
            <7>2. \/ partial.of = j /\ partial.blocks = work.uploaded /\ final.of # j
                  \/ Len(work.uploaded) = 2
              BY <2>1, <5>1 DEF Follows
            <7> QED BY <7>1, <7>2
          <6>4. /\ work'.file = work.file /\ work'.touched = work.touched
                /\ work'.stealthy = work.stealthy /\ work'.digest = work.digest
                /\ work'.uploaded = Append(work.uploaded, work.file[step[j]])
            BY <1>0, <5>4 DEF Works
          <6>5. partial'.of = j /\ partial'.blocks = Append(work.uploaded, work.file[step[j]])
            BY <1>0, <5>4, <6>3 DEF Files
          <6>6. Len(work'.uploaded) = Len(work.uploaded) + 1
            BY <6>1, <6>2, <6>4
          <6>7. Untouched'
            BY <4>2, <6>4
          <6> QED BY <5>1, <5>4, <6>1, <6>3, <6>4, <6>5, <6>6, <6>7
                  DEF Follows, MediaPlaces, Before, Uploaded
        <5> QED BY <4>8, <5>2, <5>3, <5>4 DEF TransferMoves, Goes, Leaves
      <4>9. CASE AbortMoves(j)
        <5>1. at'[j] = "abort_partial" /\ work' = work
          BY <4>9 DEF AbortMoves, Goes
        <5> QED BY <4>0, <5>1 DEF Untouched, Follows, MediaPlaces, Before, Uploaded, Cleaning
      <4>10. CASE VerifyMoves(j)
        <5>1. at[j] = "verify" /\ UNCHANGED <<partial, final>>
          BY <4>10 DEF VerifyMoves, deviceVars
        <5>2. CASE at'[j] = "done" /\ work' = NoWork
          BY <4>1, <5>2
        <5>3. CASE at'[j] \in {"clean_partial", "verify", "mount"} /\ work' = work
          BY <2>1, <4>0, <5>1, <5>3 DEF Untouched, Follows, MediaPlaces, Before, Uploaded, Cleaning
        <5> QED BY <4>10, <5>2, <5>3 DEF VerifyMoves, Goes, Leaves, Returns
      <4> QED BY <1>2, <4>3, <4>4, <4>5, <4>6, <4>7, <4>8, <4>9, <4>10, <4>1 DEF JobMoves
    <3>2. Fresh'
      <4>1. \A k \in Jobs \ {j} : at[k] \notin MediaPlaces /\ at'[k] = at[k]
        BY <2>1, <2>4, PlaceTells DEF Alone
      <4> QED BY <1>0, <3>1, <4>1 DEF Fresh
    <3> QED BY <2>2, <3>1, <3>2 DEF Fresh, Untouched, Follows, FileKept
  <2> QED BY <2>3, <2>4
<1> QED BY <1>1, <1>2, StepMoves

-----------------------------------------------------------------------------
(* The invariant holds                                                     *)

\* The invariant holds at first.
LEMMA InitHolds ==
  ASSUME Init
  PROVE  IInv
<1>1. PICK case \in Cases :
        /\ kind = case.kind /\ writes = case.writes
        /\ partial = IF "partial" \in case.left THEN Old ELSE Nothing
        /\ final = IF "final" \in case.left THEN Old ELSE Nothing
  BY Zenon DEF Init
<1>2. case \in [kind : [Jobs -> Kinds], left : SUBSET {"partial", "final"}, writes : Nat]
  BY LaneConstants
<1>3. kind \in [Jobs -> Kinds] /\ writes \in Nat
  BY <1>1, <1>2
<1>4. partial \in {Old, Nothing} /\ final \in {Old, Nothing}
  BY <1>1
<1>5. Old \in Files /\ Nothing \in Files /\ Old.of = NoJob /\ Nothing.of = NoJob
  <2>1. <<"old">> \in Seq(Bits \cup {"old"})
    OBVIOUS
  <2> QED BY <2>1, NothingTyped DEF Old, Nothing, Files
<1>6. /\ at = [j \in Jobs |-> "new"] /\ step = [j \in Jobs |-> 1]
      /\ awaiting = {} /\ got = [j \in Jobs |-> "none"]
      /\ due = [j \in Jobs |-> "none"] /\ reply = [j \in Jobs |-> "none"]
      /\ canceled = {} /\ turn = NoJob /\ gate = NoJob /\ armed = {}
      /\ link = "up" /\ takenOver = FALSE /\ ended = FALSE /\ pressed = NoJob
      /\ work = NoWork /\ mounted = Nothing /\ changed = {} /\ spoiled = {}
  BY Zenon DEF Init
<1>7. NoJob \notin Jobs
  BY LaneConstants
<1>8. Typed
  <2>1. "new" \in Places /\ "none" \in Outcomes
    BY DEF Places, Outcomes
  <2> QED BY <1>3, <1>4, <1>5, <1>6, <2>1, NothingTyped DEF Typed
<1>9. /\ \A j \in Jobs : at[j] = "new" /\ reply[j] = "none" /\ got[j] = "none" /\ step[j] = 1
      /\ \A j \in Jobs : turn # j /\ gate # j
  BY <1>6, <1>7
<1>10. Placed /\ Turns /\ Gated
  BY <1>6, <1>9 DEF Placed, Turns, Gated, HIDPlaces, HIDCalls, MediaPlaces, Before, Uploaded, Cleaning
<1>11. Pressing /\ Spoilt
  BY <1>6, <1>9 DEF Pressing, Spoilt
<1>12. Leftovers
  BY <1>4, <1>5, <1>6, <1>7, <1>9 DEF Leftovers, Owns
<1>13. Honest
  BY <1>6, <1>9 DEF Honest, Accepting, Before, Uploaded
<1>14. FileKept
  <2>1. Untouched
    BY <1>6 DEF Untouched, NoWork
  <2>2. Fresh
    BY <1>6 DEF Fresh
  <2>3. \A j \in Jobs : Follows(j)
    BY <1>9 DEF Follows, Before, Uploaded
  <2> QED BY <2>1, <2>2, <2>3 DEF FileKept, Fresh, Untouched, Follows
<1> QED BY <1>8, <1>10, <1>11, <1>12, <1>13, <1>14 DEF IInv

\* The invariant holds always.
LEMMA Invariant == Spec => []IInv
<1>1. IInv /\ [Next]_vars => IInv'
  <2> SUFFICES ASSUME IInv, [Next]_vars PROVE IInv'
    OBVIOUS
  <2> QED BY StepTyped, StepPlaced, StepTurns, StepGated, StepPressing, StepLeftovers,
             StepSpoilt, StepHonest, StepFileKept DEF IInv
<1> QED BY InitHolds, <1>1, PTL DEF Spec

\* The state of a device session stays in its type.
THEOREM LaneTypes == Spec => []TypeOK
<1>1. ASSUME IInv PROVE TypeOK
  <2>1. Typed /\ Placed /\ Turns /\ Gated /\ Pressing
    BY <1>1 DEF IInv
  <2>2. ASSUME NEW j \in Jobs, at[j] \in {"new", "done"}
        PROVE  j \notin {turn, gate} \cup awaiting \cup armed
    BY <2>1, <2>2 DEF Turns, Gated, Pressing, Calls, HIDCalls
  <2>3. \A j \in Jobs : (at[j] = "done") = (reply[j] # "none")
    BY <2>1 DEF Placed
  <2> QED BY <2>1, <2>2, <2>3 DEF TypeOK, Typed
<1> QED BY Invariant, <1>1, PTL

\* One RPC at a time, and a key is down only while the job that pressed it keeps the
\* gate and owes its release.
THEOREM KeysAreReleased == Spec => []HIDIsolated
<1>1. ASSUME IInv PROVE HIDIsolated
  <2>1. awaiting \subseteq {gate}
    BY <1>1 DEF IInv, Gated
  <2>2. ASSUME pressed # NoJob, pressed \notin spoiled
        PROVE  gate = pressed /\ pressed \in armed
    <3>1. pressed \in Jobs /\ pressed \in armed
      BY <1>1, <2>2 DEF IInv, Typed, Pressing
    <3>2. at[pressed] \in HIDCalls \cup {"finish"}
      BY <1>1, <3>1 DEF IInv, Pressing, HIDCalls
    <3> QED BY <1>1, <3>1, <3>2 DEF IInv, Gated
  <2> QED BY <2>1, <2>2 DEF HIDIsolated
<1> QED BY Invariant, <1>1, PTL

\* A failed upload leaves nothing on the device but, when its start went unanswered,
\* an empty partial file.
THEOREM UploadsLeaveNothing == Spec => []LeftoversRemoved
<1>1. ASSUME IInv PROVE LeftoversRemoved
  <2>1. ASSUME NEW j \in Jobs, reply[j] \notin {"none", "ok"}, j \notin spoiled
        PROVE  /\ final.of # j
               /\ partial.of = j => due[j] = "none" /\ partial.blocks = <<>>
    <3>1. at[j] = "done"
      BY <1>1, <2>1 DEF IInv, Placed
    <3>2. Owns(j) => Unstarted(j)
      BY <1>1, <2>1, <3>1 DEF IInv, Leftovers, Uploaded, Cleaning
    <3> QED BY <1>1, <2>1, <3>2 DEF IInv, Leftovers, Owns, Unstarted
  <2> QED BY <2>1 DEF LeftoversRemoved, NoCleanUp
<1> QED BY Invariant, <1>1, PTL

\* What a step answers.
HonestStep(j) ==
  reply'[j] # reply[j] =>
    /\ reply'[j] \in {"not_sent", "failed"} => j \notin changed
    /\ reply'[j] = "ok" => /\ pressed # j
                           /\ IF Mutation(j) THEN j \in changed ELSE ~ended

\* A job that returns reports no more and no less than it knows.
LEMMA JobAnswersHonestly ==
  ASSUME IInv, NEW j \in Jobs, JobMoves(j)
  PROVE  HonestStep(j)
<1>1. /\ Accounted(j) /\ (j \in awaiting => at[j] \in Calls) /\ (got[j] # "none" => j \in awaiting)
      /\ (pressed = j => HID(j) /\ (j \in armed \/ j \in spoiled))
      /\ (HID(j) /\ j \in spoiled => at[j] \in {"neutral", "done"})
      /\ (at[j] \in Cleaning => due[j] = "unknown")
      /\ work.mutated \in BOOLEAN /\ NoJob \notin Jobs
  BY LaneConstants DEF IInv, Honest, Accounted, Gated, Pressing, Placed, Typed, Works
<1> USE DEF Before, Uploaded, Cleaning, Accepting
<1>2. CASE BeginMoves(j)
  BY <1>1, <1>2 DEF HonestStep, BeginMoves, Returns, Accounted
<1>3. CASE TakeGateMoves(j)
  BY <1>3 DEF HonestStep, TakeGateMoves, Goes, controlVars
<1>4. CASE GivesUpGate(j)
  BY <1>1, <1>4 DEF HonestStep, GivesUpGate, Returns, Accounted
<1>5. CASE SendMoves(j)
  BY <1>5 DEF HonestStep, SendMoves, controlVars
<1>6. CASE HIDCallEnds(j)
  <2>1. \/ reply'[j] = reply[j] \/ (at[j] = "neutral" /\ reply'[j] = due[j])
    BY <1>6 DEF HIDCallEnds, HIDCallMoves, Goes, Leaves, Returns
  <2> QED BY <1>1, <2>1 DEF HonestStep, Accounted
<1>7. CASE SingleCallEnds(j)
  <2>1. PICK r \in Results : CallEnds(j, r) /\ SingleCallMoves(j, r)
    BY <1>7 DEF SingleCallEnds
  <2>2. (r = "ok" => got[j] = "ok") /\ (r \in {"failed", "not_sent"} => got[j] # "ok")
    BY <1>1, <2>1 DEF CallEnds, Results
  <2>3. ~HID(j) /\ (at[j] = "act" => Mutation(j)) /\ (at[j] = "probe" => ~Mutation(j))
    BY <2>1, PlaceTells DEF SingleCallMoves, IInv, Placed, Mutation
  <2>4. CASE at[j] = "probe"
    BY <1>1, <2>1, <2>3, <2>4 DEF HonestStep, SingleCallMoves, Goes, Returns, Accounted
  <2>5. CASE at[j] = "act"
    <3>1. reply'[j] = r
      BY <2>1, <2>5 DEF SingleCallMoves, Returns
    <3> QED BY <1>1, <2>2, <2>3, <2>5, <3>1 DEF HonestStep, Accounted
  <2> QED BY <2>1, <2>4, <2>5 DEF SingleCallMoves
<1>8. CASE UploadCallEnds(j)
  <2>1. PICK r \in Results : CallEnds(j, r) /\ UploadCallMoves(j, r)
    BY <1>8 DEF UploadCallEnds
  <2>2. r \in {"failed", "not_sent"} => got[j] # "ok"
    BY <1>1, <2>1 DEF CallEnds, Results
  <2>3. ~HID(j) /\ Mutation(j)
    BY <2>1, PlaceTells DEF UploadCallMoves, MediaPlaces
  <2>4. \/ reply'[j] = reply[j]
        \/ at[j] = "mount" /\ reply'[j] = "ok"
        \/ at[j] \in Cleaning /\ reply'[j] = due[j]
        \/ at[j] = "list" /\ reply'[j] = "not_sent"
        \/ at[j] \in {"drop_partial", "drop_final", "start"} /\ Told(reply'[j], r, work.mutated)
    BY <2>1 DEF UploadCallMoves, Goes, Leaves, Returns
  <2>5. Told(reply'[j], r, work.mutated) =>
          reply'[j] # "ok" /\ (reply'[j] \in {"not_sent", "failed"} => ~work.mutated /\ reply'[j] = r)
    BY <1>1 DEF Told
  <2> QED BY <1>1, <2>2, <2>3, <2>4, <2>5 DEF HonestStep, Accounted
<1>9. CASE FinishHIDMoves(j)
  <2>1. reply'[j] = reply[j] \/ (at[j] = "finish" /\ reply'[j] = due[j])
    BY <1>9 DEF FinishHIDMoves, Goes, Returns
  <2>2. at[j] = "finish" => Mutation(j)
    BY PlaceTells DEF HIDPlaces
  <2> QED BY <1>1, <2>1, <2>2 DEF HonestStep, Accounted
<1>10. CASE PrepareMoves(j)
  BY <1>1, <1>10 DEF HonestStep, PrepareMoves, Goes, Returns, Accounted
<1>11. CASE TransferMoves(j)
  BY <1>11 DEF HonestStep, TransferMoves, Goes, Leaves
<1>12. CASE AbortMoves(j)
  BY <1>12 DEF HonestStep, AbortMoves, Goes
<1>13. CASE VerifyMoves(j)
  <2>1. at[j] = "verify" /\ (reply'[j] = reply[j] \/ reply'[j] = "ok")
    BY <1>13 DEF VerifyMoves, Goes, Leaves, Returns
  <2>2. Mutation(j) /\ ~HID(j)
    BY <2>1, PlaceTells DEF MediaPlaces
  <2> QED BY <1>1, <2>1, <2>2 DEF HonestStep, Accounted
<1> QED BY <1>2, <1>3, <1>4, <1>5, <1>6, <1>7, <1>8, <1>9, <1>10, <1>11, <1>12, <1>13
        DEF JobMoves

\* A reply tells whether the caller may repeat the operation, and success is real.
THEOREM RepliesAreHonest == Spec => ReplyIsHonest
<1>1. ASSUME IInv, [Next]_vars PROVE \A j \in Jobs : HonestStep(j)
  <2>1. CASE OthersMove
    BY <2>1 DEF OthersMove, controlVars, HonestStep
  <2>2. ASSUME NEW j \in Jobs, JobMoves(j), NEW k \in Jobs PROVE HonestStep(k)
    <3>1. CASE k = j
      BY <1>1, <2>2, <3>1, JobAnswersHonestly
    <3>2. CASE k # j
      BY <2>2, <3>2 DEF JobMoves, Alone, HonestStep
    <3> QED BY <3>1, <3>2
  <2> QED BY <1>1, <2>1, <2>2, StepMoves
<1>2. IInv /\ [Next]_vars =>
        [\A j \in Jobs : reply'[j] # reply[j] =>
           /\ reply'[j] \in {"not_sent", "failed"} => j \notin changed
           /\ reply'[j] = "ok" => /\ pressed # j
                                  /\ IF Mutation(j) THEN j \in changed ELSE ~ended]_vars
  BY <1>1 DEF HonestStep
<1> QED BY Invariant, <1>2, PTL DEF Spec, ReplyIsHonest

\* What a step mounts, and what a step leaves the verification with.
MountStep(j) ==
  /\ at[j] = "mount" /\ mounted' # mounted => mounted'.blocks = work.digest
  /\ at[j] = "verify" /\ at'[j] \in {"mount", "done"} /\ ~work.stealthy =>
       work.digest = NoWork.file /\ work.file = NoWork.file /\ ~work.replaced

\* Two hashed blocks that nobody touched are those of the file that was opened.
LEMMA UntouchedDigest ==
  ASSUME IInv, NEW j \in Jobs, at[j] = "verify", ~work.touched, ~work.stealthy
  PROVE  work.digest = NoWork.file /\ work.file = NoWork.file
<1>1. /\ work.file = NoWork.file /\ Len(work.digest) = 2 /\ work.digest \in Seq(Bits)
      /\ \A i \in 1 .. Len(work.digest) : work.digest[i] = 0
  BY DEF IInv, Typed, Works, FileKept, Uploaded
<1>2. work.digest[1] = 0 /\ work.digest[2] = 0
  BY <1>1
<1>3. work.digest = <<0, 0>>
  BY <1>1, <1>2
<1> QED BY <1>1, <1>3 DEF NoWork

\* Whatever is mounted is whole, and is the file the caller named.
THEOREM MountedFileIsWhole == Spec => MountedIsTheFile
<1>1. ASSUME IInv, [Next]_vars PROVE \A j \in Jobs : MountStep(j)
  <2>1. CASE OthersMove
    BY <2>1 DEF OthersMove, DeviceStores, controlVars, MountStep
  <2>2. ASSUME NEW i \in Jobs, JobMoves(i), NEW j \in Jobs PROVE MountStep(j)
    <3>1. ASSUME at[j] = "mount", mounted' # mounted PROVE mounted'.blocks = work.digest
      <4>1. mounted' = final
        BY <1>1, <2>2, <3>1, JobStoreAlone
      <4> QED BY <1>1, <3>1, <4>1 DEF IInv, FileKept
    <3>2. ASSUME at[j] = "verify", at'[j] \in {"mount", "done"}, ~work.stealthy
          PROVE  work.digest = NoWork.file /\ work.file = NoWork.file /\ ~work.replaced
      <4>1. i = j
        BY <2>2, <3>2 DEF JobMoves, Alone
      <4>2. VerifyMoves(j)
        BY <2>2, <3>2, <4>1
        DEF JobMoves, BeginMoves, TakeGateMoves, GivesUpGate, SendMoves, HIDCallEnds,
            HIDCallMoves, SingleCallEnds, SingleCallMoves, UploadCallEnds, UploadCallMoves,
            FinishHIDMoves, PrepareMoves, TransferMoves, AbortMoves, Calls, HIDCalls
      <4>3. step[j] >= 4 /\ Unchanged(step[j]) /\ step[j] \in Nat
        BY <1>1, <3>2, <4>2 DEF VerifyMoves, Goes, Leaves, Returns, IInv, Typed
      <4>4. ~work.touched /\ ~work.replaced
        BY <4>3 DEF Unchanged
      <4> QED BY <1>1, <3>2, <4>4, UntouchedDigest
    <3> QED BY <3>1, <3>2 DEF MountStep
  <2> QED BY <1>1, <2>1, <2>2, StepMoves
<1>2. IInv /\ [Next]_vars =>
        [\A j \in Jobs :
           /\ at[j] = "mount" /\ mounted' # mounted => mounted'.blocks = work.digest
           /\ at[j] = "verify" /\ at'[j] \in {"mount", "done"} /\ ~work.stealthy =>
                work.digest = NoWork.file /\ work.file = NoWork.file /\ ~work.replaced]_vars
  BY <1>1 DEF MountStep
<1> QED BY Invariant, <1>2, PTL DEF Spec, MountedIsTheFile
=============================================================================
