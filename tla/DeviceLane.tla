----------------------------- MODULE DeviceLane -----------------------------
(***************************************************************************)
(* The operations of one device session: internal/jetkvm/scheduling.go,    *)
(* hid.go and virtual_media.go, with Status and Power of manager.go.       *)
(*                                                                         *)
(* A job is one operation: "keys" and "click" (presses, each with its      *)
(* release), "move" (a single report), "status" (Probes reads), "power"    *)
(* (any single mutation), "upload" or "mount".  Mutations take turns; one  *)
(* RPC at a time holds the generation's rpc gate, which a hid job keeps    *)
(* from its first report to its neutralization.  Who waits is next in any  *)
(* order here: FairGate has the gates' order.                              *)
(*                                                                         *)
(* A call is handed over and answered in two steps; a request handed over  *)
(* while the link is up is decided by the device at once, and its answer   *)
(* may still be late (rpc_session.go is RpcSession).  The media file has   *)
(* two blocks; others write it while it is hashed, uploaded and verified.  *)
(* The size of the file goes the way of its modification time.             *)
(***************************************************************************)
EXTENDS Naturals, Sequences, FiniteSets

CONSTANTS Jobs, NoJob,
          Cases,    \* what meets: the kind of each job ("absent": none), what earlier
                    \* uploads left, and how often others may write the media file
          Keys,     \* presses of a "keys" job
          Probes    \* reads of a status; only the first must succeed

Kinds == {"keys", "click", "move", "status", "power", "upload", "mount", "absent"}

ASSUME LaneConstants ==
  /\ NoJob \notin Jobs
  /\ Cases \subseteq [kind : [Jobs -> Kinds], left : SUBSET {"partial", "final"}, writes : Nat]
  /\ Keys \in Nat \ {0} /\ Probes \in Nat \ {0}

VARIABLES
  kind,          \* what each job does; never changes
  writes,        \* how often others may still write the media file
  at, step,      \* where each job is, and its report, probe or block there
  awaiting,      \* jobs whose request was handed over and not answered
  got,           \* what the device decided on it: "none", "ok", "rejected"
  due, reply,    \* the outcome a job returns after its clean-up; what it returned
  canceled,      \* jobs whose operation context has ended
  turn, gate,    \* holders of the mutation gate and of the rpc gate
  armed,         \* hid jobs that owe the host a neutral report
  link,          \* "up", "down", or "foreign": another session displaced this one
  takenOver, ended,       \* takeover recognized; session context ended
  pressed,       \* the job whose key or button the host sees pressed
  work,          \* the media file and what the media job that has the turn knows
  partial, final, mounted,        \* device storage
  changed,       \* ghost: mutations of which the device accepted a request
  spoiled        \* ghost: jobs whose clean-up did not get through

controlVars == <<at, step, due, reply, turn>>
callVars == <<awaiting, got, gate>>
sessionVars == <<link, takenOver, ended>>
deviceVars == <<pressed, partial, final, mounted, changed>>
vars == <<kind, writes, controlVars, callVars, canceled, armed, sessionVars, work,
          deviceVars, spoiled>>

Nothing == [of |-> NoJob, blocks |-> <<>>]
Old == [of |-> NoJob, blocks |-> <<"old">>]
Presses(j) == CASE kind[j] = "keys" -> Keys [] kind[j] = "click" -> 1 [] OTHER -> 0
HID(j) == kind[j] \in {"keys", "click", "move"}
Media(j) == kind[j] \in {"upload", "mount"}
Mutation(j) == kind[j] \notin {"status", "absent"}

HIDCalls == {"press", "release", "move", "neutral"}
Calls == HIDCalls \cup {"probe", "act", "list", "drop_partial", "drop_final", "start",
                        "mount", "abort_partial", "clean_partial", "clean_final"}

\* The file the job opened: its blocks, and whether since then it was written, or
\* written though its modification time is the same, or replaced at its path.
NoWork ==
  [file |-> <<0, 0>>, touched |-> FALSE, stealthy |-> FALSE, replaced |-> FALSE,
   digest |-> <<>>, uploaded |-> <<>>, present |-> {}, mutated |-> FALSE]

\* The file is closed when the job is over.
Keep(j, w) == work' = IF Media(j) /\ at'[j] = "done" THEN NoWork ELSE w

\* Calls made on a context of their own, which the caller cannot cancel and two
\* seconds end.
Detached(j) == at[j] \in {"neutral", "abort", "abort_partial", "clean_partial", "clean_final"}
Stopped(j) == j \in canceled /\ ~Detached(j)

Init ==
  /\ \E case \in Cases :
       /\ kind = case.kind /\ writes = case.writes
       /\ partial = IF "partial" \in case.left THEN Old ELSE Nothing
       /\ final = IF "final" \in case.left THEN Old ELSE Nothing
  /\ at = [j \in Jobs |-> "new"] /\ step = [j \in Jobs |-> 1]
  /\ awaiting = {} /\ got = [j \in Jobs |-> "none"]
  /\ due = [j \in Jobs |-> "none"] /\ reply = [j \in Jobs |-> "none"]
  /\ canceled = {} /\ turn = NoJob /\ gate = NoJob /\ armed = {}
  /\ link = "up" /\ takenOver = FALSE /\ ended = FALSE
  /\ pressed = NoJob
  /\ work = NoWork
  /\ mounted = Nothing
  /\ changed = {} /\ spoiled = {}

-----------------------------------------------------------------------------
(* Moving on, and returning                                                *)

Goto(j, place, n) ==
  /\ at' = [at EXCEPT ![j] = place] /\ step' = [step EXCEPT ![j] = n]
  /\ UNCHANGED <<due, reply, turn>>

\* The body ends with this outcome; something is left to clean up.
Leave(j, place, outcome) ==
  /\ at' = [at EXCEPT ![j] = place] /\ due' = [due EXCEPT ![j] = outcome]
  /\ UNCHANGED <<step, reply, turn>>

\* classifyTerminalCompletion: a read that a lost session left open has failed.
Outcome(j, outcome) ==
  IF outcome = "unknown" /\ ~Mutation(j) /\ ended THEN "failed" ELSE outcome

Return(j, outcome) ==
  /\ at' = [at EXCEPT ![j] = "done"]
  /\ reply' = [reply EXCEPT ![j] = Outcome(j, outcome)]
  /\ turn' = IF turn = j THEN NoJob ELSE turn
  /\ UNCHANGED <<step, due>>

\* Variant: the first error is returned as it came.
SequenceErrorAsIs(outcome, prior) == outcome

\* mutationSequenceError: after an accepted request nothing is certain any more.
SequenceError(outcome, prior) == IF prior THEN "unknown" ELSE outcome

-----------------------------------------------------------------------------
(* What follows the answer of a call                                       *)

FirstPlace(j) ==
  CASE HID(j) -> "gate" [] Media(j) -> "open" [] kind[j] = "power" -> "act" [] OTHER -> "probe"

\* keyboardReports and mouseCalls: every press is armed before it is sent.
ReportAnswered(j, r) ==
  \/ /\ at[j] = "press"
     /\ IF r = "ok" THEN Goto(j, "release", step[j])
                    ELSE Leave(j, "finish", SequenceError(r, step[j] > 1))
     /\ UNCHANGED armed
  \/ /\ at[j] = "release"
     /\ IF r # "ok" THEN Leave(j, "finish", SequenceError(r, TRUE)) /\ UNCHANGED armed
        ELSE IF step[j] < Presses(j) THEN Goto(j, "press", step[j] + 1) /\ UNCHANGED armed
        ELSE Leave(j, "finish", "ok") /\ armed' = armed \ {j}
  \/ /\ at[j] = "move"
     /\ Leave(j, "finish", r) /\ UNCHANGED armed

\* finishHID's report is answered, or not: the gate is given back.
NeutralAnswered(j) ==
  /\ at[j] = "neutral"
  /\ Return(j, due[j]) /\ armed' = armed \ {j}

\* statusProbeResult: a lost generation or a canceled call loses the whole
\* status; any other failure of a later probe is a warning.
ProbeAnswered(j, r) ==
  /\ at[j] = "probe"
  /\ IF r # "ok" /\ (step[j] = 1 \/ ended) THEN Return(j, r)
     ELSE IF ended \/ j \in canceled THEN \E o \in {"failed"} \cup ({r} \ {"ok"}) : Return(j, o)
     ELSE IF step[j] < Probes THEN Goto(j, "probe", step[j] + 1)
     ELSE Return(j, "ok")

\* uploadLocalMedia up to the transfer: what an earlier upload left is removed.
DropFrom(j, artifacts) ==
  Goto(j, IF "partial" \in artifacts THEN "drop_partial"
          ELSE IF "final" \in artifacts THEN "drop_final" ELSE "start", 1)

BeforeUpload(j, r) ==
  \/ /\ at[j] = "list"
     /\ IF r = "ok"
        THEN LET found == {a \in {"partial", "final"} : (IF a = "final" THEN final ELSE partial) # Nothing}
             IN  DropFrom(j, found) /\ Keep(j, [work EXCEPT !.present = found])
        ELSE Return(j, "not_sent") /\ Keep(j, work)
  \/ /\ at[j] \in {"drop_partial", "drop_final"}
     /\ IF r = "ok"
        THEN DropFrom(j, IF at[j] = "drop_partial" THEN work.present \ {"partial"} ELSE {})
        ELSE Return(j, SequenceError(r, work.mutated))
     /\ Keep(j, [work EXCEPT !.mutated = @ \/ r = "ok"])
  \/ /\ at[j] = "start"
     /\ IF r # "ok" THEN Return(j, SequenceError(r, work.mutated))
        ELSE \/ Goto(j, "transfer", 1)
             \/ \E place \in {"abort", "abort_partial"} : Leave(j, place, "unknown")
     /\ Keep(j, [work EXCEPT !.mutated = @ \/ r = "ok"])

\* Variant: only the partial file is removed.
AfterUploadKeepsFinal(j, r) ==
  \/ /\ at[j] = "mount"
     /\ IF r = "ok" THEN Return(j, "ok") ELSE Leave(j, "clean_partial", SequenceError(r, TRUE))
  \/ at[j] \in {"clean_partial", "clean_final", "abort_partial"} /\ Return(j, due[j])

\* bestEffortDeleteUploadArtifacts: the partial file first, which the device may
\* be about to make the final one.
AfterUpload(j, r) ==
  \/ /\ at[j] = "mount"
     /\ IF r = "ok" THEN Return(j, "ok") ELSE Leave(j, "clean_partial", SequenceError(r, TRUE))
  \/ at[j] = "clean_partial" /\ Goto(j, "clean_final", 1)
  \/ at[j] \in {"clean_final", "abort_partial"} /\ Return(j, due[j])

Answered(j, r) ==
  \/ (ReportAnswered(j, r) \/ NeutralAnswered(j)) /\ UNCHANGED work
  \/ ProbeAnswered(j, r) /\ UNCHANGED <<armed, work>>
  \/ at[j] = "act" /\ Return(j, r) /\ UNCHANGED <<armed, work>>
  \/ AfterUpload(j, r) /\ Keep(j, work) /\ UNCHANGED armed
  \/ BeforeUpload(j, r) /\ UNCHANGED armed

-----------------------------------------------------------------------------
(* What the device does with a request it accepts                          *)

Present(j) == IF at[j] \in {"drop_final", "clean_final"} THEN final # Nothing ELSE partial # Nothing

\* Requests the device cannot carry out are rejected; it may reject any other.
Possible(j) ==
  CASE at[j] \in {"drop_partial", "drop_final", "clean_partial", "clean_final", "abort_partial"} -> Present(j)
    [] at[j] = "mount" -> final # Nothing
    [] OTHER -> TRUE

Deletes(j, places, file) == IF at[j] \in places THEN Nothing ELSE file

Effect(j) ==
  /\ pressed' = CASE at[j] = "press" -> j
                  [] at[j] \in {"release", "neutral"} /\ pressed = j -> NoJob
                  [] OTHER -> pressed
  /\ partial' = IF at[j] = "start" THEN [of |-> j, blocks |-> <<>>]
                ELSE Deletes(j, {"drop_partial", "clean_partial", "abort_partial"}, partial)
  /\ final' = Deletes(j, {"drop_final", "clean_final"}, final)
  /\ mounted' = IF at[j] = "mount" THEN final ELSE mounted
  /\ changed' = IF at[j] \in {"press", "move", "act", "drop_partial", "drop_final", "start", "mount"}
                THEN changed \cup {j} ELSE changed

\* The device's own part of an upload: a whole file replaces the partial one.
DeviceStores ==
  /\ Len(partial.blocks) = 2
  /\ final' = partial /\ partial' = Nothing
  /\ UNCHANGED <<controlVars, callVars, canceled, armed, sessionVars, work, pressed, mounted, changed, spoiled>>

-----------------------------------------------------------------------------
(* One call                                                                *)

\* Variant: a hid job gives the gate back after every report.
KeepsGateNever(j) == FALSE

\* run holds the gate for a whole hid operation; Call takes it for one call.
KeepsGate(j) == HID(j) /\ at'[j] # "done"

\* The gate is handed to a waiter whose context still lives.
TakeGate(j) ==
  /\ gate = NoJob /\ at[j] \in Calls \cup {"gate"} /\ ~Stopped(j)
  /\ gate' = j
  /\ IF at[j] = "gate"
     THEN /\ Goto(j, IF Presses(j) = 0 THEN "move" ELSE "press", 1)
          /\ armed' = IF Presses(j) = 0 THEN armed ELSE armed \cup {j}
     ELSE UNCHANGED <<controlVars, armed>>
  /\ UNCHANGED <<awaiting, got, canceled, sessionVars, work,
                 deviceVars, spoiled>>

Spoil(j, unfinished) == spoiled' = IF unfinished THEN spoiled \cup {j} ELSE spoiled

\* acquire or Call gives up before the request is handed over.
NotSent(j) ==
  /\ at[j] \in Calls \cup {"gate"} /\ j \notin awaiting
  /\ IF gate = j THEN ended \/ Stopped(j) ELSE Stopped(j) \/ Detached(j)
  /\ IF at[j] = "gate" THEN Return(j, "not_sent") /\ UNCHANGED <<armed, work>>
                       ELSE Answered(j, "not_sent")
  /\ gate' = IF gate = j /\ ~KeepsGate(j) THEN NoJob ELSE gate
  /\ got' = [got EXCEPT ![j] = "none"]
  /\ Spoil(j, Detached(j))
  /\ UNCHANGED <<awaiting, canceled, sessionVars, deviceVars>>

Send(j) ==
  /\ gate = j /\ at[j] \in Calls /\ j \notin awaiting /\ ~ended /\ ~Stopped(j)
  /\ awaiting' = awaiting \cup {j}
  /\ \/ /\ link = "up" /\ Possible(j)
        /\ Effect(j) /\ got' = [got EXCEPT ![j] = "ok"] /\ UNCHANGED spoiled
     \/ /\ got' = [got EXCEPT ![j] = IF link = "up" THEN "rejected" ELSE "none"]
        /\ Spoil(j, Detached(j) /\ Possible(j))
        /\ UNCHANGED deviceVars
  /\ UNCHANGED <<controlVars, gate, canceled, armed, sessionVars, work>>

\* The answer arrives, or the request's deadline or the session's end does.
Answer(j) ==
  /\ j \in awaiting
  /\ \E r \in {"ok", "failed", "unknown"} :
       /\ r = "ok" => got[j] = "ok"
       /\ r = "failed" => got[j] = "rejected"
       /\ Answered(j, r) /\ got' = [got EXCEPT ![j] = "none"]
  /\ awaiting' = awaiting \ {j}
  /\ gate' = IF KeepsGate(j) THEN gate ELSE NoJob
  /\ UNCHANGED <<canceled, sessionVars, deviceVars, spoiled>>

\* Variant: a job that owes nothing leaves with the gate.
FinishHIDWithGate(j) ==
  /\ at[j] = "finish"
  /\ IF takenOver \/ j \notin armed
     THEN Return(j, due[j]) /\ armed' = armed \ {j} /\ UNCHANGED gate
     ELSE Goto(j, "neutral", 1) /\ UNCHANGED <<armed, gate>>
  /\ UNCHANGED <<awaiting, got, canceled, sessionVars, work, deviceVars, spoiled>>

\* After a recognized takeover nothing more is sent; otherwise what is armed is
\* released before the gate.
FinishHID(j) ==
  /\ at[j] = "finish"
  /\ IF takenOver \/ j \notin armed
     THEN Return(j, due[j]) /\ armed' = armed \ {j} /\ gate' = NoJob
     ELSE Goto(j, "neutral", 1) /\ UNCHANGED <<armed, gate>>
  /\ UNCHANGED <<awaiting, got, canceled, sessionVars, work,
                 deviceVars, spoiled>>

-----------------------------------------------------------------------------
(* Taking a turn, preparing the file, transferring and verifying it         *)

localVars == <<callVars, canceled, armed, sessionVars, spoiled>>

\* RunPrepared: the mutation gate, and, when the session has ended, its refusal.
Begin(j) ==
  /\ at[j] = "new" /\ kind[j] # "absent"
  /\ \/ /\ j \notin canceled /\ (turn = NoJob \/ ~Mutation(j))
        /\ at' = [at EXCEPT ![j] = FirstPlace(j)]
        /\ turn' = IF Mutation(j) THEN j ELSE turn
        /\ UNCHANGED <<step, due, reply>>
     \/ (j \in canceled \/ ended) /\ Return(j, "not_sent")
  /\ UNCHANGED <<localVars, work, deviceVars>>

\* openMediaFile and the first hash; a caller that left is told not_sent.
Prepare(j) ==
  /\ at[j] \in {"open", "hash"}
  /\ \/ j \in canceled /\ Return(j, "not_sent") /\ Keep(j, work)
     \/ at[j] = "open" /\ Goto(j, "hash", 1) /\ UNCHANGED work
     \/ /\ at[j] = "hash"
        /\ IF step[j] = 1 THEN Goto(j, "hash", 2) ELSE Goto(j, "list", 1)
        /\ work' = [work EXCEPT !.digest = Append(@, work.file[step[j]])]
  /\ UNCHANGED <<localVars, deviceVars>>

Discard(j) == Leave(j, "clean_partial", "unknown")

\* Session.Upload: HTTP, beside the rpc gate.  The file is read as it is sent.
Transfer(j) ==
  /\ at[j] = "transfer"
  /\ \/ Discard(j) /\ UNCHANGED <<work, partial>>
     \/ /\ step[j] <= 2 /\ j \notin canceled
        /\ work' = [work EXCEPT !.uploaded = Append(@, work.file[step[j]])]
        /\ partial' = IF partial.of = j THEN [partial EXCEPT !.blocks = Append(@, work.file[step[j]])]
                                       ELSE partial
        /\ Goto(j, "transfer", step[j] + 1)
     \/ /\ step[j] = 3 /\ final.of = j
        /\ IF work.uploaded = work.digest THEN Goto(j, "verify", 1) ELSE Discard(j)
        /\ UNCHANGED <<work, partial>>
  /\ UNCHANGED <<localVars, pressed, final, mounted, changed>>

\* abortStartedUpload: an empty upload ends the one that was started.
Abort(j) ==
  /\ at[j] = "abort"
  /\ Goto(j, "abort_partial", 1)
  /\ UNCHANGED <<localVars, work, deviceVars>>

\* Variant: the path is not opened once more.
UnchangedOnce(n) ==
  CASE n \in {2, 3} -> work.file[n - 1] = work.digest[n - 1]
    [] OTHER -> n = 1 => ~work.touched /\ ~work.replaced

\* verifyMediaFileUnchanged: the path is opened and compared, hashed, and opened
\* and compared once more.
Unchanged(n) ==
  CASE n \in {2, 3} -> work.file[n - 1] = work.digest[n - 1]
    [] OTHER -> ~work.touched /\ ~work.replaced

Verify(j) ==
  /\ at[j] = "verify"
  /\ IF j \in canceled \/ ~Unchanged(step[j]) THEN Discard(j)
     ELSE IF step[j] < 4 THEN Goto(j, "verify", step[j] + 1)
     ELSE IF kind[j] = "mount" THEN Goto(j, "mount", 1)
     ELSE Return(j, "ok")
  /\ Keep(j, work)
  /\ UNCHANGED <<localVars, deviceVars>>

-----------------------------------------------------------------------------
(* The others                                                              *)

othersVars == <<controlVars, callVars, armed, spoiled>>

\* The caller's deadline, or the owner's reaction to a loss or a stop.
Cancel(j) ==
  /\ at[j] # "done" /\ kind[j] # "absent" /\ canceled' = canceled \cup {j} /\ j \notin canceled
  /\ UNCHANGED <<othersVars, sessionVars, work, deviceVars>>

LinkFails ==
  /\ link = "up" /\ link' = "down"
  /\ UNCHANGED <<othersVars, canceled, takenOver, ended, work, deviceVars>>

\* The firmware gives the device to another session and clears its HID state (ADR 0008
\* lines 15 and 194-195, docs/protocol-sources.md line 22; the reason FinishHID is silent).
Displaced ==
  /\ link = "up" /\ link' = "foreign" /\ pressed' = NoJob
  /\ UNCHANGED <<othersVars, canceled, takenOver, ended, work,
                 partial, final, mounted, changed>>

\* recognizeTakeover stores the flag before it cancels the session.
RecognizeTakeover ==
  /\ link = "foreign" /\ ~ended /\ ~takenOver /\ takenOver' = TRUE
  /\ UNCHANGED <<othersVars, canceled, link, ended, work, deviceVars>>

\* A failed link, a recognized takeover, or the owner's stop.
SessionEnds ==
  /\ ~ended /\ ended' = TRUE
  /\ UNCHANGED <<othersVars, canceled, link, takenOver, work, deviceVars>>

\* A write in place, or a file put in the path's place; one that restores the
\* modification time is stealthy.
WriteFile ==
  /\ writes > 0 /\ writes' = writes - 1
  /\ \E j \in Jobs : at[j] \in {"hash", "list", "drop_partial", "drop_final", "start",
                              "transfer", "verify"}
  /\ \/ work' = [work EXCEPT !.replaced = TRUE]
     \/ \E hidden \in BOOLEAN, b \in {1, 2} :
          work' = [work EXCEPT !.file[b] = 1 - @,
                               !.touched = @ \/ ~hidden, !.stealthy = @ \/ hidden]
  /\ UNCHANGED <<othersVars, canceled, sessionVars, deviceVars>>

JobStep(j) ==
  \/ Begin(j) \/ TakeGate(j) \/ NotSent(j) \/ Send(j) \/ Answer(j) \/ FinishHID(j)
  \/ Prepare(j) \/ Transfer(j) \/ Abort(j) \/ Verify(j)

Done == (\A j \in Jobs : kind[j] = "absent" \/ at[j] = "done") /\ UNCHANGED vars

Next ==
  /\ \/ WriteFile
     \/ /\ \/ \E j \in Jobs : JobStep(j) \/ Cancel(j)
           \/ DeviceStores \/ LinkFails \/ Displaced \/ RecognizeTakeover \/ SessionEnds
           \/ Done
        /\ UNCHANGED writes
  /\ UNCHANGED kind

Spec == Init /\ [][Next]_vars

-----------------------------------------------------------------------------
(* Properties                                                              *)

Places == {"new", "gate", "finish", "open", "hash", "transfer", "abort", "verify", "done"} \cup Calls
Outcomes == {"none", "ok", "not_sent", "failed", "unknown"}

\* The state stays in its type; only a job under way holds a gate or awaits an
\* answer, and only a job that has returned has a reply.
TypeOK ==
  /\ at \in [Jobs -> Places] /\ step \in [Jobs -> Nat]
  /\ got \in [Jobs -> {"none", "ok", "rejected"}]
  /\ {due, reply} \subseteq [Jobs -> Outcomes]
  /\ {turn, gate, pressed} \subseteq Jobs \cup {NoJob}
  /\ awaiting \cup canceled \cup armed \cup changed \cup spoiled \subseteq Jobs
  /\ link \in {"up", "down", "foreign"} /\ {takenOver, ended} \subseteq BOOLEAN
  /\ \A j \in Jobs : (at[j] = "done") = (reply[j] # "none")
  /\ \A j \in Jobs : at[j] \in {"new", "done"} => j \notin {turn, gate} \cup awaiting \cup armed

\* HID and scheduling safety: one RPC is outstanding at a time, and it belongs to
\* the holder of the gate.  While a key or button is down the job that pressed it
\* holds the gate, so that no read comes between the press and its release, and
\* it is armed to release it; otherwise the host is neutral, whoever canceled or
\* failed, unless the device or the link did not take the release.
HIDIsolated ==
  /\ awaiting \subseteq {gate}
  /\ pressed # NoJob =>
       (gate = pressed /\ pressed \in armed) \/ pressed \in spoiled

\* The job returned as soon as it failed: nothing was started that it knew of.
NoCleanUp(j) == due[j] = "none"

\* An upload that fails leaves nothing on the device, whatever part of it went
\* wrong and however the device's own end of the transfer is timed, unless a
\* clean-up call did not get through.  The exception is in the code: a start whose
\* answer is lost is returned with no clean-up (virtual_media.go 192-194, though ADR
\* 0004 promises one when the negotiation is ambiguous), and then an empty partial
\* file may stay.
LeftoversRemoved ==
  \A j \in Jobs : reply[j] \notin {"none", "ok"} /\ j \notin spoiled =>
    /\ final.of # j
    /\ partial.of = j => NoCleanUp(j) /\ partial.blocks = <<>>

\* A retry is safe when the reply says so, and success is real: not_sent and
\* failed are the replies of jobs of which the device accepted nothing; a job
\* that is ok had its requests accepted and its keys released, and a status that
\* is ok is of a generation that was alive to its last probe.
ReplyIsHonest ==
  [][\A j \in Jobs : reply'[j] # reply[j] =>
       /\ reply'[j] \in {"not_sent", "failed"} => j \notin changed
       /\ reply'[j] = "ok" => /\ pressed # j
                              /\ IF Mutation(j) THEN j \in changed ELSE ~ended]_vars

\* What is mounted is the file the caller named: the whole of what was hashed
\* first, and, unless somebody wrote it in place and hid that, the file as it was
\* when it was opened and still is when the verification ends.
MountedIsTheFile ==
  [][\A j \in Jobs :
       /\ at[j] = "mount" /\ mounted' # mounted => mounted'.blocks = work.digest
       /\ at[j] = "verify" /\ at'[j] \in {"mount", "done"} /\ ~work.stealthy =>
            work.digest = NoWork.file /\ work.file = NoWork.file /\ ~work.replaced]_vars
=============================================================================
