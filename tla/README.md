# Verification of jetkvm-mcp

TLA+ models of the parts of this server whose correctness is a matter of
interleavings, failures and order: the owner of a device's one WebRTC
connection, the gate that orders mutations, the JSON-RPC session on the data
channel, the video stream a screenshot is taken from, the key sequences and
uploads that share one session, and the way the process admits calls and shuts
down. TLC checks them on small instances; TLAPS proves the safety results, with
one exception named in section 4, for every value of the constants.

## 1. The system

`jetkvm-mcp` is one process that offers MCP tools over stdio or HTTP and drives
JetKVM appliances over WebRTC. A JetKVM serves one operator at a time: opening a
connection displaces whoever has one, and any other operator displaces us.
Ownership of a device is therefore the program's central state.

| Part | State | Operations | Talks to |
|---|---|---|---|
| Manager (`manager.go`) | admission latch and counters per device, decoder workers, closed flag | one method per tool, ReleaseSession, TakeOverSession, Close | owners (calls), mcpserver (called by) |
| Device owner (`device_owner.go`) | ownership, attempt, generation, cleanup, validation, workers and queue, idle timer; all local to one goroutine | RunPrepared, ReleaseContext, TakeOverContext, Close | callers, attempt, operation, watcher, cleanup and validation goroutines through one unbuffered command channel |
| Fair gate (`scheduling.go`) | held flag, waiter queue | acquire, release | the mutation lane of an owner; the RPC, capture and session lanes of a generation |
| HID sequences (`scheduling.go`, `hid.go`) | what is pressed, who holds the RPC gate | press, release, neutralize | RPC session |
| Session (`provider.go`) | context, pumps, takeover flag | connect, Call, Upload, CaptureH264, Close | RPC session, video receiver, pion callbacks |
| RPC session (`rpc_session.go`, `rpc_codec.go`) | pending table, send gate | Call, HandleMessage, Close | data channel |
| Video (`video_receiver.go`, `video.go`) | one waiter, generation, watermark, reassembly window | push, Capture, Close | RTP pump, capture |
| Capture (`capture.go`, `decoder_ffmpeg.go`) | decoder workers | capture, decode | video, ffmpeg |
| Virtual media (`virtual_media.go`) | upload in progress on the device | upload, mount, unmount, clean-up | RPC session, HTTP |
| Telemetry (`telemetry/recorder.go`) | event queue, terminal queue, drop counter | Record, Close | writer |
| MCP server (`mcpserver/`) | per request | decode, dispatch, format | Manager |
| Process (`cmd/jetkvm-mcp`) | shutdown budget | start, drain, close | all |

What is hard: commands of many goroutines reach the owner in any order and are
acted on after the world has changed; the session may be lost or taken over at
any step; a close may time out and leave a session that nobody has joined;
timers fire after they were stopped; callers are canceled at every point.
`PROJECT.json` lists each hazard at its line, with the property that watches it.

Correctness, per part. *Gate*: exclusive, never lost, first come first served.
*Owner*: one connection at most, none forgotten, ownership moves only as ADR 0008
allows, every waiter is answered once, an outcome never denies a dispatched
mutation, an unused connection expires, Close joins everything. *RPC session*:
one true answer per call, bounded table without leaks, nobody left waiting.
*HID*: no key stays down. *Video*: one result per waiter, frames no older than
asked. *Upload*: the file mounted is the file checked, a failed upload is removed.
*Telemetry*: every event is written or counted. *Shutdown*: ends within its budget,
nothing runs after it.

## 2. Modules

| Module | Models | Lines of the source |
|---|---|---|
| `FifoGate` | abstract: what the gate promises | - |
| `FairGate` | `fairGate` | `scheduling.go` 32-91 |
| `FairGateProofs` | theorems about it | - |
| `Ownership` | abstract: what the owner of a device promises | - |
| `DeviceOwner` | `deviceOwner` with its goroutines and callers | `device_owner.go`, admission latch of `manager.go` |
| `MCDeviceOwner` | symmetry for TLC | - |
| `DeviceOwnerProofs` | theorems about it: types, slots, sessions | - |
| `OwnershipProofs` | theorems about it: ownership, the replies of lifecycle calls, refinement of `Ownership` | - |
| `OwnerCallsProofs` | theorems about it: calls, workers, the queue, the idle lease, Close | - |
| `RpcCall` | abstract: what a call promises | - |
| `RpcSession` | `rpcSession` | `rpc_session.go`, `rpc_codec.go` |
| `RpcSessionProofs` | theorems about it | - |
| `H264Stream` | `h264Stream`, as operators on a record | `video.go` |
| `VideoSession` | the video side of a `connectedSession`: connect, pumps, captures, Close; over `H264Stream` | `provider.go`, `video_receiver.go` |
| `MCVideoSession` | the frames sent, for TLC | - |
| `VideoSessionProofs` | theorems about `VideoSession` and the operators of `H264Stream` | - |
| `DeviceLane` | the operations of one session: HID sequences, Status, Power, uploads and mounts | `hid.go`, `scheduling.go`, `virtual_media.go`, parts of `manager.go`, `provider.go` |
| `MCDeviceLane` | which operations meet, for TLC | - |
| `DeviceLaneProofs` | theorems about it | - |
| `ManagerAdmission` | the Manager's permits, latches, decoders and Close | `manager.go`, `capture.go` |
| `TelemetryRecorder` | `Recorder` | `telemetry/recorder.go` |
| `ProcessShutdown` | one process to its exit; composes the two above | `cmd/jetkvm-mcp/main.go`, the tool middleware of `server.go` |
| `MCProcessShutdown` | which calls meet under which limits, for TLC | - |
| `ProcessShutdownProofs` | theorems about it | - |

The modules fit together along the calls of the code: `ProcessShutdown` takes an
operation at an owner as a step that ends when it likes, which `DeviceOwner`
details; `DeviceOwner` takes an operation as one RPC, which `DeviceLane` details
as sequences; and `DeviceLane` takes a call as handed over and answered, which
`RpcSession` shows `rpcSession.Call` to be. The gates `DeviceOwner` and
`DeviceLane` share are `FairGate`.

### FairGate

`acquire` splits where the lock is given up: `Arrive` (fast path or enqueue),
then the select on the waiter's channel and the context, then the second lock of
a canceled waiter, which either withdraws or finds that it was popped and must
wait for the channel and pass the gate on. `release` splits between the unlock
and `close(waiter.ready)`. A caller uses the gate once. `ImplementsFifoGate` maps
the gate's state to a queue and a holder; the holder is whoever the token is on
its way to, also when that waiter was canceled.

### DeviceOwner

The loop takes one command at a time; a command and its handler, with
`finishIfStopped` after it, are one action. Goroutines are places: `attempt.phase`
(`runAttempt`), `worker[c]` (`runOperation`), `watching`/`late` (`watchGeneration`),
`validators` (`runValidation`), `cleanup` (`runCleanup`), `timer`/`stray` (`afterFunc`
and expiries `Stop` came too late for), `pc[c]` (`RunPrepared`, from the Manager's
admission through the gate to the deferred demand decrement). What a goroutine
computed before it sends its command is a step of its own when the loop's view
may differ by then (`FailConnect`, `FinishConnect`, `CloseFailedSetup`,
`EndOperation`).

| Command | Actions |
|---|---|
| registerOwnerWorker | `RefuseWorker`, `RegisterAndConnect`, `RegisterAndQueue`, `RegisterAndStart` |
| cancelOwnerWorker | `CancelWorker` |
| completeOwnerAttempt | `FailAttempt`, `ActivateAttempt`, `OrphanAttempt` |
| completeOwnerWorker | `CompleteWorker` |
| ownerGenerationEnded | `EndGeneration`, `IgnoreGenerationEnd` |
| ownerTakeoverRecognized | `LateTakeover` |
| ownerIdleExpired | `IdleExpired`, `StrayExpired` |
| ownerDemandChanged | `NotifyDemand` |
| completeOwnerCleanup | `FailCleanup`, `FinishCleanup` |
| releaseOwnerSession, takeOverOwnerSession | `ReleaseSession`, `TakeOverSession` |
| completeOwnerValidation | `FinishValidation` |
| stopDeviceOwner | `StopOwner` |

The environment opens sessions, loses them, announces takeovers, ends contexts
and refuses connection permits at will. An operation is one RPC, in the two steps
`rpcSession.Call` makes of it: `PassSendCheck` looks at its context and at the session
for the last time, `SendRPC` hands over, with no look in between. The owner cancels
the operations of a generation that ends through `context.AfterFunc`, a goroutine of
its own, so an operation that passed, or passes before that goroutine runs, may send
while the session is being closed; a closed session takes nothing. The outcome is one of
those `RpcCall` allows. The mutation lane is taken
as `FairGate` proves it to be: exclusive, and given up by every caller (its order
is not used).

`Ownership` is what all of this is for, in one page: the device is idle, connecting,
active, closing or left unjoined by a close that failed; it holds one generation at a
time and lets go of it only when its session is closed; it is active only with a
session that was opened; operations start only then (`Start`), and an RPC is handed
over only by an operation that started on the session held, until that is joined
(`Send`); and a state that was taken over, uncertain or released leads to another
connection only while a takeover is served. It does not promise silence from the moment
a generation ends: the code does not keep that, see above.
`Phase`, `Held`, `Asked` and `Serving` read it off the loop's variables and the
workers. Nor does it promise what section 3 shows false (that a recognized takeover is always latched),
and with `MayForget`, which is `MayPanic`, it lets a failed attempt forget a session
(section 5). Snapshots, health, telemetry and the panic path of an operation
beyond its result are left out.

### RpcSession

A call registers (`Register`), encodes (`Marshal`), waits for the send gate
(`TakeGate`, `LeaveQueue`), looks at both contexts again (`CheckAgain`), sends
(`HandOver`, `SendReturns`: the device may answer, or act, before `SendText`
returns and also when it fails) and waits (`Receive`, `StopWaiting`).
`HandleMessage` takes the entry out under the lock (`TakeMessage`) and fills the
caller's channel after it (`Deliver`); `Close` cancels, swaps the table, fills
the channels one by one (`BeginClose`, `Swap`, `Drain`). The session's context
ends by itself with the connection or a takeover (`EndSession`). Responses may
repeat, come late or be invalid. A message without a usable number has no effect
and is not modelled; encoding and parsing count only by their result. The model does
not assume that a generation's RPC lane lets one call through at a time: pings
of the attempt and of a takeover's validation reach the session beside it. Under
`Promise` a request is handed over when `SendText` is called.

### H264Stream and VideoSession

`videoReceiver` works under one mutex, so one packet is one step (`Observe`), and
what it does to the stream is the value of an operator: `Drain` when nobody waits,
`Push` when a capture does. The operators keep the code's three pieces of memory,
the unit being drained, the unit pending, and the anchor that says with which
sequence number the next unit must begin, with every branch that sets or clears
them. Sequence numbers wrap at `SeqSpace` and are compared by the same modular
differences as the `uint16` arithmetic. A parameter set is named by the access unit
that brought it, a picture by its packets; bytes, the byte limits (which end where
the packet limit ends) and the syntax of NAL units are left out. The code's constant
64 bounds the reorder window in packets and the remembered units in units; the model
scales the two separately, since TLC's frames are few and short.

`VideoSession` sends `Frames` once, loses up to `MaxLoss` packets in a row, delivers the
others in any order within `MaxDelay` (a packet may be overtaken by that many places of
the stream), repeats one, damages one or makes the 200 ms expiry due, within
`MaxFaults`. A capture takes the slot, asks for a key frame outside the lock, and
leaves by its answer or, in two steps, by its context. `Close` seals under the pump
lock, tears down, and joins. `handleTrack` may come at any time the peer lives.

### DeviceLane

A job is one operation on one session; `Send` and `Answer` are the two halves of a
call, and the device decides on a request when it is handed over. A HID job holds
the RPC gate from its first report until `finishHID` is done; its neutral report is
a call on a context of its own, armed before the press is sent, so that it may go
out although the press was not. An upload is the sequence of `uploadLocalMedia`:
list, drop what is left of earlier uploads, start, transfer, verify, mount, with
`bestEffortDeleteUploadArtifacts` and `abortStartedUpload` where the code calls
them. The device renames a complete upload in its own time (`DeviceStores`), and
others write or replace the file at any moment (`WriteFile`). Mount by URL, unmount
and Power are one kind, a single mutation. Who waits for a gate is served in any
order; the capture gate, and the session-wide gate that no profile in use selects,
are left out. That the firmware clears what is pressed when another session displaces
ours (`Displaced`) is what ADR 0008 (15, 194-195) and `docs/protocol-sources.md` (22)
say of it, and why `finishHID` sends nothing after a recognized takeover; `HIDIsolated`
holds on that assumption.

### ManagerAdmission, TelemetryRecorder, ProcessShutdown

A permit channel is the number of its tokens. `withScheduledOperation` holds
`admission.mu` over both acquires, and the model splits it there (`TakeOperation`,
`TakeDevice`) because the global permits and the closed flag are not under that
mutex; the deferred releases are one step each, in their order. `beginDecoder`
reads the flag and raises the WaitGroup in one step, as `workMu` makes it.

The recorder's producers never wait: an event goes to the first queue, a tool event
to the second when the first is full, and else to the counter. The closed flag is
read in one step (`StartRecording`), the event queued in a later one. The writer
prefers the first queue, drains both when the flush reaches it, and writes one
summary. Whether a write fails only changes the text of the summary.

`run` is a sequence of places of `main`. On HTTP `Signal` starts Manager.Close
beside the drain; on stdio serving just ends. Either way Manager.Close is called
once more, then the shutdown event is recorded and the recorder closed with one more
second (`FlushEnds`). `main` then exits, or first writes the error of `run` to
`os.Stderr` (`ReportError`), which nothing bounds; on stdio a signal is such an error.
That Serve returns when its listener is closed is taken from the library. Release and takeover record no tool event, as in the middleware.

## 3. What is checked

Every passing run explores its whole state space.

| Run | Instance | Shows |
|---|---|---|
| `fair_gate` | 3 callers | type, mutual exclusion, token conserved, no lost wake-up, no starvation, refines `FifoGate` |
| `owner_calls` | 2 reads, 1 Close | callers and workers pair up, Close joins everything, an unused connection has its idle timer |
| `owner_lifecycle` | 1 mutation, Release, TakeOver, 2 Closes, panics | one slot, ownership matches what is held and nothing in use is closed as idle, queue has a driver, one reply per lifecycle call, honest completions, refines `Ownership` |
| `owner_liveness` | 1 read, TakeOver, Close | sessions accounted for; calls, lifecycle calls and Close end |
| `rpc_session` | 2 calls, a table of 1 | each call in one hand, table live and bounded, contexts wake every waiter, refines `RpcCall` |
| `video_session` | 2 captures, 5 units of 1 to 3 packets, 3 of them remembered, numbers wrapping at 16 from 13, one fault | frames whole and fresh, parameter sets never go back, every capture served, Close joins both pumps and releases the captures |
| `device_lane` | 2 jobs in 17 pairings, 2 presses, 2 probes, 2 blocks, up to 2 writes | one RPC at a time, no key or button stays down, of a failed upload at most an empty partial file left, and that only where its start went unanswered, replies true, mounted is what was checked |
| `process_shutdown` | 2 calls in 5 pairings, 2 devices, permits of 1 or 2, queues of 1 | permits exact, lifecycle exclusive, Close joins, no event lost, the process exits or has an error to write |

Bounds. Two calls meet in every way the owner treats calls differently: first and
last waiter of an attempt, a caller joining an attempt or a cleanup, two workers of
a generation. One of each lifecycle call and two Closes meet every reply field of
the cleanup; a second takeover would be refused by the Manager's latch. Generation
numbers grow with the calls, and are bounded by them. For the RPC session a table
of one is full after one call, and the gate is contended when the device answers
a request before its send returns; the theorems lift both bounds. `IdleLeaseRuns`
is checked without takeovers, because with one it fails (below), and
`SessionsAccountedFor` without panics, see section 5.

In `video_session` a unit that lacks parameter sets, two that bring them, and a
picture of two slices of which one is in two fragments make every branch of the
assembly that the properties depend on happen: an unanchored unit, a unit that ends
without its marker, a fragment out of order, a unit beyond `MaxPackets`. The receiver
remembers three units of the five, so that it forgets units while their stream still
runs. A packet may be overtaken by two places, the size of the window. The memory must
exceed the reordering: a packet so late that its unit has been forgotten cannot be told
from one of a new unit, with 64 units as with 3, and with a memory of two units TLC finds
late packets that bring old parameter sets back (`ParametersAdvance`). One packet in a
row may be lost (`MaxLoss`); `VideoSessionProofs` has any number. In `device_lane` a case is a
pair of operations with what an earlier upload left behind; a third job would only
wait for a gate one of the two holds. `process_shutdown` chooses its pairs so that
each permit is contended once: device, capture and decoder, latch against capture,
latch against latch, one global permit for two devices; the theorem lifts these
bounds. The events of one of the two calls are followed, which fills queues of one.

Deadlock checking is on for `device_lane` and `process_shutdown`, whose last states
repeat. It is off elsewhere: every call is made once, so the system stops when all
have returned.

Fairness. Goroutines that can step do (`WF` per caller, operation, attempt,
cleanup, watcher, validation, timer). Connect, ping, operation and
`session.Close` all run under a deadline, so their end is fair whichever way they
end; that a context ends, a session is lost, a device answers or Close is called
is never assumed. In `RpcSession` only callers are fair: `ContextsWake` needs
neither the device nor the deadline of another call. In `FairGate` a holder
releases, as every deferred release does. In `VideoSession` the goroutines of Close
and of a capture that can step do, and a pump whose connection Close has closed sees
its read fail; no capture gives up and no packet comes by fairness. In
`ProcessShutdown` only `main`, the goroutines of Manager.Close and the deadlines are
fair: a call, an owner, a decoder, a connection of the listener and the sink of the
telemetry may each hang for ever. `ShutdownEnds` says that all the same the process exits
or comes to the write of an error; that write is not fair either, so when it has
something to report to a sink that hangs, the process stays (below).

Every property is paired in `PROJECT.json` with a plausible slip in one
definition under which it fails.

### Disagreements with the documents

Four runs end in a counterexample, each against a sentence of ADR 0008; two more
disagreements are the exceptions that two properties of passing runs name.

1. `idle_lease_lost`: a TakeOver of an active, unused generation stops the idle
   timer before its ping; if the ping fails while the session lives, nobody arms
   it again and the connection stays.
2. `canceled_by_another`: the last waiter of an attempt cancels it; a caller that
   registers before the attempt ends joins it and is told it was canceled.
3. `not_sent_after_stop`: a canceled caller of a dispatched mutation returns its
   context's error as `not_sent` (`device_owner.go` 384) if the loop has ended when it turns to cancel, although its worker's
   answer, `unknown`, lies in its channel.
4. `takeover_closed_idle`: the idle expiry reaches the loop before the watcher's
   command for a takeover already recognized; the cleanup looks for a takeover only
   when its target is `uncertain`, so the device ends `idle` and the next operation
   connects and displaces the operator.
5. `LeftoversRemoved`, in `device_lane`: ADR 0004 (25-28) says that when negotiation is
   ambiguous, cleanup contexts release the upload and delete the partial and completed
   artifacts. When the answer to `startStorageFileUpload` is lost, which is ambiguous,
   `uploadLocalMedia` returns `unknown` and cleans nothing up (`virtual_media.go`
   192-194), so the partial file of a started upload stays until the next upload of that
   name removes it. The property excepts exactly this return, and says what may then be
   left: an empty partial file, never a completed one.
6. `ShutdownEnds`, in `process_shutdown`: `docs/telemetry.md` (48-50) says of a sink
   that blocks that "the one-second application close deadline still bounds shutdown".
   It bounds the flush; but `main` then writes the error of `run` to the same
   `os.Stderr` before `os.Exit` (`main.go` 76-79), and a signal on stdio is such an
   error. The property ends there, and not at the exit, because of this write.

## 4. What is proved

Each theorem holds for every value of the constants, from the named assumptions
of its module (TLC evaluates them in the runs) and, where it says so, one
hypothesis more. The model's assumptions are about its parameters: lifecycle calls
are distinct and the nil reply is none of them (`CallsAssumption`), a table, a
queue or a permit count is at least one (`RequestsAssumption`, `QueueConstant`,
`AdmissionConstants`), the flush is no event (`FlushIsNoEvent`: it is another kind
of queue entry in the code), `Frames` is a stream of packets of the four kinds of
place in a fragmented unit (`FramesConstant`).

- **FairGateProofs**: `TypeCorrect`, `TokenIsConserved`, `GateIsExclusive`,
  `WakeupIsCertain`, `FairGateIsFifo`. The invariant follows the token: free, with
  one holder, or with one waiter that was popped; and says that the queue holds
  exactly the callers that wait and were not popped. Exclusion, the wake-up and the
  refinement follow from it. `MutualExclusion` alone is not inductive: it does not
  say who was popped and not yet woken.
- **DeviceOwnerProofs**: `TypeCorrect`, `SlotsExclusive`, `SessionsAreAccountedFor`.
  Some forty actions touch the three slots in few ways: `StepMoves` shows once,
  action by action, that a step leaves the slots alone, connects, closes the
  generation, joins a cleanup or advances the attempt. The invariants are then
  preserved by these moves. `OneSlot` needs the strengthening that numbers of
  attempts and generations are positive and not above `lastGen`, and that watchers
  and validators have a number. `SessionsAccountedFor` assumes `~MayPanic`.
- **OwnershipProofs**: `OwnershipIsTruthful`, `StickinessHolds`, `RepliesAreOwed`,
  `OwnerKeepsPromise`.
  `OwnershipMatches` is not inductive: it does not say when a device is active, nor what
  a cleanup that will end in `idle` began from (`Owned`), nor that an operation runs on a
  generation that exists (`Bound`), and that no call has a worker before it registers
  (`Unstarted`). With these it is. Stickiness follows: only a takeover's attempt or cleanup leads out of a
  sticky state. For the replies, `Owed` says that a lifecycle call waits exactly as long as
  one of the four fields of the loop holds its channel, that no two fields hold the
  same, and that a cleanup never holds both a reply and a takeover to resume: the
  end of a cleanup could otherwise answer one and forget the other. The refinement rests
  on both, on `SlotsExclusive`, and on three facts more: a session that an attempt
  reports was opened (`Opened`), a running operation has a generation (`Started`), and
  once the loop has published `stopped` it holds nothing (`Halted`). From them the
  variables of the loop read as one phase (`Reading`), before and after a step; then each
  action is matched with the step of `Ownership` it is, or with a stutter. Most actions,
  those of callers, timers and completions, are stutters.
- **OwnerCallsProofs**: `CallersHaveWorkers`, `CompletionsAreHonest`,
  `QueueIsDriven`; `StopJoinsEverything` under `~MayPanic`; `LeaseIsRunning` under
  `Takeovers = {}`, since section 3 shows it false with one. The pairing needs the stages
  of call and worker related one by one (`Paired`). `QueueHasDriver` is the one that
  needs most: that queued work waits only for what will take it up (`Driven`)
  needs that no cleanup which resumes nothing ends where work is queued, that a
  loop that stops has failed its queue, and that no ordinary call is admitted while
  a lifecycle call holds the latch (`Latched`), so that the queue is empty when one
  is served. The lease needs that whoever is resident is watched and that only the
  last of the uses ends it.
- **RpcSessionProofs**: `TypeCorrect`, `EachCallInOneHand`, `TableHoldsLiveCalls`,
  `SessionKeepsPromise`. The invariant says where a call is when it has or has not
  been handed over, that responses on their way are the device's, in which one hand
  a call is, and that the table is finite, bounded and empty for good after the swap.
  The refinement follows step by step.
- **DeviceLaneProofs**: `LaneTypes`, `KeysAreReleased`, `UploadsLeaveNothing`,
  `RepliesAreHonest`, `MountedFileIsWhole`, for any number of jobs, presses, probes
  and writes. First every action is reduced to what it does at the job and beside it
  (`StepMoves`), then each group of the invariant is preserved by these moves. Where a
  job is determines what it holds: which places keep the gate (`Gated`), at which
  something is pressed and armed (`Pressing`: an answered release is no longer
  pressed, though the job still holds the gate), at which a file on the device is the
  job's own (`Leftovers`, which contains the order of the two deletions, and what a lost
  answer to a start leaves), what of the
  job was accepted so far (`Honest`), and how the media file, its digest, the bytes
  sent and the device's copy agree (`FileKept`). `HIDIsolated` alone is not inductive:
  whether a neutral report is owed depends on the place, and on what was answered.
- **VideoSessionProofs**: `WaitersAreServed`, `JoinedIsQuiet`, `SessionTypes`, for any
  stream, number of captures and network; `FramesAreFresh` under
  `2 * MaxDelay < MaxCompleted`; `FramesAreWhole` under `Len(Sent) < SeqSpace`. The first
  two hold whatever the assembly makes of a packet. The others go through every operator
  of `H264Stream`, one lemma each, twice.

  `FramesAreFresh` holds for a stream of any length, with units remembered, forgotten and
  lost. `StreamKept` says that at most one unit is open, that the packets it keeps carry
  its timestamp, and that a unit of which a packet came before the waiter is draining,
  remembered, or forgotten and passed: no packet of it is still to come (`Past`). A unit
  is forgotten when the memory is full of others, and the memory is nearly in the order
  of the stream (`Timely`, `Ranked`): a unit enters it when a packet of it or of the next
  one comes, at most `MaxDelay` places late. Of as many units as the memory holds, each
  with a packet of its own (`SentIsDense`), one is then further on than any packet of the
  oldest can be late (`Passed`, by counting), so nothing of the oldest comes any more
  (`PacketsAreInTime`). With the code's 64 units the hypothesis is that no packet is
  overtaken by 32 others or more, which is a bound on the network and one the code cannot
  do without: a packet later than its unit is remembered is taken for one of a new unit.
  The run has `MaxDelay` 2 and a memory of 3, less than the theorem asks for, and passes.

  `Genuine` says that the packets kept are, by their
  numbers, packets that were sent, that a marker is the number of the last packet of its
  unit (the one that carried the marker bit, or the one just before the packet that
  revealed the end), and that the anchor is the number after a packet of a unit that is
  over, hence of another unit than the one it opens. A unit that is complete from its
  anchor to its marker then is an unbroken stretch of the stream between two other units,
  so all of the unit (`RunIsSent`, `RunIsFirst`, `UnitIsWhole`), for any delay and also
  when nothing is remembered for long. The hypothesis of `FramesAreWhole` is that no two
  packets of the stream have the same number; the numbers may pass from the greatest to
  zero anywhere, as in the run. The inductions (on the length of a sequence, and over the
  packets of a unit for the picture in it) are by the least counterexample
  (`Induction`), since the library's theorems take an operator.
- **ProcessShutdownProofs**: `AdmissionIsSafe`, from `AdmissionConstants` (finitely
  many calls, limits of at least one) and `ShutdownConstants`; `ShutdownTypes`;
  `TelemetryLosesNothing`. `AdmissionSafe` counts
  calls, so each action of a call is first reduced to a move: `CardMove` says what
  moving one call in or out of a set does to its cardinality, and one `...Moves` lemma
  per action relates the permit counters to the one call that moves. The strengthening
  says which kind of call may be at which place (`KindPlaces`), that an ordinary call
  between its two permits holds `admission.mu` of a device that is not latched
  (`Latching`), and what each call of Close has done so far (`Closing`). `NothingLost`
  speaks only of the end; its invariant (`Telemetry`) follows an event from the queue to
  the writer: every early event is in the first queue, the second, the lines or the
  count, the flush is queued once at most and behind all early events of the first queue,
  and the writer has emptied the second before it is flushed.

Only model-checked:

- liveness (`NoStarvation`, `StopCompletes`, `CallersReturn`, `ContextsWake`,
  `CloseReleases`, `ShutdownEnds`): the prover does not do fairness;
- `ParametersAdvance`: retained parameter sets never go back, and those that lead a
  frame are no newer than it. It depends on how far one packet may overtake another:
  with a delay of three units and more, late packets of a unit that was given up can
  move the anchor back to it, and the parameter sets with it. `MaxDelay` as in the run,
  the size of the reorder window, excludes that; the argument would have to bring the
  order of the memory (`Timely`) and the numbers of `Genuine` together, and is not done.

## 5. Notes from modelling

- A panic in the connector or ping whose session does not close reports no session;
  it is then in nobody's hands (`CloseFailedSetup`).
- After an unattended loss the watcher and its session stay until the owner stops,
  for an announcement that may come late (`late`). Bounded by the number of losses.
- A second Close that arrives after the loop ended answers nil even if the first
  reported that a session did not close (`StopAfterDone`).
- An expiry `Stop` came too late for clears `idleTimer`, so a timer armed meanwhile
  can no longer be stopped; it still expires, and the check at its arrival makes it
  harmless (`StrayExpired`).
- The deletion of the partial file comes before that of the final one, and that
  order is what makes the device's late rename harmless: the other way round, a
  rename between the two leaves the file (`AfterUpload`).
- When the owner stops, the session is closed while a HID operation still ends, so
  its neutral report may not get through; `HIDIsolated` excuses a release that was
  not handed over or not taken, and nothing else.
- `shutdownSummaryLine` reads the drop counter twice: a drop by a late producer in
  between gives the outcome `succeeded` with a count of one. The count itself is the
  later value.
- A producer that read the closed flag before Close and queues after the flush was
  taken leaves its event in a queue nobody reads; `NothingLost` is about events queued
  before Close began.
- A capture whose reply is never marshalled records no tool event, since
  `captureDeadlineResult` records it there.

## 6. What is left

`ParametersAdvance` as a theorem, and a `video_session` with a third capture.

Not modelled, and not planned: the content of authentication and signaling messages,
MCP schemas and formatting, the parsing of requests and configuration, the ffmpeg
process, and the release and validation tools: functions of one input or pure I/O.
