---------------------------- MODULE DeviceOwner ----------------------------
(***************************************************************************)
(* The owner of one device: internal/jetkvm/device_owner.go.               *)
(*                                                                         *)
(* One goroutine, the owner loop, holds the whole ownership state of a      *)
(* device and takes one command at a time from an unbuffered channel.  Its  *)
(* callers (RunPrepared, ReleaseContext, TakeOverContext, Close), the       *)
(* goroutines it starts (connection attempt, operation, validation, loss    *)
(* watcher, cleanup) and its idle timer run concurrently with it and with   *)
(* the session, which may be lost or taken over by another operator at any  *)
(* moment.                                                                 *)
(*                                                                         *)
(* Steps.  A command the loop processes is one step: its sender is blocked  *)
(* on the channel, so the goroutine's send and the loop's handler happen    *)
(* together.  Results a goroutine computed before it sends its command      *)
(* (attempt, operation) are a step of their own, because the world may      *)
(* change before the loop takes the command.                               *)
(*                                                                         *)
(* Every call is made once, so generations and timers are bounded by the    *)
(* number of calls.  Generation 0 is "no generation".  The snapshot, health *)
(* and telemetry are left out; the connection permits and the appliance are *)
(* the environment.                                                        *)
(***************************************************************************)
EXTENDS Naturals, Sequences, SequencesExt

CONSTANTS Calls,       \* invocations of RunPrepared
          Mutations,   \* those of class mutation or HID
          Releases,    \* invocations of ReleaseContext
          Takeovers,   \* invocations of TakeOverContext
          Stops,       \* invocations of Close
          NoCall,      \* the nil reply channel
          MayPanic     \* whether the connector or the ping may panic

Lifecycles == Releases \cup Takeovers

ASSUME CallsAssumption ==
  /\ Mutations \subseteq Calls
  /\ Releases \cap Takeovers = {}
  /\ NoCall \notin Lifecycles
  /\ MayPanic \in BOOLEAN

VARIABLES
  \* the owner loop
  ownership,   \* ownership
  stopping,    \* stopping
  loopDone,    \* owner.done is closed
  lastGen,     \* nextGeneration: the newest generation number
  attempt,     \* attempt, and how far its goroutine is
  generation,  \* the active generation, or 0
  cleanup,     \* cleanup
  validation,  \* validation
  timer,       \* idleTimer: "none" (nil), "armed", or "fired" (its send is blocked)
  stray,       \* generations of the expiries on their way that Stop() cannot recall
  \* callers
  pc,          \* where each RunPrepared call is
  ctxDone,     \* the calls whose context has ended
  worker,      \* the worker of each call
  bound,       \* the generation a worker was dispatched on, or 0
  result,      \* what the worker, then the call, answers
  life,        \* the lifecycle calls
  stop,        \* the Close calls
  \* the sessions and the goroutines that serve them
  open,        \* generations whose session may still hold resources
  lost,        \* generations whose session.Done() is closed
  taken,       \* generations whose session recognized an external takeover
  sent,        \* calls whose RPC was handed to the data channel
  watching,    \* generations whose watcher waits for the loss
  late,        \* generations whose watcher still waits for a takeover signal
  watchDone,   \* generations whose watchDone is closed
  validators   \* generations whose validation ping is running

loopVars == << ownership, stopping, lastGen, attempt, generation, cleanup, validation >>
timerVars == << timer, stray >>
callVars == << pc, ctxDone, worker, bound, result >>
sessionVars == << open, lost, taken, sent >>
watchVars == << watching, late, watchDone >>
vars == << loopVars, loopDone, timerVars, callVars, life, stop, sessionVars,
           watchVars, validators >>

-----------------------------------------------------------------------------
(* Results: a public error code and how far the operation got.             *)

None == [code |-> "none", outcome |-> "none"]
Ok == [code |-> "ok", outcome |-> "none"]
Panic == [code |-> "panic", outcome |-> "none"]
NotSent(code) == [code |-> code, outcome |-> "not_sent"]
Failed(code) == [code |-> code, outcome |-> "failed"]
Unknown(code) == [code |-> code, outcome |-> "unknown"]

Codes == { "busy", "canceled", "closed", "connect_failed", "invalid", "protocol",
           "rejected", "released", "taken_over", "uncertain" }

Results == {None, Ok, Panic}
             \cup { [code |-> c, outcome |-> o] : c \in Codes,
                                                  o \in {"not_sent", "failed", "unknown"} }

Ownerships == {"idle", "active", "taken_over", "uncertain", "released", "stopped"}

(* The connection attempt.  phase is where its goroutine is: connecting,    *)
(* closing the session of a failed setup, or waiting to report.             *)
Attempts ==
  [ gen : Nat, takeover : Lifecycles \cup {NoCall}, canceled : BOOLEAN,
    phase : {"none", "connecting", "closing", "ended"},
    session : BOOLEAN, err : {"none", "failed", "canceled", "panic"},
    cleanupErr : BOOLEAN ]

NoAttempt ==
  [ gen |-> 0, takeover |-> NoCall, canceled |-> FALSE, phase |-> "none",
    session |-> FALSE, err |-> "none", cleanupErr |-> FALSE ]

(* The cleanup of a generation: where ownership goes when it succeeds,      *)
(* whether it failed (cleanup.err), and the lifecycle calls it answers.     *)
Cleanups ==
  [ gen : Nat, target : Ownerships, failed : BOOLEAN,
    reply : Lifecycles \cup {NoCall}, takeover : Lifecycles \cup {NoCall} ]

NoCleanup ==
  [ gen |-> 0, target |-> "idle", failed |-> FALSE, reply |-> NoCall, takeover |-> NoCall ]

Validations == [ gen : Nat, reply : Lifecycles \cup {NoCall} ]

NoValidation == [ gen |-> 0, reply |-> NoCall ]

CallLocations ==
  { "start", "gate", "register", "wait", "cancel", "await", "leave", "notify", "returned" }

(* none: not registered.  queued: in queue and workers.  canceled: in       *)
(* workers only, waiting for its attempt to end.  running, sending, sent,    *)
(* ended: its operation runs, passed the last check before SendText, has     *)
(* sent its RPC, has a result to report.  replied: out of workers, its       *)
(* result is in the buffered reply channel.                                 *)
WorkerStages ==
  {"none", "queued", "canceled", "running", "sending", "sent", "ended", "replied"}

Idle == [phase |-> "start", answer |-> None]

TypeOK ==
  /\ ownership \in Ownerships
  /\ stopping \in BOOLEAN /\ loopDone \in BOOLEAN
  /\ lastGen \in Nat /\ generation \in Nat
  /\ attempt \in Attempts /\ cleanup \in Cleanups /\ validation \in Validations
  /\ timer \in {"none", "armed", "fired"} /\ stray \in Seq(Nat)
  /\ pc \in [Calls -> CallLocations]
  /\ ctxDone \in SUBSET Calls
  /\ worker \in [Calls -> WorkerStages]
  /\ bound \in [Calls -> Nat]
  /\ result \in [Calls -> Results]
  /\ life \in [Lifecycles -> [phase : {"start", "latched", "waiting", "returned"},
                              answer : Results]]
  /\ stop \in [Stops -> {"start", "waiting", "ok", "failed", "expired", "ended"}]
  /\ open \in SUBSET Nat /\ lost \in SUBSET Nat /\ taken \in SUBSET Nat
  /\ sent \in SUBSET Calls
  /\ watching \in SUBSET Nat /\ late \in SUBSET Nat /\ watchDone \in SUBSET Nat
  /\ validators \in SUBSET Nat

Init ==
  /\ ownership = "idle" /\ stopping = FALSE /\ loopDone = FALSE
  /\ lastGen = 0 /\ generation = 0
  /\ attempt = NoAttempt /\ cleanup = NoCleanup /\ validation = NoValidation
  /\ timer = "none" /\ stray = << >>
  /\ pc = [c \in Calls |-> "start"]
  /\ ctxDone = {}
  /\ worker = [c \in Calls |-> "none"]
  /\ bound = [c \in Calls |-> 0]
  /\ result = [c \in Calls |-> None]
  /\ life = [l \in Lifecycles |-> Idle]
  /\ stop = [s \in Stops |-> "start"]
  /\ open = {} /\ lost = {} /\ taken = {} /\ sent = {}
  /\ watching = {} /\ late = {} /\ watchDone = {} /\ validators = {}

-----------------------------------------------------------------------------
(* Mistaken forms of some of the definitions below, for the mutation checks. *)

AttachedReplies == {cleanup.reply} \ {NoCall}

MayConnectWhileClosing(takeover) ==
  /\ attempt.gen = 0 /\ generation = 0 /\ validation.gen = 0 /\ ~stopping
  /\ takeover \/ ownership = "idle"

FinishedWithWorkers ==
  /\ stopping
  /\ attempt.gen = 0 /\ validation.gen = 0 /\ generation = 0
  /\ ~(cleanup.gen # 0 /\ ~cleanup.failed)

FinishedWhileClosing ==
  /\ stopping
  /\ attempt.gen = 0 /\ validation.gen = 0 /\ generation = 0
  /\ \A c \in Calls : worker[c] \in {"none", "replied"}

FinishedOnlyWhenClosed ==
  /\ FinishedWhileClosing /\ cleanup.gen = 0

NoCallerIsLast(c) == \A d \in Calls : pc[d] \in {"start", "notify", "returned"}

RefusalUnlessIdle ==
  IF stopping THEN NotSent("closed")
  ELSE IF ownership # "idle" THEN NotSent(ownership) ELSE None

ForgetsSession(closed) == FALSE

ClosesWhateverRuns(g) ==
  IF generation = g /\ generation # 0
  THEN cleanup' = [NoCleanup EXCEPT !.gen = generation] /\ generation' = 0
  ELSE UNCHANGED << generation, cleanup >>

SweptQueuedOnly == { c \in Calls : worker[c] = "queued" /\ c \in ctxDone }

OwnershipAfterFailedTakeover == IF attempt.takeover # NoCall THEN "uncertain" ELSE ownership

ClassifiedAsRead(c, raw) ==
  IF raw \in {Ok, Panic, Failed("rejected")} \/ ~(bound[c] \in lost \/ bound[c] # generation)
  THEN raw
  ELSE [ code |-> IF bound[c] \in taken THEN "taken_over" ELSE "uncertain",
         outcome |-> IF raw.outcome = "not_sent" THEN "not_sent" ELSE "failed" ]

CleanupTargetOrIdle == IF cleanup.target = "uncertain" THEN "idle" ELSE cleanup.target

NeverResumes == FALSE

-----------------------------------------------------------------------------
(* Views of the loop's state.                                              *)

Registered ==
  { c \in Calls : worker[c] \in {"queued", "canceled", "running", "sending", "sent", "ended"} }

Queue == { c \in Calls : worker[c] = "queued" }

(* owner.demand: the calls between its increment and its decrement.        *)
Demand == { c \in Calls : pc[c] \in {"gate", "register", "wait", "cancel", "await", "leave"} }

Pending == cleanup.gen # 0 /\ ~cleanup.failed
Broken == cleanup.gen # 0 /\ cleanup.failed

(* The lifecycle calls the cleanup answers. *)
Attached == {cleanup.reply, cleanup.takeover} \ {NoCall}

NoDeviceWork == Registered = {} /\ Demand = {}

(* The Manager's admission latch of the device: ordinary work and lifecycle *)
(* calls exclude each other, and lifecycle calls exclude one another.       *)
LifecycleLatched == \E l \in Lifecycles : life[l].phase \in {"latched", "waiting"}
OrdinaryAdmitted == \E c \in Calls : pc[c] \notin {"start", "returned"}

(* The mutation lane of the device (a FairGate): held from the acquisition  *)
(* to the deferred release.                                                *)
GateFree == \A m \in Mutations : pc[m] \in {"start", "gate", "notify", "returned"}

-----------------------------------------------------------------------------
(* Steps shared by the handlers.                                           *)

Goto(c, location) == pc' = [pc EXCEPT ![c] = location]

Return(c, location, answer) ==
  /\ Goto(c, location)
  /\ result' = [result EXCEPT ![c] = answer]

(* The reply to a lifecycle call; sending on a nil channel is never reached. *)
Answer(l, answer) ==
  life' = IF l = NoCall THEN life
          ELSE [life EXCEPT ![l] = [phase |-> "returned", answer |-> answer]]

(* owner.settings.afterFunc(...).Stop(): an expiry that fired is not recalled. *)
StopTimer ==
  /\ timer' = "none"
  /\ stray' = IF timer = "fired" THEN Append(stray, generation) ELSE stray

(* failQueued *)
FailQueued(answer) ==
  /\ worker' = [c \in Calls |-> IF c \in Queue THEN "replied" ELSE worker[c]]
  /\ result' = [c \in Calls |-> IF c \in Queue THEN answer ELSE result[c]]

(* The state test of startAttempt, for an ordinary call and for a takeover. *)
MayConnect(takeover) ==
  /\ attempt.gen = 0 /\ generation = 0 /\ cleanup.gen = 0 /\ validation.gen = 0
  /\ ~stopping
  /\ takeover \/ ownership = "idle"

(* startAttempt, once its tests passed and a permit was acquired. *)
Connect(takeover) ==
  /\ lastGen' = lastGen + 1
  /\ attempt' = [NoAttempt EXCEPT !.gen = lastGen', !.takeover = takeover,
                                  !.phase = "connecting"]

(* startNext, on generation g for the workers queued in w with answers r:   *)
(* unless a takeover was recognized, every live one starts and every one    *)
(* whose context ended is answered.                                        *)
Dispatching(g) == g # 0 /\ ~stopping /\ g \notin taken

Starting(w, g) == { c \in Calls : Dispatching(g) /\ w[c] = "queued" /\ c \notin ctxDone }

StartNext(w, r, g) ==
  LET lapsed == { c \in Calls : Dispatching(g) /\ w[c] = "queued" /\ c \in ctxDone }
  IN /\ worker' = [c \in Calls |-> IF c \in Starting(w, g) THEN "running"
                                   ELSE IF c \in lapsed THEN "replied" ELSE w[c]]
     /\ result' = [c \in Calls |-> IF c \in lapsed THEN NotSent("canceled") ELSE r[c]]
     /\ bound' = [c \in Calls |-> IF c \in Starting(w, g) THEN g ELSE bound[c]]

(* The state test of scheduleIdle. *)
MayScheduleIdle ==
  /\ ~stopping /\ attempt.gen = 0 /\ generation # 0 /\ cleanup.gen = 0
  /\ NoDeviceWork

(* startCleanup of the active generation; startCleanup never meets another  *)
(* cleanup (OneSlot).                                                      *)
StartCleanup(target, reply) ==
  /\ cleanup' = [NoCleanup EXCEPT !.gen = generation, !.target = target, !.reply = reply]
  /\ generation' = 0

(* finishIfStopped, which runs after every command: the loop returns, closes *)
(* owner.done and answers every Close.                                     *)
Finished ==
  /\ stopping
  /\ attempt.gen = 0 /\ validation.gen = 0 /\ generation = 0 /\ ~Pending
  /\ Registered = {}

Settle(stops) ==
  /\ loopDone' = Finished'
  /\ stop' = IF Finished'
             THEN [s \in Stops |-> IF stops[s] = "waiting"
                                   THEN IF cleanup'.failed THEN "failed" ELSE "ok"
                                   ELSE stops[s]]
             ELSE stops

-----------------------------------------------------------------------------
(* RunPrepared.                                                            *)

(* The Manager admits the call unless a lifecycle call holds the latch;     *)
(* RunPrepared rejects a context that already ended and counts the demand.  *)
Admit(c) ==
  /\ pc[c] = "start" /\ ~LifecycleLatched
  /\ IF c \in ctxDone
     THEN Return(c, "returned", NotSent("canceled"))
     ELSE Goto(c, IF c \in Mutations THEN "gate" ELSE "register") /\ UNCHANGED result
  /\ UNCHANGED << loopVars, loopDone, timerVars, ctxDone, worker, bound, life, stop,
                  sessionVars, watchVars, validators >>

RefuseBusy(c) ==
  /\ pc[c] = "start" /\ LifecycleLatched
  /\ Return(c, "returned", NotSent("busy"))
  /\ UNCHANGED << loopVars, loopDone, timerVars, ctxDone, worker, bound, life, stop,
                  sessionVars, watchVars, validators >>

(* The caller's context ends. *)
CancelContext(c) ==
  /\ pc[c] \notin {"leave", "notify", "returned"}
  /\ ctxDone' = ctxDone \cup {c}
  /\ c \notin ctxDone
  /\ UNCHANGED << loopVars, loopDone, timerVars, pc, worker, bound, result, life, stop,
                  sessionVars, watchVars, validators >>

(* scheduler.mutation.acquire, then prepare, which may fail; a canceled     *)
(* waiter leaves.                                                          *)
PassGate(c) ==
  /\ pc[c] = "gate"
  /\ \/ GateFree /\ Goto(c, "register") /\ UNCHANGED result
     \/ GateFree /\ Return(c, "leave", NotSent("invalid"))
     \/ c \in ctxDone /\ Return(c, "leave", NotSent("canceled"))
  /\ UNCHANGED << loopVars, loopDone, timerVars, ctxDone, worker, bound, life, stop,
                  sessionVars, watchVars, validators >>

(* The select around the registration: the loop is gone, or the context ended. *)
GiveUpRegistration(c) ==
  /\ pc[c] = "register"
  /\ \/ loopDone /\ Return(c, "leave", NotSent("closed"))
     \/ c \in ctxDone /\ Return(c, "leave", NotSent("canceled"))
  /\ UNCHANGED << loopVars, loopDone, timerVars, ctxDone, worker, bound, life, stop,
                  sessionVars, watchVars, validators >>

(* The worker's reply arrives. *)
ReceiveReply(c) ==
  /\ pc[c] \in {"wait", "await"} /\ worker[c] = "replied"
  /\ Goto(c, "leave")
  /\ UNCHANGED << loopVars, loopDone, timerVars, ctxDone, worker, bound, result, life, stop,
                  sessionVars, watchVars, validators >>

(* The context ends first: the caller turns to cancelOwnerWorker ... *)
NoticeCancel(c) ==
  /\ pc[c] = "wait" /\ c \in ctxDone
  /\ Goto(c, "cancel")
  /\ UNCHANGED << loopVars, loopDone, timerVars, ctxDone, worker, bound, result, life, stop,
                  sessionVars, watchVars, validators >>

(* ... but the loop has ended: not_sent, whatever the worker's reply says.  *)
CancelAfterDone(c) ==
  /\ pc[c] = "cancel" /\ loopDone
  /\ Return(c, "leave", NotSent("canceled"))
  /\ UNCHANGED << loopVars, loopDone, timerVars, ctxDone, worker, bound, life, stop,
                  sessionVars, watchVars, validators >>

LastCaller(c) == Demand = {c}

(* The deferred calls: release the mutation gate, decrement the demand, and *)
(* tell the loop when it was the last.                                     *)
Leave(c) ==
  /\ pc[c] = "leave"
  /\ Goto(c, IF LastCaller(c) THEN "notify" ELSE "returned")
  /\ UNCHANGED << loopVars, loopDone, timerVars, ctxDone, worker, bound, result, life, stop,
                  sessionVars, watchVars, validators >>

(* ownerDemandChanged, or owner.done. *)
NotifyDemand(c) ==
  /\ pc[c] = "notify"
  /\ Goto(c, "returned")
  /\ UNCHANGED << loopVars, loopDone, stray, ctxDone, worker, bound, result, life, stop,
                  sessionVars, watchVars, validators >>
  /\ timer' = IF ~loopDone /\ MayScheduleIdle' /\ timer = "none" THEN "armed" ELSE timer

-----------------------------------------------------------------------------
(* registerOwnerWorker and cancelOwnerWorker.                              *)

(* Why the loop refuses a registration, or None. *)
Refusal ==
  CASE stopping -> NotSent("closed")
    [] ~stopping /\ ownership \in {"released", "taken_over", "uncertain"} -> NotSent(ownership)
    [] ~stopping /\ ownership = "stopped" -> NotSent("busy")
    [] ~stopping /\ ownership \in {"idle", "active"} /\ Broken -> NotSent("uncertain")
    [] OTHER -> None

RefuseWorker(c) ==
  /\ ~loopDone /\ pc[c] = "register"
  /\ Refusal # None
  /\ Return(c, "leave", Refusal)
  /\ UNCHANGED << loopVars, loopDone, timerVars, ctxDone, worker, bound, life, stop,
                  sessionVars, watchVars, validators >>

(* The first worker of an idle device starts the connection attempt; without *)
(* a permit it is refused again.                                           *)
RegisterAndConnect(c) ==
  /\ ~loopDone /\ pc[c] = "register" /\ Refusal = None
  /\ generation = 0 /\ attempt.gen = 0 /\ cleanup.gen = 0
  /\ \/ /\ MayConnect(FALSE)
        /\ Connect(NoCall)
        /\ worker' = [worker EXCEPT ![c] = "queued"]
        /\ Goto(c, "wait") /\ UNCHANGED result
     \/ /\ MayConnect(FALSE)
        /\ Return(c, "leave", NotSent("busy"))
        /\ UNCHANGED << lastGen, attempt, worker >>
     \/ /\ ~MayConnect(FALSE)
        /\ worker' = [worker EXCEPT ![c] = "queued"]
        /\ Goto(c, "wait") /\ UNCHANGED << lastGen, attempt, result >>
  /\ UNCHANGED << ownership, stopping, generation, cleanup, validation, loopDone, timerVars,
                  ctxDone, bound, life, stop, sessionVars, watchVars, validators >>

(* A worker joins the attempt or waits for the cleanup under way. *)
RegisterAndQueue(c) ==
  /\ ~loopDone /\ pc[c] = "register" /\ Refusal = None
  /\ generation = 0 /\ (attempt.gen # 0 \/ cleanup.gen # 0)
  /\ worker' = [worker EXCEPT ![c] = "queued"]
  /\ Goto(c, "wait")
  /\ UNCHANGED << loopVars, loopDone, timerVars, ctxDone, bound, result, life, stop,
                  sessionVars, watchVars, validators >>

(* A worker of an active generation starts at once. *)
RegisterAndStart(c) ==
  /\ ~loopDone /\ pc[c] = "register" /\ Refusal = None
  /\ generation # 0
  /\ LET w == [worker EXCEPT ![c] = "queued"]
     IN /\ StartNext(w, result, generation)
        /\ IF Starting(w, generation) # {} THEN StopTimer ELSE UNCHANGED timerVars
  /\ Goto(c, "wait")
  /\ UNCHANGED << loopVars, loopDone, ctxDone, life, stop, sessionVars, watchVars, validators >>

(* The last waiter of an attempt cancels the attempt and waits for its end; *)
(* any other queued worker is answered; a started one is only told to stop   *)
(* (its operation context derives from the caller's).                      *)
CancelWorker(c) ==
  /\ ~loopDone /\ pc[c] = "cancel"
  /\ \/ /\ worker[c] \in {"queued", "canceled"}
        /\ attempt.gen # 0 /\ Queue \subseteq {c}
        /\ worker' = [worker EXCEPT ![c] = "canceled"]
        /\ attempt' = [attempt EXCEPT !.canceled = TRUE]
        /\ Goto(c, "await") /\ UNCHANGED result
     \/ /\ worker[c] \in {"queued", "canceled"}
        /\ ~(attempt.gen # 0 /\ Queue \subseteq {c})
        /\ worker' = [worker EXCEPT ![c] = "replied"]
        /\ Return(c, "leave", NotSent("canceled"))
        /\ UNCHANGED attempt
     \/ /\ worker[c] \notin {"queued", "canceled"}
        /\ Goto(c, "await")
        /\ UNCHANGED << worker, attempt, result >>
  /\ UNCHANGED << ownership, stopping, lastGen, generation, cleanup, validation, timerVars,
                  ctxDone, bound, life, sessionVars, watchVars, validators >>
  /\ Settle(stop)

-----------------------------------------------------------------------------
(* The connection attempt: runAttempt, then completeOwnerAttempt.          *)

(* Connect and the first ping end without a session. *)
FailConnect ==
  /\ attempt.phase = "connecting"
  /\ \E err \in {"failed"} \cup (IF MayPanic THEN {"panic"} ELSE {}) :
        attempt' = [attempt EXCEPT
                      !.phase = "ended",
                      !.err = IF attempt.canceled /\ err # "panic" THEN "canceled" ELSE err]
  /\ UNCHANGED << ownership, stopping, lastGen, generation, cleanup, validation, loopDone,
                  timerVars, callVars, life, stop, sessionVars, watchVars, validators >>

(* The session answers the ping before the attempt's context ends. *)
FinishConnect ==
  /\ attempt.phase = "connecting" /\ ~attempt.canceled
  /\ attempt' = [attempt EXCEPT !.phase = "ended", !.session = TRUE]
  /\ open' = open \cup {attempt.gen}
  /\ UNCHANGED << ownership, stopping, lastGen, generation, cleanup, validation, loopDone,
                  timerVars, callVars, life, stop, lost, taken, sent, watchVars, validators >>

(* A session exists, but the ping, the session or the context fails: the     *)
(* goroutine closes it before it reports.                                  *)
FailSetup ==
  /\ attempt.phase = "connecting"
  /\ \E err \in {"failed"} \cup (IF MayPanic THEN {"panic"} ELSE {}) :
        attempt' = [attempt EXCEPT !.phase = "closing", !.err = err]
  /\ open' = open \cup {attempt.gen}
  /\ UNCHANGED << ownership, stopping, lastGen, generation, cleanup, validation, loopDone,
                  timerVars, callVars, life, stop, lost, taken, sent, watchVars, validators >>

KeepsSession(closed) == ~closed /\ attempt.err # "panic"

(* closeDetached of a failed setup.  The error is classified after it; a    *)
(* session that would not close is reported, but not by the panic path.     *)
CloseFailedSetup ==
  /\ attempt.phase = "closing"
  /\ \E closed \in BOOLEAN :
        /\ attempt' = [attempt EXCEPT
                          !.phase = "ended",
                          !.session = KeepsSession(closed),
                          !.cleanupErr = ~closed,
                          !.err = IF attempt.canceled /\ attempt.err # "panic"
                                  THEN "canceled" ELSE attempt.err]
        /\ open' = IF closed THEN open \ {attempt.gen} ELSE open
  /\ lost' = lost \cup {attempt.gen}
  /\ UNCHANGED << ownership, stopping, lastGen, generation, cleanup, validation, loopDone,
                  timerVars, callVars, life, stop, taken, sent, watchVars, validators >>

(* What completeOwnerAttempt does first: canceled workers, and queued ones   *)
(* whose context ended, are answered.                                      *)
Swept == { c \in Calls : worker[c] = "canceled" \/ (worker[c] = "queued" /\ c \in ctxDone) }

LiveQueue == { c \in Calls : worker[c] = "queued" /\ c \notin ctxDone }

SweptWorkers == [c \in Calls |-> IF c \in Swept THEN "replied" ELSE worker[c]]
SweptResults == [c \in Calls |-> IF c \in Swept THEN NotSent("canceled") ELSE result[c]]

(* The error of a failed attempt, as its waiters and as a takeover see it.  *)
WaiterError == CASE attempt.err = "failed" -> NotSent("connect_failed")
                 [] attempt.err = "canceled" -> NotSent("canceled")
                 [] OTHER -> Panic

TakeoverError == IF attempt.cleanupErr THEN Failed("uncertain")
                 ELSE IF attempt.err = "panic" THEN NotSent("protocol") ELSE WaiterError

OwnershipAfterFailure ==
  IF attempt.takeover # NoCall \/ (attempt.cleanupErr /\ attempt.session)
  THEN "uncertain" ELSE ownership

(* The attempt failed: its waiters fail with it, a takeover leaves the       *)
(* device uncertain, and a session that would not close is kept as a failed  *)
(* cleanup.                                                                *)
FailAttempt ==
  /\ ~loopDone /\ attempt.phase = "ended" /\ attempt.err # "none"
  /\ worker' = [c \in Calls |-> IF c \in LiveQueue THEN "replied" ELSE SweptWorkers[c]]
  /\ result' = [c \in Calls |-> IF c \in LiveQueue THEN WaiterError ELSE SweptResults[c]]
  /\ Answer(attempt.takeover, TakeoverError)
  /\ IF attempt.cleanupErr /\ attempt.session
     THEN cleanup' = [NoCleanup EXCEPT !.gen = attempt.gen, !.failed = TRUE]
     ELSE UNCHANGED cleanup
  /\ ownership' = OwnershipAfterFailure
  /\ attempt' = NoAttempt
  /\ UNCHANGED << stopping, lastGen, generation, validation, timerVars, pc, ctxDone, bound,
                  sessionVars, watchVars, validators >>
  /\ Settle(stop)

(* Somebody still wants the session: it becomes the active generation. *)
Wanted == ~stopping /\ (LiveQueue # {} \/ attempt.takeover # NoCall)

ActivateAttempt ==
  /\ ~loopDone /\ attempt.phase = "ended" /\ attempt.err = "none"
  /\ Wanted
  /\ generation' = attempt.gen
  /\ ownership' = "active"
  /\ watching' = watching \cup {attempt.gen}
  /\ Answer(attempt.takeover, Ok)
  /\ attempt' = NoAttempt
  /\ StartNext(SweptWorkers, SweptResults, attempt.gen)
  /\ UNCHANGED << stopping, lastGen, cleanup, validation, pc, ctxDone, stray,
                  sessionVars, late, watchDone, validators >>
  /\ timer' = IF MayScheduleIdle' THEN "armed" ELSE "none"
  /\ Settle(stop)

(* Nobody does: it is closed at once. *)
OrphanAttempt ==
  /\ ~loopDone /\ attempt.phase = "ended" /\ attempt.err = "none"
  /\ ~Wanted
  /\ worker' = SweptWorkers /\ result' = SweptResults
  /\ Answer(attempt.takeover, NotSent("closed"))
  /\ cleanup' = [NoCleanup EXCEPT !.gen = attempt.gen,
                                  !.target = IF stopping THEN "stopped" ELSE "idle"]
  /\ attempt' = NoAttempt
  /\ UNCHANGED << ownership, stopping, lastGen, generation, validation, timerVars, pc, ctxDone,
                  bound, sessionVars, watchVars, validators >>
  /\ Settle(stop)

-----------------------------------------------------------------------------
(* An operation: runOperation, then completeOwnerWorker.  An operation is    *)
(* taken to be one RPC.                                                    *)

(* The generation's context is canceled as soon as its cleanup begins. *)
GenerationOver(c) == bound[c] \in lost \/ bound[c] # generation

(* rpcSession.Call holds the send gate and looks at its context and at the   *)
(* session for the last time.  A generation that ends cancels the context    *)
(* through a goroutine of its own (context.AfterFunc), which may come too    *)
(* late for this look.                                                     *)
PassSendCheck(c) ==
  /\ worker[c] = "running"
  /\ c \notin ctxDone /\ bound[c] \notin lost
  /\ worker' = [worker EXCEPT ![c] = "sending"]
  /\ UNCHANGED << loopVars, loopDone, timerVars, pc, ctxDone, bound, result, life, stop,
                  sessionVars, watchVars, validators >>

(* SendText, with no look at what happened since.  A session that was closed *)
(* takes nothing any more; the error of a SendText that fails is EndOperation. *)
SendRPC(c) ==
  /\ worker[c] = "sending" /\ bound[c] \in open
  /\ worker' = [worker EXCEPT ![c] = "sent"]
  /\ sent' = sent \cup {c}
  /\ UNCHANGED << loopVars, loopDone, timerVars, pc, ctxDone, bound, result, life, stop,
                  open, lost, taken, watchVars, validators >>

(* What the RPC layer reports: an unsent call ended with its context or its  *)
(* session; of one SendText failed for nothing is known; a sent one has the  *)
(* device's answer, or none it can use.                                     *)
RawResults(c) ==
  CASE worker[c] = "running" -> {NotSent("canceled")}
    [] worker[c] = "sending" -> {Unknown("protocol")}
    [] OTHER -> {Ok, Failed("rejected"), Panic}
                  \cup {Unknown(IF c \in ctxDone THEN "canceled" ELSE "protocol")}

(* classifyTerminalCompletion: once the generation is over, an error that is *)
(* not the device's own answer becomes the ownership error, keeping what is  *)
(* known of the dispatch.                                                  *)
Classified(c, raw) ==
  IF raw \in {Ok, Panic, Failed("rejected")} \/ ~GenerationOver(c)
  THEN raw
  ELSE [ code |-> IF bound[c] \in taken THEN "taken_over" ELSE "uncertain",
         outcome |-> IF raw.outcome = "not_sent" THEN "not_sent"
                     ELSE IF c \in Mutations THEN "unknown" ELSE "failed" ]

EndOperation(c) ==
  /\ \/ worker[c] = "running" /\ (c \in ctxDone \/ GenerationOver(c))
     \/ worker[c] \in {"sending", "sent"}
  /\ \E raw \in RawResults(c) : result' = [result EXCEPT ![c] = Classified(c, raw)]
  /\ worker' = [worker EXCEPT ![c] = "ended"]
  /\ UNCHANGED << loopVars, loopDone, timerVars, pc, ctxDone, bound, life, stop,
                  sessionVars, watchVars, validators >>

CompleteWorker(c) ==
  /\ ~loopDone /\ worker[c] = "ended"
  /\ UNCHANGED << loopVars, pc, ctxDone, life, sessionVars, watchVars, validators >>
  /\ LET w == [worker EXCEPT ![c] = "replied"]
     IN /\ StartNext(w, result, generation)
        /\ IF Starting(w, generation) # {} THEN StopTimer
           ELSE /\ timer' = IF MayScheduleIdle' /\ timer = "none" THEN "armed" ELSE timer
                /\ UNCHANGED stray
  /\ Settle(stop)

-----------------------------------------------------------------------------
(* Loss and takeover: the session, watchGeneration, and their commands.    *)

(* The connection drops. *)
LoseSession(g) ==
  /\ g \in open /\ g \notin lost
  /\ lost' = lost \cup {g}
  /\ UNCHANGED << loopVars, loopDone, timerVars, callVars, life, stop, open, taken, sent,
                  watchVars, validators >>

(* The device announces another operator; the announcement may be read late, *)
(* but not after nobody listens.  The session cancels its own context next.  *)
RecognizeTakeover(g) ==
  /\ g \in open \cup late /\ g \notin taken
  /\ taken' = taken \cup {g}
  /\ UNCHANGED << loopVars, loopDone, timerVars, callVars, life, stop, open, lost, sent,
                  watchVars, validators >>

(* ownerGenerationEnded of the active generation: latch why, fail what is    *)
(* queued, close, and answer a validation under way.                       *)
EndGeneration(g) ==
  /\ ~loopDone /\ g \in watching /\ g \in lost \cup taken
  /\ g = generation
  /\ LET cause == IF g \in taken THEN "taken_over" ELSE "uncertain"
     IN /\ ownership' = cause
        /\ FailQueued(NotSent(cause))
        /\ StartCleanup(cause, NoCall)
        /\ IF validation.gen = g
           THEN Answer(validation.reply, Failed(cause)) /\ validation' = NoValidation
           ELSE UNCHANGED << life, validation >>
  /\ StopTimer
  /\ watching' = watching \ {g}
  /\ \/ g \in lost /\ late' = late \cup {g}
     \/ g \in taken /\ UNCHANGED late
  /\ UNCHANGED << stopping, lastGen, attempt, pc, ctxDone, bound, sessionVars, watchDone,
                  validators >>
  /\ Settle(stop)

(* The same command of a generation that is being closed already. *)
IgnoreGenerationEnd(g) ==
  /\ ~loopDone /\ g \in watching /\ g \in lost \cup taken
  /\ g # generation
  /\ watching' = watching \ {g}
  /\ \/ g \in lost /\ late' = late \cup {g}
     \/ g \in taken /\ UNCHANGED late
  /\ UNCHANGED << loopVars, loopDone, timerVars, callVars, life, stop, sessionVars, watchDone,
                  validators >>

(* ownerTakeoverRecognized: a loss that turns out to be a takeover, while     *)
(* its cleanup runs or after it, unless a lifecycle call came in between.   *)
LateTakeoverCounts(g) ==
  /\ ~stopping
  /\ \/ cleanup.gen = g /\ Pending /\ Attached = {}
     \/ /\ cleanup.gen = 0 /\ generation = 0 /\ attempt.gen = 0
        /\ ownership = "uncertain" /\ lastGen = g

LateTakeover(g) ==
  /\ ~loopDone /\ g \in late /\ g \in taken
  /\ late' = late \ {g}
  /\ IF LateTakeoverCounts(g)
     THEN /\ ownership' = "taken_over"
          /\ cleanup' = IF cleanup.gen = g THEN [cleanup EXCEPT !.target = "taken_over"] ELSE cleanup
          /\ FailQueued(NotSent("taken_over"))
     ELSE UNCHANGED << ownership, cleanup, worker, result >>
  /\ UNCHANGED << stopping, lastGen, attempt, generation, validation, timerVars, pc, ctxDone,
                  bound, life, sessionVars, watching, watchDone, validators >>
  /\ Settle(stop)

(* The watcher ends: its cleanup closed watchDone, or the loop ended. *)
EndWatch(g) ==
  /\ \/ g \in late /\ (g \in watchDone \/ loopDone)
     \/ g \in watching /\ loopDone
  /\ late' = late \ {g} /\ watching' = watching \ {g}
  /\ UNCHANGED << loopVars, loopDone, timerVars, callVars, life, stop, sessionVars, watchDone,
                  validators >>

-----------------------------------------------------------------------------
(* The idle lease: the timer, then ownerIdleExpired.                       *)

FireTimer ==
  /\ timer = "armed"
  /\ timer' = "fired"
  /\ UNCHANGED << loopVars, loopDone, stray, callVars, life, stop, sessionVars, watchVars,
                  validators >>

(* The loop closes the generation the expiry names when nothing uses it. *)
CloseIdle(g) ==
  IF generation = g /\ generation # 0 /\ NoDeviceWork
  THEN StartCleanup("idle", NoCall)
  ELSE UNCHANGED << generation, cleanup >>

IdleExpired ==
  /\ ~loopDone /\ timer = "fired"
  /\ timer' = "none" /\ UNCHANGED stray
  /\ CloseIdle(generation)
  /\ UNCHANGED << ownership, stopping, lastGen, attempt, validation, callVars, life,
                  sessionVars, watchVars, validators >>
  /\ Settle(stop)

(* An expiry that Stop() came too late for.  It clears idleTimer too: a      *)
(* timer armed since can no longer be stopped.                             *)
StrayExpired ==
  /\ ~loopDone
  /\ \E i \in 1 .. Len(stray) :
        /\ stray' = IF timer = "none" THEN RemoveAt(stray, i)
                    ELSE Append(RemoveAt(stray, i), generation)
        /\ CloseIdle(stray[i])
  /\ timer' = "none"
  /\ UNCHANGED << ownership, stopping, lastGen, attempt, validation, callVars, life,
                  sessionVars, watchVars, validators >>
  /\ Settle(stop)

(* After the loop ended, every expiry on its way is dropped. *)
DropExpiry ==
  /\ loopDone /\ (timer # "none" \/ stray # << >>)
  /\ timer' = "none" /\ stray' = << >>
  /\ UNCHANGED << loopVars, loopDone, callVars, life, stop, sessionVars, watchVars, validators >>

-----------------------------------------------------------------------------
(* Cleanup: runCleanup, then completeOwnerCleanup.                         *)

(* session.Close timed out: the generation stays unjoined, ownership becomes *)
(* uncertain, and everybody who waited learns it.                          *)
FailCleanup ==
  /\ ~loopDone /\ Pending
  /\ cleanup' = [cleanup EXCEPT !.failed = TRUE, !.reply = NoCall, !.takeover = NoCall]
  /\ ownership' = "uncertain"
  /\ FailQueued(NotSent("busy"))
  /\ life' = [l \in Lifecycles |-> IF l \in Attached
                                   THEN [phase |-> "returned", answer |-> Failed("uncertain")]
                                   ELSE life[l]]
  /\ lost' = lost \cup {cleanup.gen}
  /\ UNCHANGED << stopping, lastGen, attempt, generation, validation, timerVars, pc, ctxDone,
                  bound, open, taken, sent, watchVars, validators >>
  /\ Settle(stop)

(* Where ownership goes: a loss nobody asked about that turned out to be a   *)
(* takeover is latched as one.                                             *)
Unattended == Attached = {}

CleanupTarget ==
  IF cleanup.target = "uncertain" /\ Unattended /\ cleanup.gen \in taken
  THEN "taken_over" ELSE cleanup.target

(* Nothing but ownership stands in the way of a new attempt. *)
ClearToConnect == attempt.gen = 0 /\ generation = 0 /\ validation.gen = 0 /\ ~stopping

Answered(l, answer) ==
  IF l = NoCall THEN life ELSE [life EXCEPT ![l] = [phase |-> "returned", answer |-> answer]]

(* A takeover that waited for the cleanup connects now, if it gets a permit.  *)
(* Its latch kept the queue empty.                                         *)
ResumeTakeover ==
  /\ cleanup.takeover # NoCall
  /\ \/ /\ ClearToConnect
        /\ Connect(cleanup.takeover)
        /\ UNCHANGED life
     \/ /\ life' = Answered(cleanup.takeover, NotSent(IF stopping THEN "closed" ELSE "busy"))
        /\ UNCHANGED << lastGen, attempt >>
  /\ UNCHANGED << worker, result >>

(* Ordinary work that queued up during the cleanup of an idle device         *)
(* connects now, if it gets a permit.                                      *)
MayResume == ClearToConnect /\ Queue # {} /\ CleanupTarget = "idle"

ResumeQueue ==
  /\ cleanup.takeover = NoCall
  /\ life' = Answered(cleanup.reply, Ok)
  /\ \/ /\ MayResume
        /\ Connect(NoCall) /\ UNCHANGED << worker, result >>
     \/ /\ MayResume
        /\ FailQueued(NotSent("busy")) /\ UNCHANGED << lastGen, attempt >>
     \/ /\ ~MayResume
        /\ UNCHANGED << lastGen, attempt, worker, result >>

(* session.Close joined everything. *)
FinishCleanup ==
  /\ ~loopDone /\ Pending
  /\ open' = open \ {cleanup.gen}
  /\ lost' = lost \cup {cleanup.gen}
  /\ watchDone' = IF CleanupTarget = "uncertain" /\ Unattended THEN watchDone
                  ELSE watchDone \cup {cleanup.gen}
  /\ cleanup' = NoCleanup
  /\ ownership' = CleanupTarget
  /\ ResumeTakeover \/ ResumeQueue
  /\ UNCHANGED << stopping, generation, validation, timerVars, pc, ctxDone, bound,
                  taken, sent, watching, late, validators >>
  /\ Settle(stop)

-----------------------------------------------------------------------------
(* The lifecycle calls: the Manager's latch, then releaseOwnerSession or     *)
(* takeOverOwnerSession.  They ignore their context once latched.           *)

SetLife(l, phase, answer) == life' = [life EXCEPT ![l] = [phase |-> phase, answer |-> answer]]

BeginLifecycle(l) ==
  /\ life[l].phase = "start"
  /\ IF LifecycleLatched \/ OrdinaryAdmitted
     THEN SetLife(l, "returned", NotSent("busy"))
     ELSE SetLife(l, "latched", None)
  /\ UNCHANGED << loopVars, loopDone, timerVars, callVars, stop, sessionVars, watchVars,
                  validators >>

LifecycleAfterDone(l) ==
  /\ life[l].phase = "latched" /\ loopDone
  /\ SetLife(l, "returned", NotSent("closed"))
  /\ UNCHANGED << loopVars, loopDone, timerVars, callVars, stop, sessionVars, watchVars,
                  validators >>

(* The cleanup that failed runs again for a lifecycle call. *)
RetryCleanup(l, target, reply, takeover) ==
  /\ cleanup' = [cleanup EXCEPT !.failed = FALSE, !.target = target,
                                !.reply = reply, !.takeover = takeover]
  /\ SetLife(l, "waiting", None)

Busy == ~NoDeviceWork \/ attempt.gen # 0

ReleaseSession(l) ==
  /\ ~loopDone /\ l \in Releases /\ life[l].phase = "latched"
  /\ \/ /\ stopping \/ Busy \/ Pending
        /\ SetLife(l, "returned", NotSent(IF stopping THEN "closed" ELSE "busy"))
        /\ UNCHANGED << ownership, generation, cleanup, timerVars >>
     \/ /\ ~stopping /\ ~Busy /\ ~Pending /\ ownership = "released"
        /\ SetLife(l, "returned", Ok)
        /\ UNCHANGED << ownership, generation, cleanup, timerVars >>
     \/ /\ ~stopping /\ ~Busy /\ ~Pending /\ ownership # "released"
        /\ generation # 0
        /\ StartCleanup("released", l) /\ StopTimer
        /\ SetLife(l, "waiting", None)
        /\ UNCHANGED ownership
     \/ /\ ~stopping /\ ~Busy /\ ownership # "released"
        /\ generation = 0 /\ Broken
        /\ RetryCleanup(l, "released", l, cleanup.takeover)
        /\ UNCHANGED << ownership, generation, timerVars >>
     \/ /\ ~stopping /\ ~Busy /\ ownership # "released"
        /\ generation = 0 /\ cleanup.gen = 0
        /\ IF ownership \in {"idle", "taken_over", "uncertain"}
           THEN ownership' = "released" /\ SetLife(l, "returned", Ok)
           ELSE UNCHANGED ownership /\ SetLife(l, "returned", NotSent("busy"))
        /\ UNCHANGED << generation, cleanup, timerVars >>
  /\ UNCHANGED << stopping, lastGen, attempt, validation, callVars, sessionVars, watchVars,
                  validators >>
  /\ Settle(stop)

(* A healthy generation is validated; a cleanup under way is waited for, a   *)
(* failed one is retried; otherwise the takeover connects.                 *)
TakeOverSession(l) ==
  /\ ~loopDone /\ l \in Takeovers /\ life[l].phase = "latched"
  /\ \/ /\ stopping \/ Busy \/ validation.gen # 0
        /\ SetLife(l, "returned", NotSent(IF stopping THEN "closed" ELSE "busy"))
        /\ UNCHANGED << lastGen, attempt, cleanup, validation, validators, timerVars >>
     \/ /\ ~stopping /\ ~Busy /\ validation.gen = 0 /\ Pending
        /\ IF Unattended
           THEN cleanup' = [cleanup EXCEPT !.takeover = l] /\ SetLife(l, "waiting", None)
           ELSE UNCHANGED cleanup /\ SetLife(l, "returned", NotSent("busy"))
        /\ UNCHANGED << lastGen, attempt, validation, validators, timerVars >>
     \/ /\ ~stopping /\ ~Busy /\ validation.gen = 0 /\ ~Pending
        /\ generation # 0 /\ ownership = "active"
        /\ StopTimer
        /\ validation' = [gen |-> generation, reply |-> l]
        /\ validators' = validators \cup {generation}
        /\ SetLife(l, "waiting", None)
        /\ UNCHANGED << lastGen, attempt, cleanup >>
     \/ /\ ~stopping /\ ~Busy /\ validation.gen = 0 /\ generation = 0 /\ Broken
        /\ RetryCleanup(l, cleanup.target, NoCall, l)
        /\ UNCHANGED << lastGen, attempt, validation, validators, timerVars >>
     \/ /\ MayConnect(TRUE) /\ ~Busy
        /\ \/ Connect(l) /\ SetLife(l, "waiting", None)
           \/ SetLife(l, "returned", NotSent("busy")) /\ UNCHANGED << lastGen, attempt >>
        /\ UNCHANGED << cleanup, validation, validators, timerVars >>
  /\ UNCHANGED << ownership, stopping, generation, callVars, sessionVars, watchVars >>
  /\ Settle(stop)

(* runValidation, then completeOwnerValidation; the ping's own result is     *)
(* overruled by a session that ended meanwhile.                            *)
FinishValidation(g) ==
  /\ ~loopDone /\ g \in validators
  /\ validators' = validators \ {g}
  /\ \E ponged \in BOOLEAN :
       \/ /\ validation.gen # g
          /\ UNCHANGED << ownership, generation, cleanup, validation, timerVars, life >>
       \/ /\ validation.gen = g /\ generation # g
          /\ Answer(validation.reply, Failed("uncertain"))
          /\ validation' = NoValidation
          /\ UNCHANGED << ownership, generation, cleanup, timerVars >>
       \/ /\ validation.gen = g /\ generation = g /\ g \in lost
          /\ ownership' = "uncertain"
          /\ StartCleanup("uncertain", NoCall) /\ StopTimer
          /\ Answer(validation.reply, Failed("uncertain"))
          /\ validation' = NoValidation
       \/ /\ validation.gen = g /\ generation = g /\ g \notin lost
          /\ Answer(validation.reply, IF ponged THEN Ok ELSE Failed("protocol"))
          /\ validation' = NoValidation
          /\ timer' = IF ponged /\ MayScheduleIdle /\ timer = "none" THEN "armed" ELSE timer
          /\ UNCHANGED << ownership, generation, cleanup, stray >>
  /\ UNCHANGED << stopping, lastGen, attempt, callVars, sessionVars, watchVars >>
  /\ Settle(stop)

-----------------------------------------------------------------------------
(* Close and stopDeviceOwner. *)

StopOwner(s) ==
  /\ stop[s] = "start" /\ ~loopDone
  /\ stopping' = TRUE
  /\ IF stopping
     THEN UNCHANGED << attempt, generation, cleanup, timerVars, worker, result >>
     ELSE /\ StopTimer
          /\ IF attempt.gen # 0
             THEN /\ attempt' = [attempt EXCEPT !.canceled = TRUE]
                  /\ worker' = [c \in Calls |-> IF c \in Queue THEN "canceled" ELSE worker[c]]
                  /\ UNCHANGED result
             ELSE FailQueued(NotSent("closed")) /\ UNCHANGED attempt
          /\ IF generation # 0
             THEN StartCleanup("stopped", NoCall)
             ELSE UNCHANGED << generation, cleanup >>
  /\ UNCHANGED << ownership, lastGen, validation, pc, ctxDone, bound, life, sessionVars,
                  watchVars, validators >>
  /\ Settle([stop EXCEPT ![s] = "waiting"])

(* Close on an owner that already ended answers nil, whatever the first Close *)
(* answered; Close gives up when its context ends first.                   *)
StopAfterDone(s) ==
  /\ stop[s] = "start" /\ loopDone
  /\ stop' = [stop EXCEPT ![s] = "ended"]
  /\ UNCHANGED << loopVars, loopDone, timerVars, callVars, life, sessionVars, watchVars,
                  validators >>

StopExpired(s) ==
  /\ stop[s] = "waiting"
  /\ stop' = [stop EXCEPT ![s] = "expired"]
  /\ UNCHANGED << loopVars, loopDone, timerVars, callVars, life, sessionVars, watchVars,
                  validators >>

-----------------------------------------------------------------------------
CallerStep(c) ==
  \/ PassGate(c) \/ GiveUpRegistration(c) \/ ReceiveReply(c) \/ NoticeCancel(c)
  \/ CancelAfterDone(c) \/ Leave(c) \/ NotifyDemand(c)
  \/ RefuseWorker(c) \/ RegisterAndConnect(c) \/ RegisterAndQueue(c) \/ RegisterAndStart(c)
  \/ CancelWorker(c)

OperationStep(c) == PassSendCheck(c) \/ SendRPC(c) \/ EndOperation(c) \/ CompleteWorker(c)

AttemptStep ==
  \/ FailConnect \/ FinishConnect \/ FailSetup \/ CloseFailedSetup
  \/ FailAttempt \/ ActivateAttempt \/ OrphanAttempt

WatchStep(g) == EndGeneration(g) \/ IgnoreGenerationEnd(g) \/ LateTakeover(g) \/ EndWatch(g)

TimerStep == FireTimer \/ IdleExpired \/ DropExpiry

CleanupStep == FailCleanup \/ FinishCleanup

LifecycleStep(l) == LifecycleAfterDone(l) \/ ReleaseSession(l) \/ TakeOverSession(l)

(* What starts from outside: calls, cancellations, losses, takeovers, Close. *)
Environment ==
  \/ \E c \in Calls : Admit(c) \/ RefuseBusy(c) \/ CancelContext(c)
  \/ \E l \in Lifecycles : BeginLifecycle(l)
  \/ \E s \in Stops : StopOwner(s) \/ StopAfterDone(s) \/ StopExpired(s)
  \/ \E g \in open : LoseSession(g)
  \/ \E g \in open \cup late : RecognizeTakeover(g)

Next ==
  \/ Environment
  \/ \E c \in Calls : CallerStep(c) \/ OperationStep(c)
  \/ AttemptStep
  \/ \E g \in watching \cup late : WatchStep(g)
  \/ TimerStep \/ StrayExpired
  \/ CleanupStep
  \/ \E l \in Lifecycles : LifecycleStep(l)
  \/ \E g \in validators : FinishValidation(g)

Spec == Init /\ [][Next]_vars

(* Goroutines and select loops that can step do step; ctx, session and Close *)
(* are the environment's.  Connect, the pings, operations and session.Close  *)
(* all run under a deadline, so they end.                                  *)
FairSpec ==
  /\ Spec
  /\ \A c \in Calls : WF_vars(CallerStep(c)) /\ WF_vars(OperationStep(c))
  /\ WF_vars(AttemptStep) /\ WF_vars(CleanupStep)
  /\ WF_vars(\E g \in watching : EndGeneration(g) \/ IgnoreGenerationEnd(g))
  /\ WF_vars(TimerStep) /\ WF_vars(StrayExpired)
  /\ \A l \in Lifecycles : WF_vars(LifecycleStep(l))
  /\ WF_vars(\E g \in validators : FinishValidation(g))

-----------------------------------------------------------------------------
(* Safety.                                                                 *)

(* Connecting, active and closing exclude one another: the loop's attempt,    *)
(* generation and cleanup variables are never set together, although        *)
(* completions, expiries, losses and lifecycle calls reach it in any order.  *)
OneSlot ==
  /\ attempt.gen # 0 => generation = 0 /\ cleanup.gen = 0
  /\ generation # 0 => cleanup.gen = 0

(* No session is leaked or replaced before it is joined: one that may still   *)
(* hold resources is the attempt's, the active generation's or the cleanup's. *)
(* With OneSlot there is at most one (startAttempt, completeOwnerCleanup).   *)
SessionsAccountedFor == open \subseteq {attempt.gen, generation, cleanup.gen}

(* A resident generation is active, an ordinary attempt runs only from idle, *)
(* a released device holds nothing (once stopping, "stopped" is published    *)
(* instead), and a cleanup that failed leaves the device uncertain.         *)
SlotsMatch ==
  /\ generation # 0 => ownership = "active"
  /\ attempt.gen # 0 /\ attempt.takeover = NoCall => ownership = "idle"
  /\ ownership = "released" /\ ~stopping => generation = 0 /\ cleanup.gen = 0
  /\ Broken => ownership = "uncertain"

(* What is closed to become idle serves nobody. *)
IdleIsUnused ==
  cleanup.gen # 0 /\ cleanup.target = "idle" =>
    \A c \in Calls : worker[c] \in {"running", "sending", "sent"} => bound[c] # cleanup.gen

(* Ownership says what the loop holds and whom it serves: no late expiry     *)
(* cuts an operation off, and no completion or command that comes out of     *)
(* order leaves an ownership that contradicts the slots.                    *)
OwnershipMatches == SlotsMatch /\ IdleIsUnused

(* Nobody waits for nothing: a queued worker has a connection attempt, a      *)
(* cleanup under way or the end of a taken-over generation still to come; a  *)
(* canceled one has its attempt.  The loop drops queued work nowhere when an *)
(* attempt fails to start or a cleanup ends elsewhere than in idle.         *)
QueueHasDriver ==
  /\ Queue # {} => \/ attempt.gen # 0 \/ Pending
                   \/ generation \in taken \cap watching
  /\ \A c \in Calls : worker[c] = "canceled" => attempt.gen # 0

(* A caller that waits has a worker or an answer, and a worker has a caller   *)
(* that waits: nothing runs on the device for a call that has returned.      *)
CallersAndWorkersPair ==
  \A c \in Calls :
    /\ pc[c] \in {"wait", "await"} => c \in Registered \/ worker[c] = "replied"
    /\ c \in Registered => pc[c] \in {"wait", "cancel", "await"}

(* Each lifecycle call that waits is owed its reply by exactly one holder,    *)
(* and by one that will speak: an attempt, a validation whose ping runs, or  *)
(* a cleanup under way.                                                    *)
LifecycleReplyOwed ==
  /\ \A l \in Lifecycles :
       (IF attempt.takeover = l THEN 1 ELSE 0) + (IF validation.reply = l THEN 1 ELSE 0)
         + (IF cleanup.reply = l THEN 1 ELSE 0) + (IF cleanup.takeover = l THEN 1 ELSE 0)
       = IF life[l].phase = "waiting" THEN 1 ELSE 0
  /\ validation.gen # 0 => validation.gen \in validators
  /\ Attached # {} => Pending

(* What an operation's completion says of its dispatch is true: not_sent only *)
(* of a call that was not handed to the data channel, and an interrupted     *)
(* mutation that was is unknown (classifyTerminalCompletion, ADR 0008).     *)
OutcomeHonest(c) ==
  /\ result[c].outcome = "not_sent" => c \notin sent
  /\ c \in Mutations \cap sent =>
       result[c] \in {Ok, Panic, Failed("rejected")} \/ result[c].outcome = "unknown"

CompletionHonest == \A c \in Calls : worker[c] \in {"ended", "replied"}
                                       /\ pc[c] \in {"wait", "cancel", "await"} => OutcomeHonest(c)

(* A Close that answers nil has joined everything: no session holds           *)
(* resources, no worker, attempt or validation is left (finishIfStopped).    *)
StopJoins ==
  (\E s \in Stops : stop[s] = "ok") =>
     open = {} /\ Registered = {} /\ attempt.gen = 0 /\ validation.gen = 0

(* A resident generation that nothing uses has its idle lease running, or an  *)
(* expiry on its way: scheduleIdle is called wherever the last use ends.     *)
IdleLeaseRuns ==
  generation # 0 /\ generation \notin lost \cup taken /\ ~loopDone /\ NoDeviceWork
    /\ validation.gen = 0 /\ (\A c \in Calls : pc[c] # "notify")
    => timer # "none" \/ generation \in ToSet(stray)

-----------------------------------------------------------------------------
(* Action properties.                                                      *)

(* Sticky ownership: taken_over, uncertain and released are left for idle or  *)
(* active only by a TakeOver call the loop is serving (ADR 0008).  It is part *)
(* of ImplementsOwnership, and proved by itself.                           *)
StickyOwnership ==
  [][( /\ ownership \in {"taken_over", "uncertain", "released"}
       /\ ownership' \in {"idle", "active"}
       => attempt.takeover # NoCall \/ cleanup.takeover # NoCall )]_vars

-----------------------------------------------------------------------------
(* What the owner promises.                                                *)

(* The one session the loop holds, read off its three variables. *)
Phase == CASE attempt.gen # 0 -> "connecting"
           [] attempt.gen = 0 /\ generation # 0 -> "active"
           [] attempt.gen = 0 /\ generation = 0 /\ Pending -> "closing"
           [] attempt.gen = 0 /\ generation = 0 /\ Broken -> "unjoined"
           [] OTHER -> "idle"

Held == IF attempt.gen # 0 THEN attempt.gen
        ELSE IF generation # 0 THEN generation ELSE cleanup.gen

Asked == attempt.takeover # NoCall \/ cleanup.takeover # NoCall

(* The operations that may still send on it. *)
Serving == { c \in Calls : worker[c] \in {"running", "sending"} /\ bound[c] = Held }

Own == INSTANCE Ownership
         WITH phase <- Phase, held <- Held, asked <- Asked, newest <- lastGen,
              serving <- Serving, MayForget <- MayPanic

(* Whatever order calls, completions, losses, expiries and Close come in, the *)
(* loop keeps the promise of Ownership: one session at a time, joined before *)
(* the next one connects; once it ends no operation starts on it, though     *)
(* one that had started may still send, and none does once it is joined;     *)
(* and a sticky state is left for a takeover only (ADR 0008).               *)
ImplementsOwnership == Own!Spec

-----------------------------------------------------------------------------
(* Liveness.                                                               *)

(* Once Close was called the loop ends, even when a session will not close. *)
StopCompletes == stopping ~> loopDone

(* Every operation the Manager admits returns, and so does every             *)
(* ReleaseContext and TakeOverContext: each has one answer on its way.       *)
CallersReturn ==
  /\ \A c \in Calls : pc[c] \notin {"start", "returned"} ~> pc[c] = "returned"
  /\ \A l \in Lifecycles : life[l].phase = "latched" ~> life[l].phase = "returned"

-----------------------------------------------------------------------------
(* What the documentation says and the code does not do.                   *)

(* "Canceling one caller removes only that waiter" (ADR 0008): a call is      *)
(* reported canceled only when its own context ended.                       *)
CancelsOnlyItself ==
  \A c \in Calls : result[c].code = "canceled" => c \in ctxDone

(* "Mutation interruption after dispatch retains unknown semantics" (ADR      *)
(* 0008): what RunPrepared returns is as honest as the completion.          *)
ReturnHonest == \A c \in Calls : pc[c] = "returned" => OutcomeHonest(c)

(* "Recognized takeover immediately fences dispatch, latches taken_over"      *)
(* (ADR 0008): a resident generation whose takeover was recognized is not    *)
(* closed as if it had been idle.                                          *)
TakeoverLatched ==
  [][ generation # 0 /\ generation \in taken /\ generation' = 0 => cleanup'.target # "idle" ]_vars
=============================================================================
