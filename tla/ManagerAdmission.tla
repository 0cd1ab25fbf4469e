-------------------------- MODULE ManagerAdmission --------------------------
(***************************************************************************)
(* Manager of internal/jetkvm/manager.go and captureScreen of capture.go:  *)
(* the permits an operation takes and gives back, the exclusion of the     *)
(* lifecycle operations of a device from its ordinary ones, the decoders,  *)
(* and Close.                                                              *)
(*                                                                         *)
(* A call is one operation of one device: "ordinary", "capture" (ordinary  *)
(* too, with a frame to decode after it) or "lifecycle" (release,          *)
(* takeover). A permit channel is the number of its tokens. What the       *)
(* device's owner does is DeviceOwner; here an operation it took ends when *)
(* it likes, and the owner joins when none is left.                        *)
(***************************************************************************)
EXTENDS Naturals, FiniteSets

CONSTANTS Calls, NoCall, Devices,
          Cases,      \* the kinds and targets of the calls, with the limits configured
          Closers     \* the calls of Manager.Close of one process

Kinds == {"ordinary", "capture", "lifecycle"}

ASSUME AdmissionConstants ==
  /\ IsFiniteSet(Calls) /\ NoCall \notin Calls
  /\ \A case \in Cases :
       /\ case.kind \in [Calls -> Kinds] /\ case.target \in [Calls -> Devices]
       /\ \A l \in {"operations", "device", "captures", "decoders"} : case.limit[l] \in Nat \ {0}

VARIABLES
  kind, target,    \* of each call; never change
  limit,           \* the limits configured; never change
  at,              \* where each call is
  got,             \* calls whose operation succeeded at the owner
  mutex,           \* who holds each device's admission.mu
  ordinary, lifecycle,                  \* of each device's admission
  operations, deviceOps, captures, decoders,      \* permits taken
  decoderWorkers,  \* of the WaitGroup
  closed,          \* Manager.closed
  stopped,         \* devices whose owner admits nothing more
  closer,          \* where each call of Close is
  closeErr         \* calls of Close that gave up

caseVars == <<kind, target, limit>>
permitVars == <<operations, deviceOps, captures, decoders>>
deviceVars == <<mutex, ordinary, lifecycle>>
closeVars == <<closed, stopped, closer, closeErr>>
admissionVars == <<caseVars, at, got, deviceVars, permitVars, decoderWorkers, closeVars>>

AdmissionInit ==
  /\ \E case \in Cases : kind = case.kind /\ target = case.target /\ limit = case.limit
  /\ at = [c \in Calls |-> "idle"] /\ got = {}
  /\ mutex = [d \in Devices |-> NoCall]
  /\ ordinary = [d \in Devices |-> 0] /\ lifecycle = [d \in Devices |-> FALSE]
  /\ operations = 0 /\ deviceOps = [d \in Devices |-> 0] /\ captures = 0 /\ decoders = 0
  /\ decoderWorkers = 0
  /\ closed = FALSE /\ stopped = {} /\ closer = [k \in Closers |-> "idle"]
  /\ closeErr = {}

Goto(c, place) == at' = [at EXCEPT ![c] = place]
Unlocked(c) == mutex[target[c]] = NoCall
Ordinary(c) == kind[c] # "lifecycle"
Capture(c) == kind[c] = "capture"

-----------------------------------------------------------------------------
(* withScheduledOperation: all of it under admission.mu, which the global  *)
(* permits and the closed flag are not under                               *)

Refuse(c) ==
  /\ at[c] = "called" /\ Ordinary(c) /\ Unlocked(c)
  /\ closed \/ lifecycle[target[c]] \/ operations >= limit.operations
  /\ Goto(c, "returned")
  /\ UNCHANGED <<caseVars, got, deviceVars, permitVars, decoderWorkers, closeVars>>

TakeOperation(c) ==
  /\ at[c] = "called" /\ Ordinary(c) /\ Unlocked(c)
  /\ ~closed /\ ~lifecycle[target[c]] /\ operations < limit.operations
  /\ operations' = operations + 1
  /\ mutex' = [mutex EXCEPT ![target[c]] = c]
  /\ Goto(c, "admitting")
  /\ UNCHANGED <<caseVars, got, ordinary, lifecycle, deviceOps, captures, decoders,
                 decoderWorkers, closeVars>>

TakeDevice(c) ==
  /\ at[c] = "admitting"
  /\ mutex' = [mutex EXCEPT ![target[c]] = NoCall]
  /\ \/ /\ deviceOps[target[c]] < limit.device
        /\ deviceOps' = [deviceOps EXCEPT ![target[c]] = @ + 1]
        /\ ordinary' = [ordinary EXCEPT ![target[c]] = @ + 1]
        /\ Goto(c, "admitted") /\ UNCHANGED operations
     \/ /\ deviceOps[target[c]] >= limit.device
        /\ operations' = operations - 1
        /\ Goto(c, "returned") /\ UNCHANGED <<deviceOps, ordinary>>
  /\ UNCHANGED <<caseVars, got, lifecycle, captures, decoders, decoderWorkers, closeVars>>

-----------------------------------------------------------------------------
(* runOperation: the permits go back in the opposite order                 *)

TakeCapture(c) ==
  /\ at[c] = "admitted"
  /\ \/ /\ ~Capture(c) /\ Goto(c, "scheduled") /\ UNCHANGED captures
     \/ /\ Capture(c) /\ captures < limit.captures
        /\ captures' = captures + 1 /\ Goto(c, "scheduled")
     \/ /\ Capture(c) /\ captures >= limit.captures
        /\ Goto(c, "leaving") /\ UNCHANGED captures
  /\ UNCHANGED <<caseVars, got, deviceVars, operations, deviceOps, decoders, decoderWorkers,
                 closeVars>>

\* The owner takes the operation, unless it was stopped.
Operate(c) ==
  /\ at[c] = "waiting" /\ target[c] \notin stopped /\ Goto(c, "operating")
  /\ UNCHANGED <<caseVars, got, deviceVars, permitVars, decoderWorkers, closeVars>>

\* RunPrepared returns: refused, canceled or failed, or once it was taken, anything.
OwnerReturns(c) ==
  /\ at[c] \in {"waiting", "operating"} /\ Ordinary(c)
  /\ \/ got' = got
     \/ at[c] = "operating" /\ got' = got \cup {c}
  /\ captures' = IF Capture(c) THEN captures - 1 ELSE captures
  /\ Goto(c, "leaving")
  /\ UNCHANGED <<caseVars, deviceVars, operations, deviceOps, decoders, decoderWorkers, closeVars>>

GiveDevice(c) ==
  /\ at[c] = "leaving" /\ Goto(c, "leavingDevice")
  /\ deviceOps' = [deviceOps EXCEPT ![target[c]] = @ - 1]
  /\ UNCHANGED <<caseVars, got, deviceVars, operations, captures, decoders, decoderWorkers,
                 closeVars>>

GiveOperation(c) ==
  /\ at[c] = "leavingDevice" /\ Goto(c, "uncounting")
  /\ operations' = operations - 1
  /\ UNCHANGED <<caseVars, got, deviceVars, deviceOps, captures, decoders, decoderWorkers,
                 closeVars>>

Uncount(c) ==
  /\ at[c] = "uncounting" /\ Unlocked(c)
  /\ ordinary' = [ordinary EXCEPT ![target[c]] = @ - 1]
  /\ Goto(c, IF Capture(c) /\ c \in got THEN "framed" ELSE "returned")
  /\ UNCHANGED <<caseVars, got, mutex, lifecycle, permitVars, decoderWorkers, closeVars>>

-----------------------------------------------------------------------------
(* runLifecycleOperation: the latch is taken under admission.mu, the       *)
(* permit after it                                                         *)

Latch(c) ==
  /\ at[c] = "called" /\ ~Ordinary(c) /\ Unlocked(c)
  /\ \/ Goto(c, "returned") /\ UNCHANGED lifecycle    \* refused, or its context has ended
     \/ /\ ~closed /\ ~lifecycle[target[c]] /\ ordinary[target[c]] = 0
        /\ lifecycle' = [lifecycle EXCEPT ![target[c]] = TRUE]
        /\ Goto(c, "latched")
  /\ UNCHANGED <<caseVars, got, mutex, ordinary, permitVars, decoderWorkers, closeVars>>

\* Variant: the release is deferred before the permit is known to be taken.
LatchedGivesAnyway(c) ==
  /\ at[c] = "latched"
  /\ \/ /\ operations < limit.operations /\ operations' = operations + 1
        /\ Goto(c, "waiting")
     \/ /\ operations >= limit.operations /\ operations' = operations - 1
        /\ Goto(c, "unlatching")
  /\ UNCHANGED <<caseVars, got, deviceVars, deviceOps, captures, decoders, decoderWorkers,
                 closeVars>>

LatchedTakesOperation(c) ==
  /\ at[c] = "latched"
  /\ \/ /\ operations < limit.operations /\ operations' = operations + 1 /\ Goto(c, "waiting")
     \/ /\ operations >= limit.operations /\ Goto(c, "unlatching") /\ UNCHANGED operations
  /\ UNCHANGED <<caseVars, got, deviceVars, deviceOps, captures, decoders, decoderWorkers,
                 closeVars>>

LifecycleReturns(c) ==
  /\ at[c] \in {"waiting", "operating"} /\ ~Ordinary(c)
  /\ operations' = operations - 1 /\ Goto(c, "unlatching")
  /\ UNCHANGED <<caseVars, got, deviceVars, deviceOps, captures, decoders, decoderWorkers,
                 closeVars>>

Unlatch(c) ==
  /\ at[c] = "unlatching" /\ Unlocked(c)
  /\ lifecycle' = [lifecycle EXCEPT ![target[c]] = FALSE]
  /\ Goto(c, "returned")
  /\ UNCHANGED <<caseVars, got, mutex, ordinary, permitVars, decoderWorkers, closeVars>>

-----------------------------------------------------------------------------
(* captureScreen after the frame: the operation's permits are gone         *)

\* Refused, or the context has ended: its own deadline, the caller's or, some time
\* after closed was set, the shutdown's.
TakeDecoder(c) ==
  /\ at[c] = "framed"
  /\ \/ Goto(c, "returned") /\ UNCHANGED decoders
     \/ /\ decoders < limit.decoders
        /\ decoders' = decoders + 1 /\ Goto(c, "beginning")
  /\ got' = got \ {c}
  /\ UNCHANGED <<caseVars, deviceVars, operations, deviceOps, captures, decoderWorkers,
                 closeVars>>

\* Variant: the closed flag is not read again under workMu.
BeginDecoderUnchecked(c) ==
  /\ at[c] = "beginning" /\ decoderWorkers' = decoderWorkers + 1 /\ Goto(c, "decoding")
  /\ UNCHANGED <<caseVars, got, deviceVars, permitVars, closeVars>>

\* beginDecoder, under workMu.
BeginDecoder(c) ==
  /\ at[c] = "beginning"
  /\ \/ closed /\ Goto(c, "decoded") /\ UNCHANGED decoderWorkers
     \/ ~closed /\ decoderWorkers' = decoderWorkers + 1 /\ Goto(c, "decoding")
  /\ UNCHANGED <<caseVars, got, deviceVars, permitVars, closeVars>>

\* The decoder returns, with a picture or without: the worker is done first.
Decoded(c) ==
  /\ at[c] = "decoding" /\ decoderWorkers' = decoderWorkers - 1 /\ Goto(c, "decoded")
  /\ UNCHANGED <<caseVars, got, deviceVars, permitVars, closeVars>>

GiveDecoder(c) ==
  /\ at[c] = "decoded" /\ decoders' = decoders - 1 /\ Goto(c, "returned")
  /\ UNCHANGED <<caseVars, got, deviceVars, operations, deviceOps, captures, decoderWorkers,
                 closeVars>>

ManagerStep(c) ==
  \/ Refuse(c) \/ TakeOperation(c) \/ TakeDevice(c) \/ TakeCapture(c)
  \/ Operate(c) \/ OwnerReturns(c) \/ GiveDevice(c) \/ GiveOperation(c) \/ Uncount(c)
  \/ Latch(c) \/ LatchedTakesOperation(c) \/ LifecycleReturns(c) \/ Unlatch(c)
  \/ TakeDecoder(c) \/ BeginDecoder(c) \/ Decoded(c) \/ GiveDecoder(c)

-----------------------------------------------------------------------------
(* Manager.Close(ctx); expired says that ctx has ended                     *)

CloseBegins(k) ==
  /\ closer' = [closer EXCEPT ![k] = "stopping"]
  /\ closed' = TRUE
  /\ UNCHANGED <<caseVars, at, got, deviceVars, permitVars, decoderWorkers, stopped, closeErr>>

\* deviceOwner.Close of each owner, in a goroutine of its own.
StopOwner(d) ==
  /\ \E k \in Closers : closer[k] = "stopping"
  /\ d \notin stopped /\ stopped' = stopped \cup {d}
  /\ UNCHANGED <<caseVars, at, got, deviceVars, permitVars, decoderWorkers, closed, closer,
                 closeErr>>

GivesUp(k, expired) == expired /\ closeErr' = closeErr \cup {k}

\* The result of every owner is awaited; an owner joins or gives up.
JoinOwners(k, expired) ==
  /\ closer[k] = "stopping" /\ stopped = Devices
  /\ closer' = [closer EXCEPT ![k] = "joining"]
  /\ \/ (\A c \in Calls : at[c] # "operating") /\ UNCHANGED closeErr
     \/ GivesUp(k, expired)
  /\ UNCHANGED <<caseVars, at, got, deviceVars, permitVars, decoderWorkers, closed, stopped>>

\* Variant: the workers are waited for without the context.
JoinDecodersForGood(k, expired) ==
  /\ closer[k] = "joining" /\ closer' = [closer EXCEPT ![k] = "closed"]
  /\ decoderWorkers = 0
  /\ UNCHANGED <<caseVars, at, got, deviceVars, permitVars, decoderWorkers, closed, stopped,
                 closeErr>>

JoinDecoders(k, expired) ==
  /\ closer[k] = "joining" /\ closer' = [closer EXCEPT ![k] = "closed"]
  /\ \/ decoderWorkers = 0 /\ UNCHANGED closeErr
     \/ GivesUp(k, expired)
  /\ UNCHANGED <<caseVars, at, got, deviceVars, permitVars, decoderWorkers, closed, stopped>>
=============================================================================
