-------------------------- MODULE ProcessShutdown --------------------------
(***************************************************************************)
(* One server process from its first call to its exit: main, run and       *)
(* serveHTTPWithShutdownBudget of cmd/jetkvm-mcp/main.go, over the Manager *)
(* (ManagerAdmission) and the telemetry recorder (TelemetryRecorder).      *)
(*                                                                         *)
(* A traced call, not of the lifecycle, records the event of its admission *)
(* on its way to the owner and the event of its result. On HTTP the        *)
(* listener drains while Manager.Close runs beside it, and Manager.Close   *)
(* runs once more; on stdio only the last one. One budget bounds them all, *)
(* and a second one the flush of the recorder.  Nothing bounds the report  *)
(* of an error, which goes to the sink of the telemetry.                   *)
(***************************************************************************)
EXTENDS ManagerAdmission, TelemetryRecorder

CONSTANT Traced    \* the calls whose events are followed

ASSUME ShutdownConstants == Closers = {"beside", "last"}

VARIABLES
  main,          \* where main and run are
  budget,        \* shutdownBudget: "unset", "running", "expired"
  flushExpired   \* the second context of finishTelemetry has ended

mainVars == <<main, budget, flushExpired>>
vars == <<admissionVars, recorderVars, mainVars>>

Stage(c) == <<c, "stage">>
Tool(c) == <<c, "tool">>
ShutdownEvent == <<NoCall, "shutdown">>
Events == {Stage(c) : c \in Calls} \cup {Tool(c) : c \in Calls} \cup {ShutdownEvent}

ASSUME FlushIsNoEvent == Flush \notin Events

Init ==
  /\ AdmissionInit /\ RecorderInit
  /\ main = "serving" /\ budget = "unset" /\ flushExpired = FALSE

-----------------------------------------------------------------------------
(* The calls                                                               *)

\* A transport starts calls until it is drained or its serving has ended.
Call(c) ==
  /\ at[c] = "idle" /\ main \in {"serving", "draining"} /\ Goto(c, "called")
  /\ UNCHANGED <<caseVars, got, deviceVars, permitVars, decoderWorkers, closeVars, recorderVars,
                 mainVars>>

\* record: an event begun once the recorder is closed is left out.
StartRecording(c) ==
  /\ LET records == c \in Traced /\ Ordinary(c) /\ ~recorderClosed IN
       \/ at[c] = "scheduled" /\ Goto(c, IF records THEN "staging" ELSE "waiting")
       \/ at[c] = "returned" /\ Goto(c, IF records THEN "reporting" ELSE "replied")
  /\ UNCHANGED <<caseVars, got, deviceVars, permitVars, decoderWorkers, closeVars, recorderVars,
                 mainVars>>

FinishRecording(c) ==
  /\ \/ at[c] = "staging" /\ Enqueue(Stage(c), FALSE) /\ Goto(c, "waiting")
     \/ at[c] = "reporting" /\ Enqueue(Tool(c), TRUE) /\ Goto(c, "replied")
  /\ UNCHANGED <<caseVars, got, deviceVars, permitVars, decoderWorkers, closeVars, mainVars>>

Manage(c) == ManagerStep(c) /\ UNCHANGED <<recorderVars, mainVars>>

-----------------------------------------------------------------------------
(* run                                                                     *)

Main(here, there) == main = here /\ main' = there

Restart == budget' = IF budget = "unset" THEN "running" ELSE budget
Expired == budget = "expired"

StartCloser ==
  /\ closer' = [closer EXCEPT !["beside"] = "called"]
  /\ UNCHANGED <<caseVars, at, got, deviceVars, permitVars, decoderWorkers, closed, stopped,
                 closeErr>>

\* The signal on HTTP: shutdownTogether starts Manager.Close beside Shutdown.
Signal ==
  /\ Main("serving", "draining") /\ Restart /\ StartCloser
  /\ UNCHANGED <<flushExpired, recorderVars>>

\* On stdio, the signal or the end of the input; on HTTP, a listener that failed.
ServingEnds ==
  /\ Main("serving", "ended")
  /\ UNCHANGED <<admissionVars, recorderVars, budget, flushExpired>>

\* http.Server.Shutdown waits for the calls in flight, and Server.Close cuts those
\* the budget leaves; either way the calls go on or end by themselves.
Drained ==
  /\ \A c \in Calls : at[c] \in {"idle", "replied"} \/ Expired
  /\ Main("draining", "waiting")
  /\ UNCHANGED <<admissionVars, recorderVars, budget, flushExpired>>

BesideJoined ==
  /\ closer["beside"] = "closed" /\ Main("waiting", "ended")
  /\ UNCHANGED <<admissionVars, recorderVars, budget, flushExpired>>

LastClose ==
  /\ Main("ended", "closing") /\ Restart /\ CloseBegins("last")
  /\ UNCHANGED <<flushExpired, recorderVars>>

ManagerClosed ==
  /\ closer["last"] = "closed" /\ Main("closing", "recording")
  /\ UNCHANGED <<admissionVars, recorderVars, budget, flushExpired>>

\* finishTelemetry: the shutdown event, then Recorder.Close.
RecordShutdown ==
  /\ Main("recording", "marking") /\ Enqueue(ShutdownEvent, FALSE)
  /\ UNCHANGED <<admissionVars, budget, flushExpired>>

CloseRecorder ==
  /\ Main("marking", "asking") /\ MarkClosed
  /\ UNCHANGED <<admissionVars, budget, flushExpired>>

RequestFlush ==
  /\ Main("asking", "flushing") /\ AskForFlush
  /\ UNCHANGED <<admissionVars, budget, flushExpired>>

\* Recorder.Close answers and run returns, with an error to report or without: a
\* signal on stdio is one, on HTTP a listener that failed or would not close.
FlushEnds ==
  /\ \/ main = "flushing" /\ (Flushed \/ flushExpired)
     \/ main = "asking" /\ flushExpired
  /\ main' \in {"reporting", "exited"}
  /\ UNCHANGED <<admissionVars, recorderVars, budget, flushExpired>>

\* The error is written to os.Stderr, where the recorder writes too, before os.Exit.
ReportError ==
  /\ Main("reporting", "exited")
  /\ UNCHANGED <<admissionVars, recorderVars, budget, flushExpired>>

BudgetEnds ==
  /\ main # "exited"
  /\ \/ budget = "running" /\ budget' = "expired" /\ UNCHANGED flushExpired
     \/ main \in {"asking", "flushing"} /\ ~flushExpired /\ flushExpired' = TRUE
        /\ UNCHANGED budget
  /\ UNCHANGED <<admissionVars, recorderVars, main>>

MainStep ==
  \/ Drained \/ BesideJoined \/ LastClose \/ ManagerClosed \/ RecordShutdown
  \/ CloseRecorder \/ RequestFlush \/ FlushEnds

CloserStep ==
  /\ \/ closer["beside"] = "called" /\ CloseBegins("beside")
     \/ \E k \in Closers : JoinOwners(k, Expired) \/ JoinDecoders(k, Expired)
     \/ \E d \in Devices : StopOwner(d)
  /\ UNCHANGED <<recorderVars, mainVars>>

Writing == WriterStep /\ UNCHANGED <<admissionVars, mainVars>>

Running ==
  \/ \E c \in Calls : Call(c) \/ StartRecording(c) \/ FinishRecording(c) \/ Manage(c)
  \/ Signal \/ ServingEnds \/ MainStep \/ ReportError \/ CloserStep \/ BudgetEnds \/ Writing

\* The exit ends every goroutine.
Next == \/ main # "exited" /\ Running
        \/ main = "exited" /\ UNCHANGED vars

Spec == Init /\ [][Next]_vars

\* Main and the closers run, and deadlines pass.  Nothing is asked of the calls, the
\* owners, the decoders, the transport or the sink, for a line or for the report: each
\* may hang.
Fairness ==
  /\ WF_vars(MainStep) /\ WF_vars(CloserStep) /\ WF_vars(BudgetEnds)

FairSpec == Spec /\ Fairness

-----------------------------------------------------------------------------
(* Properties                                                              *)

Scheduling == {"admitted", "scheduled", "staging", "waiting", "operating", "leaving"}
Places == Scheduling \cup
  {"idle", "called", "admitting", "leavingDevice", "uncounting", "latched", "unlatching",
   "framed", "beginning", "decoding", "decoded", "returned", "reporting", "replied"}

\* Every variable keeps its type, and the queues their sizes.
TypeOK ==
  /\ kind \in [Calls -> Kinds] /\ target \in [Calls -> Devices]
  /\ at \in [Calls -> Places] /\ got \subseteq Calls
  /\ mutex \in [Devices -> Calls \cup {NoCall}]
  /\ ordinary \in [Devices -> Nat] /\ lifecycle \in [Devices -> BOOLEAN]
  /\ operations \in Nat /\ deviceOps \in [Devices -> Nat]
  /\ captures \in Nat /\ decoders \in Nat /\ decoderWorkers \in Nat
  /\ closed \in BOOLEAN /\ stopped \subseteq Devices
  /\ closer \in [Closers -> {"idle", "called", "stopping", "joining", "closed"}]
  /\ closeErr \subseteq Closers
  /\ events \in Seq(Events \cup {Flush}) /\ Len(events) <= QueueSize
  /\ terminal \in Seq(Events) /\ Len(terminal) <= QueueSize
  /\ recorderClosed \in BOOLEAN
  /\ dropped \subseteq Events /\ lines \subseteq Events /\ early \subseteq Events
  /\ writer \in {"prefer", "either", "drain", "rest", "summary", "stopped"}
  /\ summary \in Nat
  /\ budget \in {"unset", "running", "expired"}
  /\ main \in {"serving", "draining", "waiting", "ended", "closing", "recording", "marking",
               "asking", "flushing", "reporting", "exited"}
  /\ flushExpired \in BOOLEAN

HoldsOperation(c) ==
  \/ Ordinary(c) /\ at[c] \in Scheduling \cup {"admitting", "leavingDevice"}
  \/ ~Ordinary(c) /\ at[c] \in {"waiting", "operating"}
HoldsDevice(c, d) == target[c] = d /\ Ordinary(c) /\ at[c] \in Scheduling
CountedOn(c, d) ==
  target[c] = d /\ Ordinary(c) /\ at[c] \in Scheduling \cup {"leavingDevice", "uncounting"}
HoldsCapture(c) ==
  Capture(c) /\ at[c] \in {"scheduled", "staging", "waiting", "operating"}
HoldsDecoder(c) == at[c] \in {"beginning", "decoding", "decoded"}
LatchedOn(c, d) ==
  target[c] = d /\ ~Ordinary(c) /\ at[c] \in {"latched", "waiting", "operating", "unlatching"}

\* Every permit channel holds the tokens of exactly the calls that are past its acquire
\* and not past its release, on every path of admission, refusal and return.
PermitsHeld ==
  /\ operations = Cardinality({c \in Calls : HoldsOperation(c)})
  /\ operations <= limit.operations
  /\ \A d \in Devices : /\ deviceOps[d] = Cardinality({c \in Calls : HoldsDevice(c, d)})
                        /\ deviceOps[d] <= limit.device
                        /\ ordinary[d] = Cardinality({c \in Calls : CountedOn(c, d)})
  /\ captures = Cardinality({c \in Calls : HoldsCapture(c)}) /\ captures <= limit.captures
  /\ decoders = Cardinality({c \in Calls : HoldsDecoder(c)}) /\ decoders <= limit.decoders
  /\ decoderWorkers = Cardinality({c \in Calls : at[c] = "decoding"})

\* A release or takeover runs alone on its device: no ordinary call between its
\* admission and its return, and no second lifecycle call.
LifecycleAlone ==
  \A c \in Calls : LatchedOn(c, target[c]) =>
    \A o \in Calls \ {c} : ~CountedOn(o, target[c]) /\ ~LatchedOn(o, target[c])

\* When Manager.Close has returned without giving up, no decoder works and no
\* operation is at an owner, then and ever after.
CloseJoins ==
  \A k \in Closers : closer[k] = "closed" /\ k \notin closeErr =>
    \A c \in Calls : at[c] \notin {"decoding", "operating"}

\* The manager's admission: its permits, its exclusion and what its Close promises.
AdmissionSafe == PermitsHeld /\ LifecycleAlone /\ CloseJoins

\* Once the recorder is flushed, every event recorded before its Close was handed to
\* the writer, or is counted by the summary as refused by full queues; only an event
\* that raced with Close may be missing from both.
NothingLost ==
  Flushed => early \subseteq lines \cup dropped /\ summary >= Cardinality(early \cap dropped)

\* Whatever hangs - a call, an owner, a decoder, the connections of the listener or the
\* sink of the telemetry - the end of serving is followed by the exit, or by an error
\* main has yet to write to that sink: there a sink that hangs keeps the process.
ShutdownEnds == (main # "serving") ~> (main \in {"reporting", "exited"})
=============================================================================
