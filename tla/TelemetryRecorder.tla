------------------------- MODULE TelemetryRecorder -------------------------
(***************************************************************************)
(* internal/telemetry/recorder.go: many goroutines record events without   *)
(* ever waiting, one writer writes them, and Close asks the writer for one *)
(* last summary.  An event of the stage "tool" may use a second queue when *)
(* the first is full.  A line is its event; the writer may be stuck in a   *)
(* write for as long as it likes, and a write may fail.                    *)
(***************************************************************************)
EXTENDS Naturals, Sequences, FiniteSets

CONSTANTS Flush,       \* the queued request of Close, no event
          QueueSize    \* 256 in the code, for each queue

ASSUME QueueConstant == QueueSize \in Nat \ {0}

VARIABLES
  events, terminal,    \* the two queues
  recorderClosed,
  dropped,             \* events a full queue refused
  lines,               \* events written
  writer,              \* "prefer": reads events first; "either"; "drain"; "rest";
                       \* "summary"; "stopped"
  summary,             \* the events the last line says were dropped
  early                \* ghost: events queued or refused before Close began

recorderVars == <<events, terminal, recorderClosed, dropped, lines, writer,
                  summary, early>>

RecorderInit ==
  /\ events = <<>> /\ terminal = <<>> /\ recorderClosed = FALSE /\ dropped = {}
  /\ lines = {} /\ writer = "prefer" /\ summary = 0
  /\ early = {}

-----------------------------------------------------------------------------
(* Producers.  The closed flag is read first, by the guard of the callers  *)
(* of Enqueue, and the event is queued in a later step.                    *)

Room(queue) == Len(queue) < QueueSize

Enqueue(e, tool) ==
  /\ early' = IF recorderClosed THEN early ELSE early \cup {e}
  /\ \/ /\ Room(events)
        /\ events' = Append(events, e) /\ UNCHANGED <<terminal, dropped>>
     \/ /\ ~Room(events) /\ tool /\ Room(terminal)
        /\ terminal' = Append(terminal, e) /\ UNCHANGED <<events, dropped>>
     \/ /\ ~Room(events) /\ (tool => ~Room(terminal))
        /\ dropped' = dropped \cup {e} /\ UNCHANGED <<events, terminal>>
  /\ UNCHANGED <<recorderClosed, lines, writer, summary>>

\* Close: the flag, then the request once the queue has room for it.
MarkClosed ==
  /\ recorderClosed' = TRUE
  /\ UNCHANGED <<events, terminal, dropped, lines, writer, summary, early>>

AskForFlush ==
  /\ Room(events) /\ events' = Append(events, Flush)
  /\ UNCHANGED <<terminal, recorderClosed, dropped, lines, writer, summary, early>>

Flushed == writer = "stopped"

-----------------------------------------------------------------------------
(* The writer                                                              *)

\* A line goes to the sink; an error it reports is only shown by the summary.
Write(e) == lines' = lines \cup {e}

\* The first queue is read when it has something; the flush begins to drain.
TakeEvent ==
  /\ writer \in {"prefer", "either"} /\ events # <<>>
  /\ events' = Tail(events)
  /\ IF Head(events) = Flush
     THEN writer' = "drain" /\ UNCHANGED <<lines>>
     ELSE writer' = "prefer" /\ Write(Head(events))
  /\ UNCHANGED <<terminal, recorderClosed, dropped, summary, early>>

FindNone ==
  /\ writer = "prefer" /\ events = <<>> /\ writer' = "either"
  /\ UNCHANGED <<events, terminal, recorderClosed, dropped, lines, summary, early>>

\* Either queue may be read after the first was found empty, whatever came since.
TakeTerminal ==
  /\ writer = "either" /\ terminal # <<>>
  /\ terminal' = Tail(terminal) /\ writer' = "prefer" /\ Write(Head(terminal))
  /\ UNCHANGED <<events, recorderClosed, dropped, summary, early>>

\* Variant: the flush drains only the queue it came by.
DrainOneQueue ==
  /\ \/ writer = "drain" /\ writer' = "rest" /\ UNCHANGED <<events, lines>>
     \/ /\ writer = "rest" /\ events # <<>>
        /\ events' = Tail(events) /\ writer' = "drain" /\ Write(Head(events))
     \/ /\ writer = "rest" /\ events = <<>> /\ writer' = "summary"
        /\ UNCHANGED <<events, lines>>
  /\ UNCHANGED <<terminal, recorderClosed, dropped, summary, early>>

\* drain: the terminal queue first, one event of the other, and again.
Drain ==
  /\ \/ /\ writer = "drain" /\ terminal # <<>>
        /\ terminal' = Tail(terminal) /\ Write(Head(terminal))
        /\ UNCHANGED <<events, writer>>
     \/ /\ writer = "drain" /\ terminal = <<>> /\ writer' = "rest"
        /\ UNCHANGED <<events, terminal, lines>>
     \/ /\ writer = "rest" /\ events # <<>>
        /\ events' = Tail(events) /\ writer' = "drain" /\ Write(Head(events))
        /\ UNCHANGED terminal
     \/ /\ writer = "rest" /\ events = <<>> /\ writer' = "summary"
        /\ UNCHANGED <<events, terminal, lines>>
  /\ UNCHANGED <<recorderClosed, dropped, summary, early>>

\* The counter is read, the line written; a summary that fails is followed by one
\* attempt at a failure line.  Close is answered either way.
Summarize ==
  /\ writer = "summary" /\ writer' = "stopped"
  /\ summary' = Cardinality(dropped)
  /\ UNCHANGED <<events, terminal, recorderClosed, dropped, lines, early>>

WriterStep == TakeEvent \/ FindNone \/ TakeTerminal \/ Drain \/ Summarize
=============================================================================
