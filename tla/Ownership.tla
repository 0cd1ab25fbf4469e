----------------------------- MODULE Ownership -----------------------------
(***************************************************************************)
(* What the owner of a device promises (internal/jetkvm/device_owner.go,    *)
(* ADR 0008), whatever its callers, its goroutines and the network do: it   *)
(* holds one session at a time; it connects only when the one before was    *)
(* joined; it is active only with a session that was opened; operations     *)
(* start on it only while it is active, and an RPC is handed over only by    *)
(* an operation that started on the session held and only until that is      *)
(* joined; a session is let go only when it was closed; and what was taken   *)
(* over, uncertain or released becomes usable again only for a call that    *)
(* takes the device over.                                                  *)
(*                                                                         *)
(* It does not promise that nothing is handed over once a generation has     *)
(* ended: an operation may be between its last check and its hand-over.     *)
(***************************************************************************)
EXTENDS Naturals

CONSTANTS Calls,     \* the operations of the device
          MayForget  \* whether a session that would not close may be forgotten

VARIABLES ownership, \* the published ownership
          phase,     \* idle, connecting, active, closing, or unjoined: a close failed
          held,      \* the generation connecting, active, closing or unjoined; or 0
          asked,     \* whether a call that takes the device over is being served
          newest,    \* the newest generation
          serving,   \* the operations that may still send on the session held
          open,      \* the generations whose session may hold resources
          sent       \* the operations that were handed to a session

vars == << ownership, phase, held, asked, newest, serving, open, sent >>

Init ==
  /\ ownership = "idle" /\ phase = "idle" /\ held = 0 /\ asked = FALSE
  /\ newest = 0 /\ serving = {} /\ open = {} /\ sent = {}

(* Where a connection or a close leads. *)
Begin(takeover) ==
  /\ phase' = "connecting" /\ held' = newest + 1 /\ newest' = newest + 1
  /\ asked' = takeover

Rest == phase' = "idle" /\ held' = 0 /\ asked' = FALSE /\ UNCHANGED newest

Hold(next) == phase' = next /\ asked' = FALSE /\ UNCHANGED << held, newest >>

(* A new generation, for ordinary work or for a takeover. *)
Connect(takeover) ==
  /\ phase = "idle" /\ (takeover \/ ownership = "idle")
  /\ Begin(takeover)
  /\ UNCHANGED << ownership, serving, open, sent >>

(* The session of the generation comes into being, or is closed again. *)
Open ==
  /\ phase = "connecting"
  /\ open' = open \cup {held}
  /\ UNCHANGED << ownership, phase, held, asked, newest, serving, sent >>

Undo ==
  /\ phase = "connecting"
  /\ open' = open \ {held}
  /\ UNCHANGED << ownership, phase, held, asked, newest, serving, sent >>

(* The attempt fails, without a session or with one that would not close. *)
Fail ==
  /\ phase = "connecting"
  /\ \/ /\ held \in open => MayForget
        /\ Rest /\ ownership' = IF asked THEN "uncertain" ELSE ownership
     \/ held \in open /\ Hold("unjoined") /\ ownership' = "uncertain"
  /\ UNCHANGED << serving, open, sent >>

(* The operations that waited for the session start with it. *)
Activate ==
  /\ phase = "connecting" /\ held \in open
  /\ Hold("active") /\ ownership' = "active"
  /\ serving' \subseteq Calls
  /\ UNCHANGED << open, sent >>

(* Nobody waits for the session any more. *)
Withdraw ==
  /\ phase = "connecting" /\ held \in open
  /\ Hold("closing")
  /\ UNCHANGED << ownership, serving, open, sent >>

(* Operations start on an active session only. *)
Start ==
  /\ phase = "active"
  /\ serving \subseteq serving' /\ serving' \subseteq Calls
  /\ UNCHANGED << ownership, phase, held, asked, newest, open, sent >>

(* One that had started sends, or ends without, also while the session is    *)
(* being closed; nothing is sent on a session that was joined.              *)
Send(c) ==
  /\ c \in serving /\ held \in open
  /\ serving' = serving \ {c} /\ sent' = sent \cup {c}
  /\ UNCHANGED << ownership, phase, held, asked, newest, open >>

Finish(c) ==
  /\ c \in serving
  /\ serving' = serving \ {c}
  /\ UNCHANGED << ownership, phase, held, asked, newest, open, sent >>

(* The generation ends: unused, released, stopped; lost, or taken over. *)
End ==
  /\ phase = "active"
  /\ Hold("closing") /\ ownership' \in {ownership, "uncertain", "taken_over"}
  /\ UNCHANGED << serving, open, sent >>

(* What ended turns out to have been taken over. *)
Recognize ==
  /\ ~asked
  /\ phase = "closing" \/ (phase = "idle" /\ ownership = "uncertain")
  /\ ownership' = "taken_over"
  /\ UNCHANGED << phase, held, asked, newest, serving, open, sent >>

(* A close that failed is tried again; a takeover waits for the close. *)
Retry(takeover) ==
  /\ phase = "unjoined" \/ (phase = "closing" /\ takeover /\ ~asked)
  /\ phase' = "closing" /\ asked' = takeover
  /\ UNCHANGED << ownership, held, newest, serving, open, sent >>

CloseFails ==
  /\ phase = "closing"
  /\ Hold("unjoined") /\ ownership' = "uncertain"
  /\ UNCHANGED << serving, open, sent >>

(* The session is joined, and the next one may connect at once. *)
Join ==
  /\ phase = "closing"
  /\ open' = open \ {held} /\ serving' = {}
  /\ ownership' \in {"idle", "taken_over", "uncertain", "released", "stopped"}
  /\ ownership' = "idle" => asked \/ ownership \in {"idle", "active"}
  /\ Rest \/ ((asked \/ ownership' = "idle") /\ Begin(asked))
  /\ UNCHANGED sent

Release ==
  /\ phase = "idle" /\ ownership \in {"idle", "taken_over", "uncertain"}
  /\ ownership' = "released"
  /\ UNCHANGED << phase, held, asked, newest, serving, open, sent >>

Next ==
  \/ \E takeover \in BOOLEAN : Connect(takeover) \/ Retry(takeover)
  \/ \E c \in Calls : Send(c) \/ Finish(c)
  \/ Open \/ Undo \/ Fail \/ Activate \/ Withdraw \/ Start \/ End \/ Recognize
  \/ CloseFails \/ Join \/ Release

Spec == Init /\ [][Next]_vars
=============================================================================
