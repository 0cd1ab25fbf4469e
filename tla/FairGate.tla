------------------------------ MODULE FairGate ------------------------------
(***************************************************************************)
(* fairGate of internal/jetkvm/scheduling.go: a cancellable FIFO gate built *)
(* from a mutex, a slice of waiters and one channel per waiter.  It guards  *)
(* the mutation lane of a device and the RPC, capture and session lanes of  *)
(* a generation.                                                           *)
(*                                                                         *)
(* A caller is a goroutine that calls acquire(ctx), works, and calls        *)
(* release().  Every critical section under gate.mu is one step; what        *)
(* happens between two critical sections (a cancellation that races the     *)
(* hand-off, the close of the ready channel after the unlock) is its own    *)
(* step.  A caller may come back any number of times, each time with a      *)
(* fresh context.                                                          *)
(***************************************************************************)
EXTENDS Naturals, Sequences, SequencesExt

CONSTANTS Callers,    \* the goroutines that use the gate
          NoCaller    \* "no waiter was popped"

ASSUME CallersAssumption == NoCaller \notin Callers

VARIABLES held,       \* gate.held
          waiters,    \* gate.waiters, the callers of the queued waiters
          ready,      \* the callers whose waiter's ready channel is closed
          popped,     \* popped[c]: the waiter c popped in release and not yet woken
          canceled,   \* the callers whose context is done
          pc          \* where each caller is

vars == << held, waiters, ready, popped, canceled, pc >>

Locations == { "idle",       \* outside the gate
               "entering",   \* in acquire, before the first ctx check
               "locking",    \* the ctx check passed, waiting for gate.mu
               "waiting",    \* in the select
               "draining",   \* canceled, but already popped: <-waiter.ready
               "holding",    \* acquire returned nil
               "releasing",  \* about to run release
               "closing" }   \* release unlocked, close(waiter.ready) pending

TypeOK ==
  /\ held \in BOOLEAN
  /\ waiters \in Seq(Callers)
  /\ ready \in SUBSET Callers
  /\ popped \in [Callers -> Callers \cup {NoCaller}]
  /\ canceled \in SUBSET Callers
  /\ pc \in [Callers -> Locations]

Init ==
  /\ held = FALSE
  /\ waiters = << >>
  /\ ready = {}
  /\ popped = [c \in Callers |-> NoCaller]
  /\ canceled = {}
  /\ pc = [c \in Callers |-> "idle"]

Goto(c, location) == pc' = [pc EXCEPT ![c] = location]

(***************************************************************************)
(* Mistaken forms of the definitions below, for the mutation checks: each   *)
(* is what a plausible slip in fairGate would do.                          *)
(***************************************************************************)

\* acquire looks at the queue only and forgets gate.held
FreeIgnoringHolder == waiters = << >>

\* a canceled caller that was woken returns the error without release()
WokenWithoutRelease(c) == IF c \in canceled THEN "idle" ELSE "holding"

\* release serves the newest waiter first
NewestWaiter == Len(waiters)

\* release clears held although somebody waits
ReleaseDroppingQueue(c) ==
  /\ pc[c] = "releasing"
  /\ held' = FALSE
  /\ Goto(c, "idle")
  /\ UNCHANGED << waiters, ready, popped, canceled >>

\* the popped waiter's channel is never closed
CloseNothing(c) ==
  /\ pc[c] = "closing"
  /\ popped' = [popped EXCEPT ![c] = NoCaller]
  /\ Goto(c, "idle")
  /\ UNCHANGED << held, waiters, ready, canceled >>

\* the waiter variable is cleared before its channel is closed
CloseCleared(c) ==
  /\ pc[c] = "closing"
  /\ popped' = [popped EXCEPT ![c] = NoCaller]
  /\ ready' = ready \cup {popped'[c]}
  /\ Goto(c, "idle")
  /\ UNCHANGED << held, waiters, canceled >>

-----------------------------------------------------------------------------
Free == ~held /\ waiters = << >>

\* where a woken caller goes: a context that ended meanwhile gives the gate back
Woken(c) == IF c \in canceled THEN "releasing" ELSE "holding"

\* release serves the oldest waiter
NextWaiter == 1

(* A goroutine calls acquire with a context that is live or already done. *)
Arrive(c) ==
  /\ pc[c] = "idle"
  /\ Goto(c, "entering")
  /\ \/ canceled' = canceled \ {c}
     \/ canceled' = canceled \cup {c}
  /\ UNCHANGED << held, waiters, ready, popped >>

(* The caller's context ends while it is inside the gate's code. *)
Cancel(c) ==
  /\ pc[c] \in {"entering", "locking", "waiting"}
  /\ c \notin canceled
  /\ canceled' = canceled \cup {c}
  /\ UNCHANGED << held, waiters, ready, popped, pc >>

(* The first ctx.Err() of acquire. *)
CheckContext(c) ==
  /\ pc[c] = "entering"
  /\ Goto(c, IF c \in canceled THEN "idle" ELSE "locking")
  /\ UNCHANGED << held, waiters, ready, popped, canceled >>

(* The gate is free and nobody waits: take it. *)
TakeFree(c) ==
  /\ pc[c] = "locking"
  /\ Free
  /\ held' = TRUE
  /\ Goto(c, "holding")
  /\ UNCHANGED << waiters, ready, popped, canceled >>

(* Otherwise queue a new waiter. *)
Enqueue(c) ==
  /\ pc[c] = "locking"
  /\ ~Free
  /\ waiters' = Append(waiters, c)
  /\ Goto(c, "waiting")
  /\ UNCHANGED << held, ready, popped, canceled >>

(* The select took <-waiter.ready. *)
Wake(c) ==
  /\ pc[c] = "waiting"
  /\ c \in ready
  /\ ready' = ready \ {c}
  /\ Goto(c, Woken(c))
  /\ UNCHANGED << held, waiters, popped, canceled >>

(* The select took <-ctx.Done() and the waiter is still queued. *)
Withdraw(c) ==
  /\ pc[c] = "waiting"
  /\ c \in canceled
  /\ \E i \in 1 .. Len(waiters) :
        /\ waiters[i] = c
        /\ waiters' = RemoveAt(waiters, i)
  /\ Goto(c, "idle")
  /\ UNCHANGED << held, ready, popped, canceled >>

(* The select took <-ctx.Done() but release had popped the waiter already. *)
MissWithdraw(c) ==
  /\ pc[c] = "waiting"
  /\ c \in canceled
  /\ c \notin ToSet(waiters)
  /\ Goto(c, "draining")
  /\ UNCHANGED << held, waiters, ready, popped, canceled >>

(* The hand-off that raced the cancellation arrives; the gate goes back. *)
Drain(c) ==
  /\ pc[c] = "draining"
  /\ c \in ready
  /\ ready' = ready \ {c}
  /\ Goto(c, "releasing")
  /\ UNCHANGED << held, waiters, popped, canceled >>

(* The holder's deferred release begins. *)
Finish(c) ==
  /\ pc[c] = "holding"
  /\ Goto(c, "releasing")
  /\ UNCHANGED << held, waiters, ready, popped, canceled >>

(* release with nobody waiting. *)
ReleaseFree(c) ==
  /\ pc[c] = "releasing"
  /\ waiters = << >>
  /\ held' = FALSE
  /\ Goto(c, "idle")
  /\ UNCHANGED << waiters, ready, popped, canceled >>

(* release hands the gate to the first waiter: held stays TRUE. *)
ReleaseToNext(c) ==
  /\ pc[c] = "releasing"
  /\ waiters # << >>
  /\ popped' = [popped EXCEPT ![c] = waiters[NextWaiter]]
  /\ waiters' = RemoveAt(waiters, NextWaiter)
  /\ Goto(c, "closing")
  /\ UNCHANGED << held, ready, canceled >>

(* close(waiter.ready), after the unlock. *)
CloseReady(c) ==
  /\ pc[c] = "closing"
  /\ ready' = ready \cup {popped[c]}
  /\ popped' = [popped EXCEPT ![c] = NoCaller]
  /\ Goto(c, "idle")
  /\ UNCHANGED << held, waiters, canceled >>

(* The steps a goroutine inside the gate always takes once it can. *)
Progress(c) ==
  \/ CheckContext(c) \/ TakeFree(c) \/ Enqueue(c)
  \/ Wake(c) \/ Withdraw(c) \/ MissWithdraw(c) \/ Drain(c)
  \/ Finish(c) \/ ReleaseFree(c) \/ ReleaseToNext(c) \/ CloseReady(c)

Next == \E c \in Callers : Arrive(c) \/ Cancel(c) \/ Progress(c)

Spec == Init /\ [][Next]_vars

(* The Go scheduler runs every runnable goroutine, gate.mu is held for a    *)
(* bounded time only, and every holder ends its bounded operation.         *)
Fairness == \A c \in Callers : WF_vars(Progress(c))

FairSpec == Spec /\ Fairness

-----------------------------------------------------------------------------
(* The gate is a token: a caller has it while it works or runs release, and *)
(* while a hand-off to it is under way.                                     *)
HandedTo(c) == \/ c \in ready
               \/ \E d \in Callers : popped[d] = c

HasToken(c) == pc[c] \in {"holding", "releasing"} \/ HandedTo(c)

(* No two callers are ever inside the gate, whatever cancellations race the *)
(* hand-offs (scheduling.go:56-77).                                         *)
MutualExclusion ==
  \A c, d \in Callers :
     pc[c] \in {"holding", "releasing"} /\ pc[d] \in {"holding", "releasing"} => c = d

(* The gate is marked held exactly while one caller has the token: a        *)
(* canceled waiter that was handed the gate never strands it.               *)
TokenConserved ==
  /\ \A c, d \in Callers : HasToken(c) /\ HasToken(d) => c = d
  /\ held <=> \E c \in Callers : HasToken(c)

(* A caller that stopped listening for its turn is certain to be woken: a   *)
(* canceled caller never blocks for good in <-waiter.ready, and a waiting   *)
(* one is queued behind a holder or has been handed the gate.               *)
NoLostWakeup ==
  /\ \A c \in Callers : pc[c] = "draining" => HandedTo(c)
  /\ \A c \in Callers : pc[c] = "waiting" => HandedTo(c) \/ c \in ToSet(waiters)
  /\ waiters # << >> => held

(* Every caller that asks for the gate gets it or gives up: nobody starves. *)
NoStarvation ==
  \A c \in Callers : pc[c] \in {"waiting", "draining"} ~> pc[c] \in {"holding", "idle"}

(* The line of FifoGate: the token's place, then the queued waiters.        *)
Line == IF held
        THEN << CHOOSE c \in Callers : HasToken(c) >> \o waiters
        ELSE << >>

Fifo == INSTANCE FifoGate WITH line <- Line

(* The gate serves its callers first come, first served.                    *)
ImplementsFifoGate == Fifo!Spec
=============================================================================
