------------------------------ MODULE FifoGate ------------------------------
(***************************************************************************)
(* What the scheduling gates of internal/jetkvm/scheduling.go promise to   *)
(* their callers: callers stand in one line, only the head of the line     *)
(* owns the gate, and a caller that gives up leaves the line without       *)
(* disturbing the order of the others.  FairGate is shown to implement it. *)
(***************************************************************************)
EXTENDS Sequences, SequencesExt

CONSTANT Callers      \* the goroutines that use the gate

VARIABLE line         \* the owner, followed by the waiters in arrival order

Init == line = << >>

(* A caller joins the end of the line; it owns the gate at once when the   *)
(* line was empty.                                                         *)
Join(c) == /\ c \notin ToSet(line)
           /\ line' = Append(line, c)

(* The owner leaves and the next in line becomes the owner.                *)
Leave == /\ line # << >>
         /\ line' = Tail(line)

(* A caller that is not the owner gives up.                                *)
Abandon(i) == /\ i \in 2 .. Len(line)
              /\ line' = RemoveAt(line, i)

Next == \/ \E c \in Callers : Join(c)
        \/ Leave
        \/ \E i \in 2 .. Len(line) : Abandon(i)

Spec == Init /\ [][Next]_line
=============================================================================
