------------------------- MODULE MCProcessShutdown -------------------------
(***************************************************************************)
(* What meets, for TLC: two ordinary calls that compete for a device, two  *)
(* captures for the one capture and decoder permit, and a release beside a *)
(* capture, beside another release, or beside a call of the other device   *)
(* when the process admits one operation.                                  *)
(***************************************************************************)
EXTENDS ProcessShutdown

CONSTANTS a, b, d1, d2

Of(x, y) == [c \in {a, b} |-> IF c = a THEN x ELSE y]
Case(kinds, targets, all, each) ==
  [kind |-> kinds, target |-> targets,
   limit |-> [operations |-> all, device |-> each, captures |-> 1, decoders |-> 1]]

MCCases ==
  {Case(Of("ordinary", "ordinary"), Of(d1, d1), 2, 1),
   Case(Of("capture", "capture"), Of(d1, d1), 2, 2),
   Case(Of("capture", "lifecycle"), Of(d1, d1), 2, 2),
   Case(Of("ordinary", "lifecycle"), Of(d1, d2), 1, 1),
   Case(Of("lifecycle", "lifecycle"), Of(d1, d1), 2, 2)}
=============================================================================
