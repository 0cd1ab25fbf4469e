---------------------------- MODULE MCDeviceLane ----------------------------
(***************************************************************************)
(* What meets, for TLC: the file written while one job mounts it, and pairs *)
(* of the other operations, over what an earlier upload left behind.       *)
(***************************************************************************)
EXTENDS DeviceLane

CONSTANTS a, b

Both(k, l) == [j \in {a, b} |-> IF j = a THEN k ELSE l]
Case(kinds, left, n) == [kind |-> kinds, left |-> left, writes |-> n]

MCCases ==
  {Case(Both("mount", "absent"), {}, 2), Case(Both("upload", "status"), {"partial"}, 1)}
    \cup {Case(Both("mount", "status"), left, 0) : left \in SUBSET {"partial", "final"}}
    \cup {Case(Both(k, l), {}, 0) : k \in {"keys", "click"}, l \in {"status", "power", "move"}}
    \cup {Case(Both("upload", "mount"), {}, 0), Case(Both("click", "upload"), {}, 0)}
=============================================================================
