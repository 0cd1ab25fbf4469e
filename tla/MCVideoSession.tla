--------------------------- MODULE MCVideoSession ---------------------------
(***************************************************************************)
(* A small stream for TLC: pictures that depend on others, parameter       *)
(* sets and newer ones, and an IDR picture of two slices, one of them in   *)
(* fragments.                                                              *)
(***************************************************************************)
EXTENDS VideoSession

Single(nal) == [nal |-> nal, part |-> "single"]

MCFrames ==
  <<<<Single("slice")>>,
    <<Single("slice")>>,
    <<Single("stap")>>,
    <<Single("stap")>>,
    <<Single("idr"), [nal |-> "idr", part |-> "start"], [nal |-> "idr", part |-> "end"]>>>>
=============================================================================
