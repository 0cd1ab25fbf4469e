--------------------------- MODULE MCDeviceOwner ---------------------------
(***************************************************************************)
(* DeviceOwner for TLC.  Calls that are all reads (or all mutations) are    *)
(* interchangeable, and so are Close calls; the configurations of the       *)
(* liveness runs do not use the symmetry.                                  *)
(***************************************************************************)
EXTENDS DeviceOwner, TLC

Symmetry == Permutations(Calls) \cup Permutations(Stops)
=============================================================================
