---------------------------- MODULE MCBttWrites ----------------------------
(***************************************************************************)
(* Two logical blocks, two lanes, no media faults: the interleavings of    *)
(* writes, power failures, checks, repairs, log rewrites and old and new   *)
(* kernels.                                                                *)
(***************************************************************************)
EXTENDS BttArena
=============================================================================
