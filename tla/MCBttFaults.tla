---------------------------- MODULE MCBttFaults ----------------------------
(***************************************************************************)
(* The same arena with media faults: any map entry or log slot may be      *)
(* overwritten, an info block wiped, an msync may fail, the checker may    *)
(* get SIGBUS or die inside the store of a log group.                      *)
(***************************************************************************)
EXTENDS BttArena

\* In range values, and one past the end of each range.
Maps == [flags : {"init", "error", "normal"}, blk : {0, 2, 3, 4}]
Ents == [lba : {0, 2}, old_map : {0, 2, 4}, new_map : {0, 2, 4}, seq : 0 .. 4]
=============================================================================
