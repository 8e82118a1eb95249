------------------------- MODULE MCFirmwareUpdate -------------------------
(* Instances of FirmwareUpdate for TLC: two DIMMs that need not be told    *)
(* apart, an image of two chunks, and room for one armed DIMM.             *)
EXTENDS FirmwareUpdate, TLC

Interchangeable == Permutations(Dimms)
============================================================================
