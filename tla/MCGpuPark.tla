----------------------------- MODULE MCGpuPark -----------------------------
(* Small instances of GpuPark for TLC. *)
EXTENDS GpuPark, TLC

Symmetry == Permutations(Reqs \ Hidden) \cup Permutations(Hidden)
=============================================================================
