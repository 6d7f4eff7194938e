--------------------------- MODULE MCUnlockService ---------------------------
(* UnlockService for TLC: connections, and devices, are interchangeable. *)
EXTENDS UnlockService, TLC

ServiceSymmetry == Permutations(Conns) \cup Permutations(Devices)
=============================================================================
