--------------------------- MODULE MCRemoteUnlock ---------------------------
(* RemoteUnlock for TLC: login attempts, and nonces, are interchangeable. *)
EXTENDS RemoteUnlock, TLC

SystemSymmetry == Permutations(Helpers) \cup Permutations(Nonces)
=============================================================================
