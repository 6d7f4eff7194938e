---------------------------- MODULE MCWindowsLogon ----------------------------
(* Symmetry for the model checking of WindowsLogon. *)
EXTENDS WindowsLogon, TLC

LogonSymmetry == Permutations(Conns)

=============================================================================
