--------------------------- MODULE MCCommandRelay ---------------------------
(* Small instances of CommandRelay for TLC. *)
EXTENDS CommandRelay, TLC

CmdSymmetry == Permutations(Cmd)
=============================================================================
