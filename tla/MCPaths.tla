------------------------------ MODULE MCPaths -------------------------------
(* The ways to a client with up to three addresses: see Paths.cfg.         *)
EXTENDS Paths, TLC

Symmetry == Permutations(Addr)
=============================================================================
