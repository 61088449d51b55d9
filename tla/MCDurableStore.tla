---------------------------- MODULE MCDurableStore ----------------------------
(* Small instances of DurableStore for TLC; their constants are in the cfg *)
(* files.                                                                  *)
EXTENDS DurableStore, TLC

Symmetry == Permutations(Callers)

=============================================================================
