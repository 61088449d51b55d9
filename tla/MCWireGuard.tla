----------------------------- MODULE MCWireGuard -----------------------------
(* A small instance of WireGuard for TLC; its constants are in the cfg     *)
(* file.                                                                   *)
EXTENDS WireGuard, TLC

Symmetry == Permutations(Callers) \cup Permutations(Clients)

=============================================================================
