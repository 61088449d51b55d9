----------------------------- MODULE MCBreakGlass -----------------------------
(* A small instance of BreakGlass for TLC; its constants are in the cfg    *)
(* file.                                                                   *)
EXTENDS BreakGlass, TLC

Symmetry == Permutations(Callers)

=============================================================================
