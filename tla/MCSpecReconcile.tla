---------------------------- MODULE MCSpecReconcile ----------------------------
(* A small instance of SpecReconcile for TLC; its constants are in the cfg *)
(* file.                                                                   *)
EXTENDS SpecReconcile

=============================================================================
