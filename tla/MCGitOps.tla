------------------------------ MODULE MCGitOps ------------------------------
(* Two callers and the script over two commits; the constants are in the   *)
(* cfg file.                                                               *)
EXTENDS GitOps

=============================================================================
