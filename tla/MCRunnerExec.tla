----------------------------- MODULE MCRunnerExec -----------------------------
(***************************************************************************)
(* The autonomy worker and one client; the agent of n1 posts for both      *)
(* nodes, as the default configuration of every agent has it, that of n2   *)
(* for itself.  A unit is 60 s: the controller's timeout and the age of    *)
(* heartbeats are 2, service_restart (60 s) is 1, apt_update (300 s) and   *)
(* wireguard_install (600 s, a shell whose children may outlive it) are    *)
(* cut to 3: longer than the controller waits.                             *)
(***************************************************************************)
EXTENDS RunnerExec, TLC

CONSTANTS n1, n2, restart, update, install

TwoBridges == (n1 :> {n1, n2}) @@ (n2 :> {n2})
TheLimits  == (restart :> 1) @@ (update :> 3) @@ (install :> 3)

=============================================================================
