------------------------------ MODULE MCInventory ------------------------------
(* A small instance of Inventory for TLC, for the one thing a test says of  *)
(* it; its constants are in the cfg file, and MCMachines has the instance   *)
(* the module's other properties are checked on.                            *)
EXTENDS Inventory

================================================================================
