------------------------------ MODULE MCMachines ------------------------------
(* Small instances of Inventory and of SelfMigration for TLC, in one run;   *)
(* their constants are in the cfg file. Machines with their deployments,    *)
(* backup policies, and migrations share no variable: a step of one         *)
(* commutes with every step of the others and no property reads two of      *)
(* them. So a behaviour has the steps of one of the three, chosen in its    *)
(* first state, and the others stay as they began.                          *)
EXTENDS Inventory, SelfMigration, TLC

VARIABLE side

deployVars == <<machineVars, records, deploys>>

BothInit ==
  /\ Init
  /\ MInit
  /\ side \in {"machines", "policies", "migration"}

BothNext ==
  \/ side = "machines" /\ Next /\ UNCHANGED <<policyVars, mvars, side>>
  \/ side = "policies" /\ Next /\ UNCHANGED <<deployVars, mvars, side>>
  \/ side = "migration" /\ MNext /\ UNCHANGED <<vars, side>>

BothSpec == BothInit /\ [][BothNext]_<<vars, mvars, side>>

(* The seeded inventory has its machines on different nodes, the           *)
(* management VM on the one the configuration names.                       *)
CONSTANT First
Spread == [vm \in Guests |-> IF vm = Management THEN First ELSE CHOOSE n \in Nodes : n # First]

===============================================================================
