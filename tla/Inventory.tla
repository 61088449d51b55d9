------------------------------- MODULE Inventory -------------------------------
(***************************************************************************)
(* The store's inventory of machines and of backup policies                *)
(* (store/memory.go), and the tools that write them: creating and cloning  *)
(* machines, deploying a blueprint (proxmox/client.go:589-654), writing    *)
(* and explaining backup policies.                                         *)
(*                                                                         *)
(* A machine's name, kind, node and size are left out, and so are a        *)
(* policy's schedule, target and retention: no lookup goes by them.  A     *)
(* process that restarts forgets all of this (Init again), and is left out.*)
(***************************************************************************)
EXTENDS Naturals, Sequences, SequencesExt, FiniteSets

CONSTANTS
  Callers,          \* goroutines that deploy a blueprint
  Blueprints,       \* names in the catalogue
  GivenIDs,         \* machine IDs a client chooses for a clone
  PolicyIDs,        \* IDs of backup policies, chosen or generated
  Workloads,        \* workload IDs backup policies are written for
  Priorities,       \* priorities of backup policies
  MaxMachines       \* BOUND: machines in the inventory

ASSUME InventoryAssumption ==
  /\ GivenIDs \subseteq Nat
  /\ Priorities \subseteq Nat
  /\ MaxMachines \in Nat

VARIABLES
  vms,              \* s.state.VMs: machine IDs, in the order they were added
  vmIDSeq,          \* s.vmIDSeq
  given,            \* auxiliary: positions whose ID no counter gave
  records,          \* s.blueprintSpecs: name -> workload ID and, auxiliary, the
                    \* position of the machine the deployment made
  deploys,          \* caller -> the deployment it is in
  policies,         \* s.backupPolicies
  decision          \* the newest entry of s.decisionLogs

machineVars == <<vms, vmIDSeq, given>>
policyVars  == <<policies, decision>>
vars == <<machineVars, records, deploys, policyVars>>

Policy == [workload : Workloads, priority : Priorities, override : BOOLEAN]
NoDecision == [workload |-> 0, policy |-> 0]

(* Two of the four seeded machines: 100 and the container 201.             *)
Seeds == <<100, 201>>

(* A lookup by ID takes the first machine that has it. *)
Lookup(id) == CHOOSE i \in DOMAIN vms : vms[i] = id /\ \A j \in 1..(i - 1) : vms[j] # id

-----------------------------------------------------------------------------
(* Machines.  The store's mutex is held from choosing the ID to appending. *)
(* A clone needs its template, which one of the machines always is.        *)

NextVMID == 200 + vmIDSeq + 1

(* Deviation: the counter is set to the number of machines added before.   *)
CreateByCount ==
  /\ Len(vms) < MaxMachines
  /\ vms' = Append(vms, NextVMID)
  /\ vmIDSeq' = Len(vms) - Len(Seeds)
  /\ UNCHANGED given

(* CreateVM, CreateLXC, and CloneVM without an ID. *)
CreateVM ==
  /\ Len(vms) < MaxMachines
  /\ vms' = Append(vms, NextVMID)
  /\ vmIDSeq' = vmIDSeq + 1
  /\ UNCHANGED given

(* CloneVM with an ID the client gives. *)
CloneAs(id) ==
  /\ Len(vms) < MaxMachines
  /\ vms' = Append(vms, id)
  /\ given' = given \cup {Len(vms) + 1}
  /\ UNCHANGED vmIDSeq

(* vm.create, lxc.create, vm.clone_from_template. *)
MakeMachine ==
  /\ CreateVM \/ (\E id \in GivenIDs : CloneAs(id))
  /\ UNCHANGED <<records, deploys, policyVars>>

(* DeployBlueprint adds the machine and, without holding the mutex in      *)
(* between, writes the record of the blueprint.                            *)
Provision(c, b) ==
  /\ deploys[c].name = "none"
  /\ CreateVM
  /\ deploys' = [deploys EXCEPT ![c] = [name |-> b, id |-> NextVMID, at |-> Len(vms) + 1]]
  /\ UNCHANGED <<records, policyVars>>

(* Deviation: the record is given the ID of the newest machine. *)
RecordNewest(c) ==
  LET d == deploys[c] IN
  /\ d.name # "none"
  /\ records' = [records EXCEPT ![d.name] = [id |-> vms[Len(vms)], at |-> d.at]]
  /\ deploys' = [deploys EXCEPT ![c] = [name |-> "none", id |-> 0, at |-> 0]]
  /\ UNCHANGED <<machineVars, policyVars>>

Record(c) ==
  LET d == deploys[c] IN
  /\ d.name # "none"
  /\ records' = [records EXCEPT ![d.name] = [id |-> d.id, at |-> d.at]]
  /\ deploys' = [deploys EXCEPT ![c] = [name |-> "none", id |-> 0, at |-> 0]]
  /\ UNCHANGED <<machineVars, policyVars>>

-----------------------------------------------------------------------------
(* Backup policies.                                                        *)

(* UpsertBackupPolicy: under an ID the client gives, or a generated one    *)
(* (which a client may have used before).                                  *)
Upsert(id, p) ==
  /\ policies' = [i \in DOMAIN policies \cup {id} |-> IF i = id THEN p ELSE policies[i]]
  /\ UNCHANGED <<machineVars, records, deploys, decision>>

Candidates(w) == {id \in DOMAIN policies : policies[id].workload = w}

(* Deviation: an equal priority is enough. *)
BeatsOnEqual(id, selected) ==
  policies[id].priority >= policies[selected].priority \/ policies[id].override

(* One turn of the loop of ExplainBackupPolicy: does candidate id replace  *)
(* the one selected so far?                                                *)
Beats(id, selected) ==
  policies[id].priority > policies[selected].priority \/ policies[id].override

(* The loop over the candidates in some order: which one is selected at    *)
(* each turn.                                                              *)
Selects(order, selected) ==
  /\ selected[1] = order[1]
  /\ \A i \in 2 .. Len(order) :
       selected[i] = IF Beats(order[i], selected[i - 1]) THEN order[i] ELSE selected[i - 1]

(* Every result of the loop: Go iterates over a map in any order. *)
Outcomes(w) ==
  LET turns == 1 .. Cardinality(Candidates(w))
  IN  {selected[Cardinality(Candidates(w))] :
         selected \in {s \in [turns -> Candidates(w)] :
                         \E order \in SetToSeqs(Candidates(w)) : Selects(order, s)}}

(* backup.policy.explain; backup.run.now starts what Explain selects. *)
Explain(w) ==
  /\ Candidates(w) # {}
  /\ \E id \in Outcomes(w) : decision' = [workload |-> w, policy |-> id]
  /\ UNCHANGED <<machineVars, records, deploys, policies>>

-----------------------------------------------------------------------------
Init ==
  /\ vms = Seeds
  /\ vmIDSeq = 0
  /\ given = DOMAIN Seeds
  /\ records = [b \in Blueprints |-> [id |-> 0, at |-> 0]]
  /\ deploys = [c \in Callers |-> [name |-> "none", id |-> 0, at |-> 0]]
  /\ policies = <<>>
  /\ decision = NoDecision

Next ==
  \/ MakeMachine
  \/ \E c \in Callers : Record(c) \/ \E b \in Blueprints : Provision(c, b)
  \/ \E id \in PolicyIDs, p \in Policy : Upsert(id, p)
  \/ \E w \in Workloads : Explain(w)

Spec == Init /\ [][Next]_vars

-----------------------------------------------------------------------------
(* Properties.                                                             *)

(* The counter counts the machines whose ID it gave, no two of which share *)
(* one.                                                                    *)
MachinesOK ==
  /\ vms \in Seq(Nat)
  /\ given \subseteq DOMAIN vms
  /\ vmIDSeq = Cardinality(DOMAIN vms \ given)
  /\ \A i, j \in DOMAIN vms \ given : vms[i] = vms[j] => i = j

(* Every variable keeps its type, and the counter repeats none of its IDs  *)
(* (memory.go:190-193, 361-404).                                           *)
TypeOK ==
  /\ MachinesOK
  /\ records \in [Blueprints -> [id : Nat, at : Nat]]
  /\ deploys \in [Callers -> [name : Blueprints \cup {"none"}, id : Nat, at : Nat]]
  /\ policies \in [DOMAIN policies -> Policy] /\ DOMAIN policies \subseteq PolicyIDs
  /\ decision # NoDecision => decision \in [workload : Workloads, policy : PolicyIDs]

(* The record of a deployed blueprint leads to the machine the deployment  *)
(* made: looking its workload ID up, as a migration or a clone does, finds *)
(* that machine, however deployments and other creations interleave -      *)
(* unless an older machine has the ID that no counter gave: the seeded     *)
(* container 201, which the first generated ID repeats, or a clone whose   *)
(* ID the client chose (memory.go:190-193, 361-404, client.go:607-641).    *)
RecordsResolve ==
  \A b \in Blueprints : records[b].at # 0 =>
    Lookup(records[b].id) \in {records[b].at} \cup given

(* What may be selected for a workload, whatever order Go's map iteration  *)
(* takes: without an override, a policy of the highest priority; with      *)
(* overrides, any of them, however low, or any other policy that outranks  *)
(* one of them (memory.go:585-597).  This is what the code makes of a map  *)
(* in Go's order, not what its test wants: OverrideIsSelected.             *)
SelectionMatches ==
  \A w \in Workloads :
    LET C == {id \in DOMAIN policies : policies[id].workload = w}
        O == {id \in C : policies[id].override}
    IN C # {} =>
         Outcomes(w) =
           IF O = {}
             THEN {id \in C : \A j \in C : policies[id].priority >= policies[j].priority}
             ELSE O \cup {id \in C : \E o \in O : policies[id].priority > policies[o].priority}

(* A backup runs under an override when its workload has one: what         *)
(* TestBackupPolicyExplainPriorityOverride (memory_test.go:24-45) asserts  *)
(* of a policy of priority 100 beside an override of priority 10, and the  *)
(* code does only when the override comes last (memory.go:592).            *)
OverrideIsSelected ==
  [][\A w \in Workloads :
       Explain(w) /\ (\E id \in Candidates(w) : policies[id].override)
         => policies[decision'.policy].override]_vars

=============================================================================
