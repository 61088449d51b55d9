---------------------------- MODULE SelfMigration ----------------------------
(***************************************************************************)
(* Where the control plane runs.  vm.migrate (Client.MigrateVM) and        *)
(* proxmaster.self_migrate (Client.SelfMigrateProxmaster) of               *)
(* proxmox/client.go move a machine the client names: Proxmox starts a     *)
(* task that moves it, the store's inventory entry is written, and         *)
(* self_migrate then switches the active endpoint of the control-plane     *)
(* manager, whichever machine it has moved.  The three are written in      *)
(* separate steps by goroutines that share no lock.                        *)
(*                                                                         *)
(* Proxmox is external.  Its answer to a migration says that a task has    *)
(* been started; the code drops the task's name, and the task ends later,  *)
(* with the machine on its target or where it was.  A migration whose      *)
(* source is not the machine's node, or of a machine that has a task, is   *)
(* refused; an answer may be lost (the HTTP client gives up, or the body   *)
(* cannot be read).  Every machine is in the inventory and in the cluster. *)
(*                                                                         *)
(* Names that other modules have as well begin with M here, so that one    *)
(* module can extend this one beside Inventory.                            *)
(***************************************************************************)
CONSTANTS
  Migrators,        \* goroutines that may be in a migration
  Guests,           \* the machines
  Management,       \* the one Proxmaster runs in, the default of self_migrate
  Nodes,            \* the cluster's nodes
  Seed,             \* the node a new process believes each machine to be on
  Targets,          \* the nodes clients ask for, unknown ones included
  RealAPI           \* whether the Proxmox API is configured

ASSUME MigrationAssumption ==
  /\ Management \in Guests
  /\ Seed \in [Guests -> Nodes]
  /\ RealAPI \in BOOLEAN

Ops == {"self", "plain"}

VARIABLES
  live,             \* external: the node each machine runs on
  heading,          \* external: where its task takes it; without one, where it is
  stored,           \* the NodeID of its inventory entry
  currentNode,      \* the manager's current node
  handed,           \* auxiliary: the endpoint was last switched for the management
                    \* VM, and no plain migration has moved it since
  spoiled,          \* auxiliary: machines whose calls overlapped, or for which an
                    \* answer was lost, a task failed or a new process is wrong,
                    \* since a call on its own last moved them
  calls             \* caller -> where it is and its local variables

mvars == <<live, heading, stored, currentNode, handed, spoiled, calls>>

(* The configured node of the control plane, where the seeded inventory    *)
(* has the management VM.                                                  *)
Home == Seed[Management]

Place == Nodes \cup Targets

(* `alone': auxiliary, no call on the same machine was in progress with it. *)
Call == [pc : {"idle", "check", "source", "post", "store", "switch"},
         op : Ops, vm : Guests, target : Place, source : Place, alone : BOOLEAN]

IdleCall == [pc |-> "idle", op |-> "plain", vm |-> Management,
             target |-> Home, source |-> Home, alone |-> FALSE]

Quiet == \A c \in Migrators : calls[c].pc = "idle"

Go(c, pc) == calls' = [calls EXCEPT ![c] = [calls[c] EXCEPT !.pc = pc]]
Return(c) == calls' = [calls EXCEPT ![c] = IdleCall]

(* Where MigrateVM begins. *)
MigrateEntry == IF RealAPI THEN "source" ELSE "store"

(* The calls in progress on a machine. *)
On(vm) == {c \in Migrators : calls[c].pc # "idle" /\ calls[c].vm = vm}

(* The two tools are called with any machine; self_migrate takes the       *)
(* management VM when it is given none.                                    *)
Begin(c, op, vm, t) ==
  /\ calls[c].pc = "idle"
  /\ calls' = [d \in Migrators |->
       IF d = c
       THEN [pc |-> IF op = "self" THEN "check" ELSE MigrateEntry, op |-> op, vm |-> vm,
             target |-> t, source |-> Home, alone |-> On(vm) = {}]
       ELSE [calls[d] EXCEPT !.alone = calls[d].alone /\ d \notin On(vm)]]
  /\ spoiled' = IF On(vm) = {} THEN spoiled ELSE spoiled \cup {vm}
  /\ UNCHANGED <<live, heading, stored, currentNode, handed>>

(* SelfMigrateProxmaster: the machine is not there already, and the target *)
(* is a node of the inventory, all of which are online.                    *)
Check(c) ==
  /\ calls[c].pc = "check"
  /\ IF calls[c].target # stored[calls[c].vm] /\ calls[c].target \in Nodes
     THEN Go(c, MigrateEntry)
     ELSE Return(c)
  /\ UNCHANGED <<live, heading, stored, currentNode, handed, spoiled>>

-----------------------------------------------------------------------------
(* MigrateVM.                                                              *)

(* GetState asks Proxmox, and takes the inventory when that fails. *)
ReadSource(c) ==
  /\ calls[c].pc = "source"
  /\ \E source \in {live[calls[c].vm], stored[calls[c].vm]} :
       calls' = [calls EXCEPT ![c] = [calls[c] EXCEPT !.pc = "post", !.source = source]]
  /\ UNCHANGED <<live, heading, stored, currentNode, handed, spoiled>>

(* Deviation: the error of the migration is dropped. *)
PostErrorDropped(c) ==
  /\ calls[c].pc = "post"
  /\ Go(c, "store")
  /\ UNCHANGED <<live, heading, stored, currentNode, handed, spoiled>>

(* Proxmox starts the task. *)
StartTask(c) ==
  LET vm == calls[c].vm
  IN  /\ calls[c].pc = "post"
      /\ live[vm] = calls[c].source
      /\ heading[vm] = live[vm]
      /\ calls[c].target \in Nodes
      /\ heading' = [heading EXCEPT ![vm] = calls[c].target]

PostOK(c) ==
  /\ StartTask(c)
  /\ spoiled' = IF calls[c].alone THEN spoiled \ {calls[c].vm} ELSE spoiled
  /\ Go(c, "store")
  /\ UNCHANGED <<live, stored, currentNode, handed>>

PostError(c) ==
  /\ calls[c].pc = "post"
  /\ Return(c)
  /\ UNCHANGED <<live, heading, stored, currentNode, handed, spoiled>>

(* The task starts, and MigrateQemuVM returns an error all the same. *)
PostLost(c) ==
  /\ StartTask(c)
  /\ spoiled' = spoiled \cup {calls[c].vm}
  /\ Return(c)
  /\ UNCHANGED <<live, stored, currentNode, handed>>

(* The store's MigrateVM takes any target.  Without the Proxmox API the    *)
(* inventory is all there is of the cluster.                               *)
Store(c) ==
  LET vm == calls[c].vm
      t  == calls[c].target
  IN  /\ calls[c].pc = "store"
      /\ stored' = [stored EXCEPT ![vm] = t]
      /\ live' = IF RealAPI THEN live ELSE [live EXCEPT ![vm] = t]
      /\ heading' = IF RealAPI THEN heading ELSE [heading EXCEPT ![vm] = t]
      /\ spoiled' = IF ~RealAPI /\ calls[c].alone THEN spoiled \ {vm} ELSE spoiled
      /\ UNCHANGED currentNode

(* Deviation: every migration goes on to the endpoint. *)
AlwaysSwitch(c) ==
  /\ Store(c)
  /\ Go(c, "switch")
  /\ UNCHANGED handed

StoreMigration(c) ==
  /\ Store(c)
  /\ IF calls[c].op = "self" THEN Go(c, "switch") ELSE Return(c)
  /\ handed' = (handed /\ (calls[c].op = "self" \/ calls[c].vm # Management))

(* Deviation: the endpoint is switched to where the machine came from. *)
SwitchBack(c) ==
  /\ calls[c].pc = "switch"
  /\ currentNode' = calls[c].source
  /\ handed' = (calls[c].vm = Management)
  /\ Return(c)
  /\ UNCHANGED <<live, heading, stored, spoiled>>

SwitchTo(c) ==
  /\ calls[c].pc = "switch"
  /\ currentNode' = calls[c].target
  /\ handed' = (calls[c].vm = Management)
  /\ Return(c)
  /\ UNCHANGED <<live, heading, stored, spoiled>>

-----------------------------------------------------------------------------
(* The cluster and the process.                                            *)

(* A task ends, well or badly. *)
TaskDone(vm) ==
  /\ live[vm] # heading[vm]
  /\ live' = [live EXCEPT ![vm] = heading[vm]]
  /\ UNCHANGED <<heading, stored, currentNode, handed, spoiled, calls>>

TaskFails(vm) ==
  /\ live[vm] # heading[vm]
  /\ heading' = [heading EXCEPT ![vm] = live[vm]]
  /\ spoiled' = spoiled \cup {vm}
  /\ UNCHANGED <<live, stored, currentNode, handed, calls>>

(* What a process starts with: the inventory it is seeded with, and the    *)
(* endpoint of its configuration.  Tasks go on without it.                 *)
Restart ==
  /\ stored' = Seed
  /\ currentNode' = Home
  /\ handed' = TRUE
  /\ calls' = [c \in Migrators |-> IdleCall]
  /\ live' = IF RealAPI THEN live ELSE Seed
  /\ heading' = IF RealAPI THEN heading ELSE Seed
  /\ spoiled' = {vm \in Guests : heading'[vm] # Seed[vm]}

MInit ==
  /\ live \in IF RealAPI THEN [Guests -> Nodes] ELSE {Seed}
  /\ heading = live
  /\ stored = Seed
  /\ currentNode = Home
  /\ handed = TRUE
  /\ spoiled = {vm \in Guests : live[vm] # Seed[vm]}
  /\ calls = [c \in Migrators |-> IdleCall]

MNext ==
  \/ \E c \in Migrators :
       \/ \E op \in Ops, vm \in Guests, t \in Targets : Begin(c, op, vm, t)
       \/ Check(c) \/ ReadSource(c) \/ PostOK(c) \/ PostError(c) \/ PostLost(c)
       \/ StoreMigration(c) \/ SwitchTo(c)
  \/ \E vm \in Guests : TaskDone(vm) \/ TaskFails(vm)
  \/ Restart

MSpec == MInit /\ [][MNext]_mvars

-----------------------------------------------------------------------------
(* Properties.                                                             *)

(* Every variable keeps its type; only a self-migration is on its way to   *)
(* the endpoint (client.go:113-139, 184-237).                              *)
MTypeOK ==
  /\ live \in [Guests -> Place]
  /\ heading \in [Guests -> Place]
  /\ stored \in [Guests -> Place]
  /\ currentNode \in Place
  /\ handed \in BOOLEAN
  /\ spoiled \subseteq Guests
  /\ calls \in [Migrators -> Call]
  /\ \A c \in Migrators : calls[c].pc \in {"check", "switch"} => calls[c].op = "self"

(* When a self-migration switches the endpoint and no other call has been  *)
(* on its machine meanwhile, the endpoint is the node the inventory has    *)
(* the machine on, and the machine is there or on its way there unless its *)
(* task has failed, whatever overlapping calls, lost answers, failed tasks *)
(* and restarts had made of the three before (client.go:192-223).          *)
LoneMoveAgrees ==
  [][\A c \in Migrators : SwitchTo(c) /\ calls[c].alone =>
       LET vm == calls[c].vm
       IN  /\ stored[vm] = calls[c].target
           /\ currentNode' = stored[vm]
           /\ vm \in spoiled \/ heading[vm] = stored[vm]]_mvars

(* With no call in progress the inventory names the node each machine is   *)
(* on or on its way to, failed migrations included, but for what           *)
(* overlapping calls on it, lost answers, failed tasks and restarts have   *)
(* spoiled, which the next migration that Proxmox takes and nobody         *)
(* overlaps makes good; and so does the endpoint for the management VM,    *)
(* unless it was last switched for another machine, or a plain migration   *)
(* has moved the management VM since (client.go:130-138, 216-223).         *)
CopiesAgree ==
  Quiet =>
    /\ \A vm \in Guests \ spoiled : stored[vm] = heading[vm]
    /\ handed /\ Management \notin spoiled => currentNode = stored[Management]

=============================================================================
