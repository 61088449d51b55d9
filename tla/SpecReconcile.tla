---------------------------- MODULE SpecReconcile ----------------------------
(***************************************************************************)
(* Declarative specs (proxmox/client.go ApplySpec, ExplainSpec,            *)
(* ReconcileSpec, ReconcileAllSpecs over the store's UpsertSpec, GetSpec,  *)
(* ListSpecs and SetSpecObserved).  A spec keeps what is desired, what was *)
(* last observed, and how the two compare.  Whoever assesses a spec reads  *)
(* it, observes the cluster and writes the assessment back, in three steps *)
(* between which others apply, assess and change the cluster.              *)
(*                                                                         *)
(* One scope; a desired or observed map is one value.  An assessment is    *)
(* made by the autonomy worker for a queued spec.reconcile task, by it for *)
(* the recurring spec.reconcile.all, and by clients that ask for an        *)
(* explanation.                                                            *)
(*                                                                         *)
(* Names that other modules have as well begin with R here, so that one    *)
(* module can extend this one beside AutonomyQueue.                        *)
(***************************************************************************)
EXTENDS Naturals

CONSTANTS
  Keys,             \* the specs of the scope
  Values, Empty,    \* contents of a map; Empty: the map without entries
  Appliers,         \* clients that apply specs
  Explainers,       \* clients that have specs explained
  Reconciler,       \* the autonomy worker
  NoKey,            \* not a key
  MaxApplies,       \* BOUND: calls of ApplySpec
  MaxChanges        \* BOUND: changes of the cluster by other tools

Assessors == Explainers \cup {Reconciler}

ASSUME SpecAssumption ==
  /\ Empty \in Values
  /\ Reconciler \notin Explainers
  /\ NoKey \notin Keys
  /\ MaxApplies \in Nat
  /\ MaxChanges \in Nat

VARIABLES
  specs,            \* key -> the stored spec; version 0: there is none
  world,            \* key -> what observedFor finds
  queued,           \* key -> number of queued spec.reconcile tasks
  filing,           \* applier -> the key it has yet to file a task for
  assess,           \* assessor -> where it is and what it has read
  rest,             \* the keys the worker has yet to assess
  applied,          \* auxiliary: key -> what its last ApplySpec desired
  applies,          \* auxiliary: key -> number of its ApplySpec calls
  changes           \* counts the changes of the cluster, for the bound

rvars == <<specs, world, queued, filing, assess, rest, applied, applies, changes>>

Drifts == {"PENDING", "IN_SYNC", "DRIFTED"}

ResourceSpec == [desired : Values, observed : Values, drift : Drifts,
                 job : {"", "task"}, version : Nat]

(* An assessment between two of its steps: the copy of the spec that was   *)
(* read, and what was observed.                                            *)
Assessment == [pc : {"idle", "observe", "store"}, key : Keys \cup {NoKey},
               desired : Values, observed : Values]

Stored == {k \in Keys : specs[k].version > 0}

(* computeObservedAndDrift.  diffMaps compares the fields of the desired   *)
(* map: the observed value stands for those fields.                        *)
Drift(desired, observed) ==
  CASE desired = Empty                          -> "PENDING"
    [] desired # Empty /\ desired = observed    -> "IN_SYNC"
    [] desired # Empty /\ desired # observed    -> "DRIFTED"

-----------------------------------------------------------------------------
(* ApplySpec: UpsertSpec, then a task for the worker.                      *)

UpsertSpec(k, v) ==
  specs' = [specs EXCEPT ![k] = [specs[k] EXCEPT !.desired = v,
                                                 !.version = @ + 1,
                                                 !.drift   = "PENDING"]]

(* Deviation: no task is filed for a spec the store already has. *)
ApplyFilesOnce(a, k, v) ==
  /\ filing[a] = NoKey
  /\ applies[k] < MaxApplies
  /\ UpsertSpec(k, v)
  /\ filing' = IF k \in Stored THEN filing ELSE [filing EXCEPT ![a] = k]
  /\ applied' = [applied EXCEPT ![k] = v]
  /\ applies' = [applies EXCEPT ![k] = @ + 1]
  /\ UNCHANGED <<world, queued, assess, rest, changes>>

ApplySpec(a, k, v) ==
  /\ filing[a] = NoKey
  /\ applies[k] < MaxApplies
  /\ UpsertSpec(k, v)
  /\ filing' = [filing EXCEPT ![a] = k]
  /\ applied' = [applied EXCEPT ![k] = v]
  /\ applies' = [applies EXCEPT ![k] = @ + 1]
  /\ UNCHANGED <<world, queued, assess, rest, changes>>

FileSpecTask(a) ==
  /\ filing[a] # NoKey
  /\ queued' = [queued EXCEPT ![filing[a]] = @ + 1]
  /\ filing' = [filing EXCEPT ![a] = NoKey]
  /\ UNCHANGED <<specs, world, assess, rest, applied, applies, changes>>

-----------------------------------------------------------------------------
(* An assessment: GetSpec, ClusterState, SetSpecObserved.                  *)

GetSpec(g, k) ==
  /\ assess[g].pc = "idle"
  /\ k \in Stored
  /\ assess' = [assess EXCEPT ![g] = [pc |-> "observe", key |-> k,
                                      desired |-> specs[k].desired, observed |-> Empty]]

Observe(g) ==
  /\ assess[g].pc = "observe"
  /\ assess' = [assess EXCEPT ![g] = [@ EXCEPT !.pc = "store",
                                               !.observed = world[assess[g].key]]]
  /\ UNCHANGED <<specs, world, queued, filing, rest, applied, applies, changes>>

(* Deviation: the spec that was read is written back whole. *)
CopyWrittenBack(k, desired, observed, job) ==
  specs' = [specs EXCEPT ![k] = [@ EXCEPT !.desired  = desired,
                                          !.observed = observed,
                                          !.drift    = Drift(desired, observed),
                                          !.job      = job]]

(* The comparison is with the desired map that was read; the stored spec   *)
(* keeps the desired map it has now.                                       *)
SetSpecObserved(k, desired, observed, job) ==
  specs' = [specs EXCEPT ![k] = [@ EXCEPT !.observed = observed,
                                          !.drift    = Drift(desired, observed),
                                          !.job      = job]]

StoreAssessment(g, job) ==
  LET a == assess[g]
  IN  /\ a.pc = "store"
      /\ SetSpecObserved(a.key, a.desired, a.observed, job)
      /\ assess' = [assess EXCEPT ![g] = [@ EXCEPT !.pc = "idle"]]

(* ExplainSpec names no reconcile job. *)
Explain(e, k) ==
  /\ GetSpec(e, k)
  /\ UNCHANGED <<specs, world, queued, filing, rest, applied, applies, changes>>

StoreExplanation(e) ==
  /\ StoreAssessment(e, "")
  /\ UNCHANGED <<world, queued, filing, rest, applied, applies, changes>>

-----------------------------------------------------------------------------
(* The worker.                                                             *)

WorkerIdle == assess[Reconciler].pc = "idle" /\ rest = {}

(* Deviation: a claim that does not look whether a task is queued. *)
ClaimWithoutTask(k) ==
  /\ WorkerIdle
  /\ queued' = [queued EXCEPT ![k] = @ - 1]
  /\ rest' = {k}
  /\ UNCHANGED <<specs, world, filing, assess, applied, applies, changes>>

StartTask(k) ==
  /\ WorkerIdle
  /\ queued[k] > 0
  /\ queued' = [queued EXCEPT ![k] = @ - 1]
  /\ rest' = {k}
  /\ UNCHANGED <<specs, world, filing, assess, applied, applies, changes>>

(* Deviation: a reconciliation of all that looks at pending specs only. *)
ListPendingSpecs == {k \in Stored : specs[k].drift = "PENDING"}

(* The keys of the scope as ReconcileAllSpecs lists them. *)
ListSpecs == Stored

StartAll ==
  /\ WorkerIdle
  /\ ListSpecs # {}
  /\ rest' = ListSpecs
  /\ UNCHANGED <<specs, world, queued, filing, assess, applied, applies, changes>>

ReconcileSpec(k) ==
  /\ k \in rest
  /\ GetSpec(Reconciler, k)
  /\ UNCHANGED <<specs, world, queued, filing, rest, applied, applies, changes>>

StoreReconciled ==
  /\ StoreAssessment(Reconciler, "task")
  /\ rest' = rest \ {assess[Reconciler].key}
  /\ UNCHANGED <<world, queued, filing, applied, applies, changes>>

(* Another tool changes what is there to observe. *)
Change(k, v) ==
  /\ changes < MaxChanges
  /\ world[k] # v
  /\ world' = [world EXCEPT ![k] = v]
  /\ changes' = changes + 1
  /\ UNCHANGED <<specs, queued, filing, assess, rest, applied, applies>>

-----------------------------------------------------------------------------
RInit ==
  /\ specs = [k \in Keys |-> [desired |-> Empty, observed |-> Empty,
                              drift |-> "PENDING", job |-> "", version |-> 0]]
  /\ world = [k \in Keys |-> Empty]
  /\ queued = [k \in Keys |-> 0]
  /\ filing = [a \in Appliers |-> NoKey]
  /\ assess = [g \in Assessors |-> [pc |-> "idle", key |-> NoKey,
                                    desired |-> Empty, observed |-> Empty]]
  /\ rest = {}
  /\ applied = [k \in Keys |-> Empty]
  /\ applies = [k \in Keys |-> 0]
  /\ changes = 0

ReconcilerStep ==
  \/ \E k \in Keys : StartTask(k) \/ ReconcileSpec(k)
  \/ StartAll \/ Observe(Reconciler) \/ StoreReconciled

RNext ==
  \/ \E a \in Appliers : (\E k \in Keys, v \in Values : ApplySpec(a, k, v)) \/ FileSpecTask(a)
  \/ \E e \in Explainers : (\E k \in Keys : Explain(e, k)) \/ Observe(e) \/ StoreExplanation(e)
  \/ ReconcilerStep
  \/ \E k \in Keys, v \in Values : Change(k, v)

(* The worker's ticker fires, and the scheduler files spec.reconcile.all   *)
(* every minute.                                                           *)
RFairness == WF_rvars(ReconcilerStep)

RSpec == RInit /\ [][RNext]_rvars /\ RFairness

-----------------------------------------------------------------------------
(* Properties.                                                             *)

(* Every variable keeps its type (models/types.go:280-287). *)
RTypeOK ==
  /\ specs \in [Keys -> ResourceSpec]
  /\ world \in [Keys -> Values]
  /\ queued \in [Keys -> Nat]
  /\ filing \in [Appliers -> Keys \cup {NoKey}]
  /\ assess \in [Assessors -> Assessment]
  /\ rest \subseteq Stored
  /\ applied \in [Keys -> Values]
  /\ applies \in [Keys -> Nat]
  /\ changes \in Nat
  /\ \A g \in Assessors : assess[g].pc # "idle" => assess[g].key \in Keys

(* An apply is never lost: what a spec desires is what its last ApplySpec  *)
(* asked for, and its version counts the applies, whatever assessments     *)
(* with an older copy are stored after it (client.go:719-725).             *)
AppliesAreKept ==
  \A k \in Keys : specs[k].desired = applied[k] /\ specs[k].version = applies[k]

(* A spec whose drift is not that of what it desires and what was observed *)
(* has a task that will assess it again, unless it was an explanation that *)
(* last assessed it, which leaves no job's name (client.go:493-500, 524).  *)
StaleIsQueued ==
  \A k \in Stored : specs[k].drift # Drift(specs[k].desired, specs[k].observed) =>
    \/ queued[k] > 0
    \/ \E a \in Appliers : filing[a] = k
    \/ k \in rest
    \/ specs[k].job = ""

(* Once nobody applies and nothing changes the cluster any more, every     *)
(* spec's drift is the drift there is, for good: stale assessments are     *)
(* made good by spec.reconcile.all (autonomy/service.go:58).               *)
DriftSettles ==
  <>[](\A k \in Stored : specs[k].drift = Drift(applied[k], world[k]))

-----------------------------------------------------------------------------
(* The inductive invariant behind the safety properties.                   *)

(* A task of a spec that is queued, or is about to be. *)
TaskDue(k) == queued[k] > 0 \/ \E a \in Appliers : filing[a] = k

TasksAreOfSpecs == \A k \in Keys : TaskDue(k) => k \in Stored

(* The worker assesses a key it has yet to assess, and what it has read is *)
(* what the spec desires, or a task for a later apply is due.              *)
WorkerReadsAhead ==
  LET a == assess[Reconciler]
  IN  a.pc # "idle" =>
        /\ a.key \in rest
        /\ a.desired = specs[a.key].desired \/ TaskDue(a.key)

=============================================================================
