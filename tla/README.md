# Proxmaster: TLA+ models and proofs

Proxmaster is a control plane for a Proxmox cluster, written in Go
(`src/backend`). It takes tool calls over HTTP, puts each of them through a
risk, health and policy gate, runs the allowed ones against the cluster, and
keeps jobs, an audit log, incidents, an inventory, declarative specs and a
queue of autonomous tasks. This directory models the parts of it where
goroutines, failures, time and retries meet, checks them with TLC on small
instances, and proves with TLAPS, for every instance, all the safety properties
that TLC finds to hold, the safety half of the refinement included.

Source lines below are relative to `src/backend/internal/` unless a path says
otherwise.

## 1. Inventory

| Component | State it keeps | Operations | Hard behaviour | What makes it correct |
|---|---|---|---|---|
| Call pipeline `mcp/service.go` | none of its own: locals of `HandleCall` between store calls | `HandleCall`, `SimulatePolicy` | any number of callers interleave between store calls; copies of a job are written back; failures half-way | nothing runs unjustified; outcome, incident and answer agree; settled jobs stay; a key is looked up before it is used again |
| Policy, health and risk gates `policy/`, `health/`, `risk/` | none | `Evaluate`, `Simulate`, `SnapshotFromState`, `ValidateForWrite`, `Classify`, `HardBlockReason` | deadlines, stale heartbeats, order of the tests | a decision follows from what the audit shows |
| Store `store/memory.go` | jobs, key index, audits, incidents, policy mode, nodes, VMs, pools, networks, specs, tasks, backup policies, plans, all under one mutex | one method per table operation | every method is atomic, no two of them are; some results alias the store's arrays | tables refer to each other correctly |
| Autonomy `autonomy/service.go` | `lastScheduled`; the task table is the store's | `scheduleOnce`, `runOnce`, `completeWithRetry` | scheduler, clients and worker file and claim concurrently; retry chains | no task lost, overtaken or left running; retries end |
| Break-glass `breakglass/service.go` | switch, deadline, last error | `Enable`, `Disable`, `Status` (expires) | a shell hook that fails, is killed half-way or is not configured; expiry; a restart | the switch tells what SSH is; a deadline ends it |
| Specs in `proxmox/client.go` | `specs` of the store | `ApplySpec`, `ExplainSpec`, `ReconcileSpec`, `ReconcileAllSpecs` | read, observe, write back, with others in between | applies are kept; drift settles |
| Migration in `proxmox/client.go`, `controlplane/manager.go` | inventory entry, active endpoint | `MigrateVM`, `SelfMigrateProxmaster`, `SwitchTo` | three writes under different locks; any machine may be named; Proxmox's tasks go on after the call, its answers are lost; a restart forgets | machines, inventory and endpoint agree |
| Proxmox API `proxmoxapi/client.go` | none; external cluster | reads, `MigrateQemuVM`, `do` | errors, timeouts | (external) |
| Orchestrator `orchestrator/service.go` | none | `Execute`: dispatch of over fifty tools | arguments defaulted and clamped | each tool reaches its operation |
| HTTP API `api/` | none | one handler per route | concurrency of `net/http` | the pipeline is entered for writes |
| Postgres store `store/postgres.go` | rows of jobs, audits, incidents, tasks, specs, mode behind a `MemoryStore` | write-through of each operation of the tables | writes outside the mutex, in any order; writes that fail unnoticed; a restart with empty tables and IDs from 1 | rows follow the tables; what survives a restart is justified; events are never lost |
| GitOps `gitops/service.go`, `infra/ops/gitops/` | running, last result, last and last stable commit; the checkout and the containers are outside | `SyncNow`, `RollbackLastStable`, the timer's script | every external command may fail half-way; service and script share the checkout; compose restarts the service | the status names the commit compose was last run from; in the end this is the newest |
| Runner `runner/controller.go`, `cmd/runner-agent` | none; commands that run on a node | `Execute`, the agent's commands, heartbeat loop | each side has a timeout and does not know the other's; an agent posts heartbeats for other nodes | every call is answered; who outlives its call is known; a fresh heartbeat has an agent behind it |
| WireGuard `vpn/wireguard.go` | key files, configuration file, enabled unit, interface | `Plan`, `Apply`, `Status` | applies overlap without a lock, fail or are killed at any step; boots | the answer names the key and the interface serves the peer |
| Machines and backup policies `store/memory.go`, `proxmox/client.go` | VMs, ID counter, blueprint records, policies, decision log | create, clone, deploy, upsert, explain, run | ID collisions; two-step deployments; Go's map order | a record leads to its machine; the selected policy is a right one |
| Connectivity, configuration, start-up, scripts, Android app | none | reads, wiring | none | |

How they meet. `api` decodes a request and calls `HandleCall`. `HandleCall`
reads nodes and mode from the store, asks health, risk and policy, writes the
job, the audit entry and incidents to the store, and calls the orchestrator,
which calls the Proxmox client, break-glass, GitOps and the runner. The
autonomy worker is one more caller of `HandleCall`, with no approvals. The
scheduler goroutine, the `autonomy` handlers and `ApplySpec` file tasks for it.
All of them share the store, and nothing else orders them.

`PROJECT.json` lists the components with their status, and every hazard with
its line and the properties aimed at it.

## 2. Modules

| Module | Models | Composed of |
|---|---|---|
| `PolicyGate` | the gates as pure operators: health snapshot, `Evaluate`, `Simulate`, expiry and setting of the mode | |
| `JobPipeline` | `HandleCall` by any number of callers over the store's job, audit, incident and mode tables | extends `PolicyGate` |
| `GuardedExecution` | abstract: what the control plane promises of tool calls | implemented by `JobPipeline` |
| `JobPipelineProofs` | theorems of `JobPipeline` | extends `JobPipeline` |
| `AutonomyQueue` | task table, scheduler, filing clients, worker, retries and dead letters | extends `PolicyGate` |
| `BreakGlass` | the switch, its mutex, its hooks, its deadline | |
| `SpecReconcile` | specs, their tasks, assessments by the worker and by clients | |
| `SelfMigration` | machines, the tasks that move them, their inventory entries, and the endpoint | |
| `GitOps` | the service's sync and rollbacks, the timer's script, one checkout and one set of containers | |
| `RunnerExec` | controller and agents, commands, timeouts, heartbeats and the health gate | |
| `WireGuard` | `Apply` over its files and the interface | |
| `Inventory` | machines and their IDs, blueprint records, backup policies | |
| `DurableStore` | tables of jobs, audits and tasks written through to PostgreSQL, failing writes, restarts | |
| `DurableStoreProofs` | theorems of `DurableStore` | extends `DurableStore` |
| `BreakGlassProofs`, `GitOpsProofs`, `RunnerExecProofs`, `WireGuardProofs` | theorems of the modules they are named for | each extends its module |
| `InventoryProofs` | theorems of `Inventory` and of `SelfMigration` | extends both |
| `AutonomyProofs` | theorems of `AutonomyQueue` and of `SpecReconcile` | extends both |
| `MC…` | small instances for TLC | one per module they instantiate; `MCMachines` has `Inventory` and `SelfMigration`, `MCInventory` the one disagreement about policies |

### State and actions against the code

**JobPipeline.** `jobs`, `byIdemKey`, `audits`, `incidents`, `policyMode` and
`heartbeat` are the store's fields of these names. A job's ID is its position in
`jobs`, the order in which jobs are stored; the code takes IDs from an atomic
counter just before the mutex and compares them for equality only. A caller's
record in `calls` holds its place in `HandleCall` and the locals it carries from
one store call to the next. Every store call is one action:

| Action | Code |
|---|---|
| `Receive` | `api/server.go:895-959` decodes the request; `mcp/service.go:33-43` |
| `Replay`, `LookupMiss` | `GetJobByIdempotencyKey` and the answer with the job found (`mcp/service.go:43-56`) |
| `Snapshot` | `ClusterState` and the health verdict (`:58-65`) |
| `Decide` | `GetPolicyMode`, which expires the mode, then `Evaluate` (`:67-77`) |
| `CreateJob` | `store/memory.go:200-221`: new ID, index entry, history |
| `AddAudit` | `:88-95` |
| `RecordPolicyBlock`, `Hold` | the held ends (`:109-122`) |
| `Approve`, `Run`, `Verify`, `Complete` | the four `UpdateJob` calls of an allowed job (`:124-144`) |
| `ExecuteOK`, `ExecuteError` | `orchestrator.Execute`; the two mode tools write `policyMode` |
| `RecordJobFailed`, `Fail` | `:130-137` |
| `Heartbeat`, `PollPolicyMode`, `Tick` | heartbeat handler, `GET /policy/mode`, time |

Auxiliary: `executed` (jobs whose tool has been called), `seen` (how many jobs
there were when a job's call looked its key up), `job` of an audit entry and of
an incident, `dual` of an answer. They feed no guard.

**AutonomyQueue.** `tasks` is the store's table in the order of its time
stamps. `CreateAgentTask` takes the stamp before the mutex
(`store/memory.go:681`), so filing is two actions: the task is `FILING`
(stamped, not in the table) and then `QUEUED`. `worker` is the single worker
goroutine: claim, call, completion, and the two steps of filing a successor.
`HandleCall` is `PolicyGate!Evaluate` without approvals. Auxiliary: `origin`
(the chain a retry belongs to), `claim`, `filedAfter`.

**BreakGlass.** `enabled`, `enabledUntil`, `lastError` and `mutex` are the
service's fields; `ssh` is what the hooks have made of the host, and `hooks`
says which of their commands are configured (both, one or none, the default). A
call enters (takes the mutex), runs its hook, and writes the fields. A command
that fails has done its work or has not; a blank one does nothing and succeeds
(`breakglass/service.go:88-90`). `Restart` ends the process at any point:
`NewService` starts with the switch off, SSH stays as it is. Auxiliary: `lapse`.

**SpecReconcile.** `specs` is one scope of the store's spec table; `queued`
counts the queued `spec.reconcile` tasks of each key, `rest` is what the worker
has still to assess, and `assess` holds the copy each assessor has read.
`ApplySpec` is two actions (upsert, file the task), an assessment three (read,
observe, store).

**SelfMigration.** `live` is the node Proxmox has each machine on, and `heading`
where the task takes it that Proxmox is running for it; `stored` is its
inventory entry and `currentNode` the endpoint's node. The actions are the steps
of `MigrateVM` (read the source, post, store) and, for a self-migration, the
check before and the switch after; both tools are called with any machine, as
`vm_id` is the client's (`orchestrator/service.go:113-119`, `173-180`). The post
starts a task and no more (`PostOK`; `proxmoxapi/client.go:118` drops its name);
`TaskDone` and `TaskFails` end it, at any later time. Without the Proxmox API
(`RealAPI`) a migration is the inventory entry alone. `Restart` brings back the
seeded inventory and the configured node. Auxiliary: `handed`, `spoiled`,
`alone`.

**GitOps.** `running`, `lastResult`, `lastCommit` and `lastStable` are the
service's fields; `origin`, `tip`, `head` the repository's (the branch at
origin, the local branch, HEAD or the commit it is detached at), `deployed` the
commit compose was last run from. `work` holds, for each caller of the service
and for the script, its next command and its local variables; every command is
an action that succeeds or fails, having done its work or not. Service and
script share the actions of the commands; where the script behaves differently
(`set -e` stops it, it writes no fields) the action says `w = Timer`.
Auxiliary: `calm` (from some point on commands succeed), `excused`.

**RunnerExec.** The module has no state of the code but `LastHeartbeat` (`age`):
what it models is time. `calls` is what each caller of `Controller.Execute`
waits for, `orphans` the commands that run on a node with nobody waiting.
`Execute` posts and starts the command, `End` is the end of `runCommand`,
`GiveUp` the timeout of the HTTP client, `ClientGone` the cancelled context,
`Heartbeat` one post of `pushHeartbeats`. `Tick` lets a unit pass, and none may
pass at a limit. Auxiliary: `down` counts how long a node is down, `since` how
long the API is up.

**WireGuard.** `privatekey`, `publickey` and `conf` are the files, `enabled` the
unit, `iface` what the interface runs with. The shell pipeline that makes the
keys is three actions, since its processes empty both files before either is
written; each further file access and command of `Apply` is one. `Killed` ends a
call anywhere. Auxiliary: `answered`, `last`, `spoiled`.

**Inventory.** `vms`, `vmIDSeq`, `records`, `policies` and `decision` are the
store's fields. Making a machine is one action, as the mutex is held from the
choice of its ID to the append; `DeployBlueprint` is two (`Provision`,
`Record`). `Selects` relates an order of the map to the policy selected at each
turn of the loop over it; `Outcomes` is every result of the loop over every
order. Auxiliary: `given`, `at`.

**DurableStore.** `jobs` and `tasks` are the tables in memory, `jobRows`,
`auditRows` and `taskRows` those of the database, all from ID to record; `seq`
is the counter IDs of every kind come from. An operation of `PostgresStore`
is two actions of one goroutine, with anything in between: the operation on the
table (`CreateJob`, `UpdateJob`, `AddAudit`, `CreateAgentTask`, …) and the write
of the row (`PersistJob`, `PersistAudit`, `PersistTask`), with `GetJob` between
them for an update, which reads the job back (`store/postgres.go:269-274`). The
order of a call's operations is `HandleCall`'s, its decisions are left open
(`NextStatuses`). A write does what its `ON CONFLICT` clause says, or fails and
is forgotten, as `log.Printf` is all the code does. `Restart` may come at any
point. Auxiliary: `uid`, `born` (tell apart records that got one ID in two runs
of the process), `dropped`, `unlogged` (writes that failed), `audited`.

### Definitions named as deviations

Each module contains a few operators under "Deviation": a plausible mistake in
one definition (a dropped guard, a missing update, a swapped order). No
specification uses them. `PROJECT.json` pairs every property with the deviation
that breaks it: put in the place of the definition it deviates from, TLC finds
the property violated, which shows that the property depends on that code.

## 3. What is checked

| Run | Instance | States | Shows |
|---|---|---|---|
| `pipeline` | 2 callers, 1 key, 4 tools of every risk with and without their approvals, durations 0 and 1, 2 jobs, clock to 2 | 0.30 M | the safety properties of the pipeline below and the refinement |
| `queue` | 2 recurring and 3 filed kinds of task, 3 tasks, clock to 3 | 0.38 M | queue properties |
| `breakglass` | 2 callers, durations 0 and 3, both, one or no command, failing commands, restarts, clock to 6 | 33 k | switch properties |
| `specs` | 1 key, 3 values, applier, explainer, worker, 3 applies, 2 changes | 0.4 M | spec properties |
| `store` | 2 callers, 1 key, 1 client and the worker, 4 IDs in each run of the process, 3 jobs and tasks in all, 1 restart, 1 failed write | 3.5 M | store properties |
| `gitops` | 2 callers and the script, 2 commits, any failures and restarts | 0.31 M | deployment properties |
| `runner` | 2 callers (one serves a client), 2 nodes, one agent that posts for both, 3 commands: shorter than the controller waits, longer, endless | 0.11 M | runner properties |
| `wireguard` | 2 callers, 2 client keys, 3 key pairs, 5 applies, boots | 0.21 M | VPN properties |
| `machines` | inventory: 2 deploying callers, 2 blueprints, 5 machines, 2 given IDs, 3 policies for 2 workloads, 2 priorities; migration: 2 callers, the management VM and another, 2 nodes and an unknown one, lost answers, failing tasks, restarts | 1.7 M | inventory and migration properties |
| `queue_retries`, `store_restart`, `inventory_override` | as small as shows it | | disagreements, section 4 |

`machines` checks machines with their deployments, backup policies, and
migrations in one run. The three share no variable in the models, their steps
commute and no property reads two of them, so that each is checked with the
others at rest.

**Pipeline.**
- `RunsAreJustified`: whatever has run has an audit entry from before, with the
  health verdict and the approvals, or the aggressive mode, that let it run.
- `OutcomesAreTold`: a settled job has exactly the incident its end calls for, a
  final answer stays true of its job, and a call with both approvals is told to
  wait for approval only as the replay of another call's job.
- `DuplicateKeysOverlap`: what the index does guarantee of keys. Two jobs share
  a key only if the later one's lookup came before the earlier one was stored.
- `AggressiveModeWasGranted`: the mode is on, or has let a call run, only after
  a dually approved switch to it has been audited and has run; switches with one
  approval or none, which the run has as well, do not bring it about. The
  property is about how the mode is first come by: a switch that the mode itself
  lets through needs no approvals, and may run when the mode has ended since.
- `SettledJobsAreFinal`: five write-backs of a stale copy never reach a settled
  job.
- `ImplementsGuardedExecution`: with the mapping of job statuses to phases,
  every step is a step of the abstract life of a job, or none, and every stored
  job comes to its end.

**Queue.** `TypeOK` says that a running task is the worker's.
`FilingsAreSpaced`, `NoFailureIsDropped`, `NoOvertaking` (priorities, then
stamps, in spite of late insertion) and `FiledTasksAreWorked`. The last one
exempts a worker that cannot file a retry because the model's table is full,
which is the bound's doing.

**Break-glass.** `DifferenceIsExplained`: switch and SSH differ only with an
error shown, after a change or an expiry that had no command to run, after the
hook of an expiry failed, or after a restart; the last three show nothing.
`DeadlineIsGranted`: repeated enables do not add up to a later deadline. It is
about the deadline alone: that SSH is closed at it is not so (section 4).

**Specs.** `AppliesAreKept`; `StaleIsQueued`: a drift that is not the drift of
what is stored has a task coming, or was left by an explanation;
`DriftSettles`: when applies and changes end, every drift becomes right and
stays so.

**Migration.** `LoneMoveAgrees`: a self-migration nobody overlaps on its machine
switches the endpoint to the node the inventory has that machine on, and where
it is or is being taken, unless the task has failed by then; `CopiesAgree`:
between calls the inventory names the node each machine is on or on its way to,
and the endpoint the management VM's, unless the endpoint was last switched for
another machine or a plain migration has moved the management VM since; but for
machines on which overlapping calls, lost answers, failed tasks and restarts
have not been made good by a migration on its own. That the endpoint is where
Proxmaster runs is neither, and not so (section 4).

**Store.** `JobRowsFollowMemory`: a job's row is the job, unless its call is on
the way to write it or its last write was dropped; the concurrent writes of
rows never leave an older version, since a job has one call.
`TaskRowsFallBackToQueued`: tasks have two writers, and the one way a row ends
up behind is the write of its creation coming last. `SurvivingJobsAreAudited`:
what a restart finds in the job rows is justified by the audit rows.
`AuditRowsStay`: a reissued ID never costs an event that is written.

**GitOps.** `TypeOK` says that one call is inside at a time.
`StatusNamesDeployed`: between calls a good status names the commit compose was
last run from, but for the script's work and two failures the code does not look
at. `DeploysConverge`: once commands succeed and pushes end, this comes to be
the newest commit and stays it, from any mess before. What a container that
compose leaves alone has loaded is not said (section 4).

**Runner.** `OrphansAreLong`: a command outlives its call only when the client
left, the API restarted, or the agent's limit is no shorter than the
controller's (or cannot be enforced); then the whole wait has passed.
`HeartbeatsAreBacked`: a fresh heartbeat has behind it an agent that posts for
the node, up recently enough, or a recent restart of the API. It is no more than
that: the agent need not be the node's own. `CallsAreAnswered`: every call
returns, whatever becomes of agent and node.

**WireGuard.** `AnswersNameTheKey`: all answers name one key, and the interface
runs with it, as long as no key pair was made beside another call or left
half-written. `LoneApplyServes`: an apply nobody overlaps leaves the peer it was
asked for served under the key it answered with, over boots, until the next
apply begins.

**Inventory.** `RecordsResolve`: the record of a blueprint leads to the machine
its deployment made, but for IDs no counter gave. `SelectionMatches`: the exact
set of policies the selection loop may choose, which is more than the
repository's test allows (`inventory_override`).

### Bounds

Two callers are enough for the pairwise races looked for: all pipeline
invariants but the index ones and the mode's speak of one job and its caller,
and two calls with one key give every order of lookup and store. Two jobs, with
any number of replays, give a mode switched by one job and used by the next, and
an answer that names another call's job; three jobs were checked without the
refinement (1.9 M states) and showed nothing more. The clock is bounded where an
event's age matters: one unit past the maximal age of a heartbeat and past the
longest duration. Three tasks give a chain of two retries and one competitor, or
three competitors. In `store`, four IDs let two jobs be created, audited and
written in every status, a task's ID among them or not, and the second run of
the process gives the same IDs to other records; three jobs and tasks in all put
two before the restart and one after it, or the other way round; one failed
write is enough to tell each row from its table. The proofs of section 5 remove
the bounds for every safety property; for liveness they stand. In `gitops`, two
commits tell the new from the old, and failures, restarts and syncs are
unbounded; two callers are what mutual exclusion is about. In `runner`, the
limits are in units of a minute with the long ones cut to one unit more than the
controller waits, and ages stop at the first that is too old; two commands at a
time are one that outlives its call and one beside it. In `wireguard`, three key
pairs and five applies let two calls race, and others follow. In `machines`,
the given IDs are the second and third that the counter gives, so that both
orders of a collision occur; three policies give every relation of an override
to a stronger and a weaker one. For migrations, two machines are the management
VM and one it is mistaken for, two callers meet on one machine or pass each
other on two, and calls, tasks and restarts are unbounded; three nodes, which
make more than twenty times as many states, would add a third place for a copy
to be left behind at. `CHECK_DEADLOCK FALSE` stands in a configuration where the
bounded model stops at its bounds; the code has no such stop. `gitops` and
`runner` have no such bound, and deadlock is checked.

### Fairness

- `JobPipeline`: weak fairness of each caller's next step. A goroutine inside
  `HandleCall` waits only for the store's mutex, which is held for the length
  of one method, and for `orchestrator.Execute`, whose outgoing calls have
  timeouts. No fairness for `Receive`, heartbeats or time.
- `AutonomyQueue`: weak fairness of the worker (its ticker keeps firing) and of
  a goroutine between stamp and insertion. None for filing.
- `SpecReconcile`: weak fairness of the worker's steps, `StartAll` included:
  the scheduler files `spec.reconcile.all` every minute
  (`autonomy/service.go:58`). None for clients.
- `GitOps`: weak fairness of the timer (`OnUnitActiveSec=2min`) and of each
  worker's next command: git and compose end, the health check has a timeout of
  five seconds. None for callers, pushes, failures and restarts.
- `RunnerExec`: weak fairness of time, of the controller's timeout and of the
  end of a command at its limit. None for commands that end by themselves, for
  answers, heartbeats and nodes that come back.
- `BreakGlass`, `SelfMigration`, `DurableStore`, `WireGuard`, `Inventory`: none;
  only safety is claimed. Nothing in the program asks for the switch's status by
  itself, so that fairness would not close SSH at its deadline.

## 4. Where the code and its documents disagree

Each is a run with a counterexample; `PROJECT.json` quotes the sentence.

- `queue_retries` (`autonomy/service.go:152`): a retry is a new task whose
  attempts start at zero; a task that is always held is retried for ever.
- `store_restart` (`store/postgres.go:166`): IDs begin at 1 again after a
  restart, and an event whose ID has a row is not written; the "durable logs" of
  the README miss it.
- `inventory_override` (`store/memory.go:592`): `store/memory_test.go:24-45`
  expects an override to be selected over a policy of a higher priority; the
  order of a Go map decides, so that the test passes or fails by chance.

Seen while modelling, and in the models as the code has them, without a run of
their own:

- Pipeline. Two overlapping calls with one idempotency key both run, though
  `src/README.md:121` lists idempotency keys for mutating calls
  (`mcp/service.go:44`); `DuplicateKeysOverlap` says how much is guaranteed. An
  approval with the held call's key is answered with the held job, though
  `/mcp/approve` is to approve and execute (`backend/openapi.yaml:241`,
  `mcp/service.go:45`); `OutcomesAreTold` allows for it. `UpdateJob` appends a
  status to the history of the caller's copy, and `HandleCall` goes on with the
  copy `CreateJob` returned, so that the stored history of a completed job is
  PLANNED, COMPLETED (`store/memory.go:227`). In the aggressive mode a HIGH call
  runs on reauthentication alone (`policy/gate.go:48`), and a switch without a
  duration has no deadline (`store/memory.go:923`), so `RunsAreJustified` asks
  for no more.
- Break-glass. SSH is "time-boxed" (`backend/openapi.yaml:156`,
  `backend/README.md:162`), but the deadline is looked at only when somebody asks
  for the status (`breakglass/service.go:107`): with nobody asking, switch and
  SSH stay on past it. The error of the hook of an expiry is dropped: the switch is off,
  no error is shown, SSH is open (`breakglass/service.go:110`). A restart
  forgets the switch and its deadline, and SSH stays open (`:25`). Without
  commands, which is the default, `Enable` says enabled and opens nothing
  (`:88`). The default duration is never used
  by way of HTTP, because the orchestrator raises an absent duration to a minute
  (`orchestrator/service.go:96`).
- Specs. An explanation, a read-only tool, writes drift and clears the reconcile
  job (`proxmox/client.go:524`).
- Migration. "Proxmaster nahtlos auf andere Node verschieben"
  (`src/README.md:101`), the "seamless control-plane switch"
  (`backend/openapi.yaml:248`), switches the endpoint while the task that moves
  Proxmaster is still running, and may yet fail (`proxmoxapi/client.go:118`,
  `proxmox/client.go:222`); and it moves any machine the client names, the
  endpoint to where that one went (`proxmox/client.go:192`). So `CopiesAgree`
  excepts an endpoint last switched for another machine, and both properties
  speak of the node a machine is on its way to. Two overlapping self-migrations
  may leave the endpoint on a node the VM has left (`proxmox/client.go:222`); a
  plain `vm.migrate` of the management VM leaves the endpoint (`:134`);
  `from_node` of a self-migration's answer names the target, through an aliased
  array (`:228`).
- GitOps. The service's switch does not keep the timer's script out. After a
  `rev-parse` without an answer the stable commit may be the one from before the
  pull (`gitops/service.go:91`). `compose up -d` leaves a container alone when
  only the source that is mounted into it has changed, so that a sync may
  succeed and be healthy with the old program running (`:97`); `deployed` in
  the model is the commit compose was run from.
- Runner. One agent with the default `RUNNER_HEARTBEAT_NODES` keeps the health
  gate open over nodes whose agents are down (`cmd/runner-agent/main.go:34`),
  and so does a restart of the API (`store/memory.go:143`), though
  `backend/README.md:114` calls the gates fail-closed. A command may outlive its
  failed job by up to twenty minutes, and a retry may run beside it.
- WireGuard. A key pair that was left half-written is never made good
  (`vpn/wireguard.go:210`): every later apply fails at the restart. A second
  apply replaces the one peer; a restart that fails takes a working tunnel down.
- Inventory. The first machine made has the ID 201 of the seeded container
  (`store/memory.go:190`).

## 5. What is proved

Every invariant of every passing run is a theorem, and so are the action
properties, for every value of the constants, bounds included, and from each
module's own assumption alone. The assumptions are types of the constants and
little more: the tools that enter the aggressive mode are HIGH and there is a
request (`JobPipeline`), the empty key is not a key (`DurableStore`,
`SpecReconcile`), the worker is no client and the empty map a value
(`SpecReconcile`), `Broken` is no configuration (`WireGuard`), the timer is no
caller (`GitOps`), the management VM is a machine and the seeded
inventory has every machine on a node (`SelfMigration`).

`AutonomyProofs` and `InventoryProofs` each extend two modules, the second of
which, `SpecReconcile` and `SelfMigration`, marks the names both would have
(`RSpec`, `MSpec`).

| Module | Theorem | Establishes |
|---|---|---|
| `JobPipelineProofs` | `TypeCorrect` | `Spec => []TypeOK`: every job ID held anywhere is the ID of a stored job |
| | `SettledFinal` | `Spec => SettledJobsAreFinal` |
| | `RunsJustified` | `Spec => []RunsAreJustified` |
| | `KeysOverlap` | `Spec => []DuplicateKeysOverlap` |
| | `ModeWasGranted` | `Spec => []AggressiveModeWasGranted` |
| | `OutcomesTold` | `Spec => []OutcomesAreTold` |
| | `StepsAreGuarded` | `Spec => Guarded!GSafety`: the safety half of the refinement |
| `AutonomyProofs` | `TypeCorrect` | `Spec => []TypeOK`: the one running task is the worker's |
| | `FailuresAreKept` | `Spec => []NoFailureIsDropped` |
| | `FilingsSpaced` | `Spec => []FilingsAreSpaced` |
| | `NobodyIsOvertaken` | `Spec => []NoOvertaking` |
| | `SpecTypeCorrect` | `RSpec => []RTypeOK` |
| | `AppliesKept` | `RSpec => []AppliesAreKept` |
| | `StaleQueued` | `RSpec => []StaleIsQueued` |
| `DurableStoreProofs` | `TypeCorrect` | `Spec => []TypeOK` |
| | `RowsFollow` | `Spec => []JobRowsFollowMemory` |
| | `TaskRowsFallBack` | `Spec => []TaskRowsFallBackToQueued` |
| | `SurvivorsAreAudited` | `Spec => []SurvivingJobsAreAudited` |
| | `EventsStay` | `Spec => AuditRowsStay` |
| `InventoryProofs` | `TypeCorrect` | `Spec => []TypeOK`: the counter repeats none of its IDs |
| | `RecordsLead` | `Spec => []RecordsResolve` |
| | `SelectionsMatch` | `Spec => []SelectionMatches` |
| | `MigrationTypeCorrect` | `MSpec => []MTypeOK` |
| | `LoneMovesAgree` | `MSpec => LoneMoveAgrees` |
| | `CopiesAgreeAlways` | `MSpec => []CopiesAgree` |
| `BreakGlassProofs` | `TypeCorrect`, `DifferencesExplained`, `DeadlinesGranted` | `[]TypeOK` with the mutual exclusion, `[]DifferenceIsExplained`, `[]DeadlineIsGranted` |
| `GitOpsProofs` | `TypeCorrect`, `StatusIsTrue` | `[]TypeOK` with the mutual exclusion, `[]StatusNamesDeployed` |
| `RunnerExecProofs` | `TypeCorrect`, `LongOrphans`, `BackedHeartbeats` | `[]TypeOK` with the limits, `[]OrphansAreLong`, `[]HeartbeatsAreBacked` |
| `WireGuardProofs` | `TypeCorrect`, `OneKeyIsNamed`, `LoneApplyIsServed` | `[]TypeOK`, `[]AnswersNameTheKey`, `[]LoneApplyServes` |

### The arguments

**Pipeline.** `TypeOK` is inductive by itself. The other properties are not,
since nothing in them says which job a call is about to write. What they rest
on:

- `CallsOwnJobs`: from `CreateJob` to its end a call's job has the call's key,
  tool and risk, and the status that belongs to the call's place;
- `JobsHaveOneCall`: no two calls own one job. With it, an update changes a job
  that is not settled and that no other call counts on;
- `AllowedByGate`: a call that was allowed and has not been audited has the
  health verdict and approvals `Evaluate` looked at;
- `ClearedCallsAreLogged`: a call past its audit has an entry that justifies it;
- `IndexIsComplete` and `MissesPrecedeJobs`, for `DuplicateKeysOverlap`: no
  stored job is newer than its key's entry, and a call that missed its key did
  so before any job now stored under the key;
- `CallsAreOnRecord`, for `OutcomesAreTold` and the refinement: the decision,
  the audit, the run and the incidents of a call's job are those that belong to
  the call's place. A step of one call leaves all of this alone for the jobs of
  the others (`Quiet`), so that only the step's own job is left, and what the
  tables tell of a job is carried from its call's record at the step that ends
  it (`Told`, `EndIsTold`). `MissingApprovals`, `IncidentsNameJobs` and the index
  do the same for answers (`AnswerStands`);
- `Granted`, for the mode: beside `AggressiveModeWasGranted` itself, a call that
  the mode let through has such a switch before it. A switch runs only in a HIGH
  call, which was approved twice, and then it is itself the switch that is asked
  for, or was let through by the mode, behind an earlier one whose log and whose
  run are never taken back.

`StepsAreGuarded` takes every step of `Next` to a step of `GuardedExecution` or a
stutter, under the mapping of job statuses to phases in `JobPipeline`. The
abstract jobs are `1 .. MaxJobs`, and the model looks at that bound when a call
enters; the mapping of `CreateJob` therefore needs `JobsFit`: stored jobs, and
calls that may still store one, fit the bound.

Effect lemmas (`MoveEffect`, `RespondEffect`, `UpdateJobEffect`,
`CreateJobEffect`, …) state once what a step leaves alone; each invariant's step
then goes action by action.

**Queue.** `TypeOK` is not inductive: that the worker's task alone is running
needs to know who inserts a task and who requeues one. `FilingsApart` says that
a task on its way into the table is one goroutine's. `ChainsGrow` says that a
chain of retries grows at its end only, all but its last task having failed, and
only while the worker has the last one's failure in hand; with `ChainsEnd`, every
chain has a last task, it gives `NoFailureIsDropped` for chains of any length.
`FilingsRemembered` ties each filing of the scheduler's own to the
`lastScheduled` it left behind; without it the distance of two filings depends
on a third one that is forgotten. `ClaimsCount` numbers the claims, so that a
claim now comes after every claim there has been, and the one overtaken would
have been the choice of that step. Each action is first reduced to what it does
to the table (`Files`, `Claims`, `Settles`, `Alters`), and the invariants are
carried over these.

**Specs.** `StaleIsQueued` is about the next assessment, and what it needs is
`WorkerReadsAhead`: the worker's copy is what the spec desires, or a task for a
later apply is queued or about to be filed (`TaskDue`). `TasksAreOfSpecs` says
that tasks name specs that are stored.

**Store.** All theorems but `EventsStay` rest on `Ownership`, which is
inductive: IDs in memory were given by this run of the process (`IdsAreGiven`,
`EventsAreGiven`), no two calls hold one job and a call about to write holds the
job as it is in memory (`CallsOwnJobs`), the goroutines of tasks hold tasks of
the table (`HandsHoldTasks`), and no two records in memory are of one job or
task (`UidsApart`, which keeps one job's failed write apart from another's). The
types alone are not enough, since `PersistJob` writes a copy whose job must
still be there and be that job. `EventsStay` needs only that `PersistAudit` alone
writes the audit rows, at free IDs. `SurvivorsAreAudited` is strengthened by
`AuditComesFirst` (a call past its audit has its event written or lost), which
`CallSteps`, the list of ways a call moves on, carries from step to step.
`RowsFollow` follows a write from the update of the table to its row
(`WayEnds`, `RowSteps`). `TaskRowsFallBack` needs that the worker writes the task
as it is and a client the task as it filed it, queued (`HandsWriteTasks`).

**Break-glass, GitOps.** One call is inside at a time, which `TypeOK` says and
which is inductive by itself; what the status says is then strengthened by what
the call inside knows at each of its commands (`Inside`): that a command which
succeeded has left its effect, that the commit it is about to bring up is the
one checked out, that the one it reports is the one compose was last run from.
The script excuses whatever it changes (`TimerExcuses`), so only commands of the
call itself are left to look at.

**Runner.** The invariants are inductive beside `TypeOK`, which holds the
limits: an orphan is as old as its caller's patience because only a caller at
its limit leaves one without an excuse.

**WireGuard.** An argument of phases (`Phase`): no key pair yet; one call making
it, and nobody else begun; or one pair, and everything read, written, running or
answered is of it.

**Inventory.** Carried along: the counter has passed every ID it gave
(`Counted`), and records and deployments in progress name the position and ID of
a machine (`Known`). That a lookup finds a first machine at all rests on the
order of the natural numbers (`LeastOf`). So does `SelectionsMatch`: what a turn
of the selection loop cannot do is shown at the least turn that would do it,
over any order of any number of policies; what it can select is shown by an
order with that policy at the right place, one for each kind of outcome
(`OrderWith`, `OrderEnding`). For this `Outcomes` states the loop as a relation
between an order and the policies selected at each turn (`Selects`), not as a
fold, which no prover here can do induction on.

**Migration.** What a call does reaches its own machine and the endpoint only
(`CallFrame`). A call that is still alone on its machine finds at each step what
it left at the step before (`LoneCall`), and whoever is on a machine that is not
spoiled is alone there (`OverlapSpoils`). `Agreement` adds that a machine's
inventory entry is right but for a call that has posted and not stored
(`Located`), and the endpoint but for one that has stored and not switched
(`EndpointFollows`).

### Model-checked only

Liveness, since fairness and ENABLED are beyond the prover:
`FiledTasksAreWorked`, `DriftSettles`, `DeploysConverge`, `CallsAreAnswered`, and
the fairness part of `ImplementsGuardedExecution`, whose safety part is
`StepsAreGuarded`. The three disagreements of section 4 that have a run are
counterexamples and stay with TLC by nature.

## 6. What is abstracted

- `Decide` merges `GetPolicyMode` and the gate's own look at the clock; the
  nodes are read in one step though the code copies them one by one under the
  mutex and computes ages after; the difference is shorter than a clock unit.
- A tool is any work that succeeds or fails; the two mode tools alone write
  state the pipeline reads. Parameters and results are left out.
- Time stamps of tasks are distinct. The scheduler reads the clock for
  `lastScheduled` and `CreateAgentTask` again for the task
  (`autonomy/service.go:63`, `store/memory.go:681`); the model has one reading
  for both.
- A spec's maps are single values, and observed counts as equal to desired when
  it agrees on desired's fields (`diffMaps`). The drift ERROR is never
  written by the code. A client's own `spec.reconcile` call acts as an
  explanation does but for the job's name. `spec.reconcile` is LOW, so the gate
  never holds it.
- Proxmox is external: it starts a task for a migration of a machine that is
  where the code says and has no task, to a node of the cluster, and refuses any
  other. Every machine of `SelfMigration` is in the inventory and in the cluster:
  the answer `live_api_only` for one that the inventory does not have
  (`proxmox/client.go:135-137`), and the errors for unknown ones, write nothing
  there. The configured node is the one the seeded inventory has the management
  VM on, as by default. All nodes are online.
- `GitOps`: a health check answers as it likes; a killed git leaves no lock
  file; texts and times are left out.
- `RunnerExec`: every node is online; nobody changes the clocks; the requests an
  agent refuses start nothing and are no step.
- `WireGuard`: ports, addresses and allowed IPs are left out; a key stands for
  both halves of its pair.
- `Inventory`: names, nodes and sizes of machines and everything a policy has
  beside workload, priority and override.
- Break-glass fields kept for display only are left out.
- `DurableStore` has jobs, audits and tasks. Incidents are written as audits
  are. Specs, blueprints and the policy mode have rows as well,
  and are not in the model; nor is the fallback to the memory store when the
  database cannot be reached at start-up. A row overwritten by a reissued ID
  keeps its `created_at`; the model has no time stamps. A task that is retried
  is filed by the worker as clients file, and is one of theirs in the model. The
  worker's own call of `HandleCall` is one of the callers.

Not modelled, and why: pools, networks, maintenance flags, backup targets,
restore and rebuild plans are stored and returned, and no operation decides by
them; updates and canaries answer constants; `RiskEngine` is a table of tool
names, in the models the constant `RiskOf`; connectivity, configuration,
start-up, the scripts and the Android app keep no state the models could relate.
Data races on maps and slices returned by the store (`store/memory.go:292`,
`autonomy/service.go:107`) are listed as hazards.

## 7. Plan

Done: the modules of section 2. Next, in this order:

1. The rows `DurableStore` leaves out: specs and the policy mode, where an older
   version may be written last.
2. Lemmas of `PolicyGate` that hold for every request, mode and time: what
   `Simulate` answers against `Evaluate`, and that no approval is ever worth less
   than its absence.
3. Classification and the orchestrator's dispatch as functions, compared where
   two names reach one operation (`updates.abort` and `updates.rollout_abort`).
