---------------------------- MODULE AutonomyQueue ----------------------------
(***************************************************************************)
(* The autonomy subsystem: the task table of the store                     *)
(* (CreateAgentTask, ClaimNextAgentTask, CompleteAgentTask), the scheduler *)
(* goroutine that files recurring tasks, the API and spec handlers that    *)
(* file tasks of their own, and the single worker goroutine that claims    *)
(* one task per tick, hands it to HandleCall without any approval and      *)
(* files a retry or a dead letter when the call does not complete.         *)
(*                                                                         *)
(* CreateAgentTask takes its time stamp before it takes the store's mutex, *)
(* so that a task may enter the table after a task with a later stamp: a   *)
(* filing is two actions.  Stamps are taken to be distinct.                *)
(***************************************************************************)
EXTENDS PolicyGate, Sequences

CONSTANTS
  Recurring,        \* the tools the scheduler files
  Interval,         \* Recurring -> minimal time between two filings
  Filed,            \* <<tool, priority, dead>> other goroutines file
  RiskOf,           \* tool -> risk level
  MaxTasks,         \* BOUND: the task table
  MaxTime           \* BOUND: the clock

TaskTools == Recurring \cup {f[1] : f \in Filed}

ASSUME QueueAssumption ==
  /\ Interval \in [Recurring -> Nat \ {0}]
  /\ \A f \in Filed : f[2] \in Nat \ {0} /\ f[3] \in BOOLEAN
  /\ RiskOf \in [TaskTools -> RiskLevels]
  /\ MaxTasks \in Nat
  /\ MaxTime \in Nat

VARIABLES
  now,              \* the wall clock, in polls
  lastScheduled,    \* recurring tool -> when it was last filed, 0: never
  tasks,            \* the tasks in the order of their time stamps
  scheduler,        \* the task the scheduler is filing, 0: none
  worker            \* the worker goroutine: where it is, its task, the call's
                    \* outcome, and the task it is filing

vars == <<now, lastScheduled, tasks, scheduler, worker>>

(* FILING: stamped, and not yet in the table. *)
TaskStatuses == {"FILING", "QUEUED", "RUNNING", "COMPLETED", "FAILED"}
Outcomes     == {"COMPLETED", "FAILED", "BLOCKED", "PENDING_APPROVAL"}

(* `dead' is the deadletter. prefix of the type, `by' is RequestedBy.      *)
(* Auxiliary: `origin', the first task of a chain of retries; `claim', the *)
(* task's place in the order of claims; `filedAfter', how many tasks had   *)
(* been claimed when it entered the table.                                 *)
Task == [tool : TaskTools, dead : BOOLEAN, by : {"scheduler", "client", "worker"},
         status : TaskStatuses, priority : Nat, attempts : Nat,
         maxAttempts : Nat, createdAt : Nat,
         origin : Nat, claim : Nat, filedAfter : Nat]

Worker == [pc : {"idle", "call", "complete", "requeue", "insert"}, task : Nat,
           outcome : Outcomes, filing : Nat]

TaskIds == 1 .. Len(tasks)

Claimed == {id \in TaskIds : tasks[id].attempts > 0}

NewTask(tool, dead, by, priority, maxAttempts, origin) ==
  [tool |-> tool, dead |-> dead, by |-> by, status |-> "FILING",
   priority |-> priority, attempts |-> 0, maxAttempts |-> maxAttempts,
   createdAt |-> now, origin |-> origin, claim |-> 0, filedAfter |-> 0]

(* CreateAgentTask, up to the mutex ... *)
Stamp(task) ==
  /\ Len(tasks) < MaxTasks
  /\ tasks' = Append(tasks, task)

(* ... and under it. *)
Insert(id) ==
  tasks' = [tasks EXCEPT ![id].status = "QUEUED",
                         ![id].filedAfter = Cardinality(Claimed)]

-----------------------------------------------------------------------------
(* Deviation, of Due. *)
DueByClock(tool) == now >= Interval[tool]

(* Scheduler: every tool is due at the first poll, then once its interval  *)
(* has passed.  The filing is remembered before the task is created, with  *)
(* a reading of the clock of its own; here it is that of the task's stamp. *)
Due(tool) ==
  lastScheduled[tool] = 0 \/ now - lastScheduled[tool] >= Interval[tool]

ScheduleOnce(tool) ==
  /\ scheduler = 0
  /\ Due(tool)
  /\ lastScheduled' = [lastScheduled EXCEPT ![tool] = now]
  /\ Stamp(NewTask(tool, FALSE, "scheduler", 50, 3, Len(tasks) + 1))
  /\ scheduler' = Len(tasks) + 1
  /\ UNCHANGED <<now, worker>>

InsertScheduled ==
  /\ scheduler # 0
  /\ Insert(scheduler)
  /\ scheduler' = 0
  /\ UNCHANGED <<now, lastScheduled, worker>>

(* POST /autonomy/tasks (priority 50), and ApplySpec (spec.reconcile, 80). *)
FileTask(f) ==
  /\ Stamp(NewTask(f[1], f[3], "client", f[2], 3, Len(tasks) + 1))
  /\ UNCHANGED <<now, lastScheduled, scheduler, worker>>

InsertFiled(id) ==
  /\ tasks[id].status = "FILING"
  /\ id \notin {scheduler, worker.filing}
  /\ Insert(id)
  /\ UNCHANGED <<now, lastScheduled, scheduler, worker>>

-----------------------------------------------------------------------------
(* Worker.                                                                 *)

(* Deviations, of Queued, Best and CompleteAgentTask. *)
DeadLettersLeft == {id \in TaskIds : tasks[id].status = "QUEUED" /\ ~tasks[id].dead}

AnyOfPriority(id) ==
  \A other \in {i \in TaskIds : tasks[i].status = "QUEUED"} :
    tasks[id].priority >= tasks[other].priority

FailureNotStored ==
  LET ok == tasks[worker.task].dead \/ worker.outcome = "COMPLETED"
  IN  /\ worker.pc = "complete"
      /\ tasks' = [tasks EXCEPT ![worker.task].status = IF ok THEN "COMPLETED" ELSE "RUNNING"]
      /\ worker' = [worker EXCEPT !.pc = IF ok THEN "idle" ELSE "requeue",
                                  !.outcome = "COMPLETED"]
      /\ UNCHANGED <<now, lastScheduled, scheduler>>

BlockedNotRetried ==
  LET ok == tasks[worker.task].dead \/ worker.outcome = "COMPLETED"
  IN  /\ worker.pc = "complete"
      /\ tasks' = [tasks EXCEPT ![worker.task].status = IF ok THEN "COMPLETED" ELSE "FAILED"]
      /\ worker' = [worker EXCEPT !.pc = IF worker.outcome = "PENDING_APPROVAL"
                                         THEN "requeue" ELSE "idle",
                                  !.outcome = "COMPLETED"]
      /\ UNCHANGED <<now, lastScheduled, scheduler>>

(* ClaimNextAgentTask's choice: the highest priority, then the oldest.     *)
Before(i, j) ==
  \/ tasks[i].priority > tasks[j].priority
  \/ tasks[i].priority = tasks[j].priority /\ i <= j

Queued == {id \in TaskIds : tasks[id].status = "QUEUED"}

Best(id) == \A other \in Queued : Before(id, other)

ClaimNextAgentTask ==
  /\ worker.pc = "idle"
  /\ \E id \in Queued :
       /\ Best(id)
       /\ tasks' = [tasks EXCEPT ![id].status   = "RUNNING",
                                 ![id].attempts = @ + 1,
                                 ![id].claim    = Cardinality(Claimed) + 1]
       /\ worker' = [worker EXCEPT !.task = id,
                                   !.pc = IF tasks[id].dead THEN "complete" ELSE "call"]
  /\ UNCHANGED <<now, lastScheduled, scheduler>>

(* HandleCall for the task: no approval, so a HIGH tool is always held and *)
(* the others run when the health gate lets them.                          *)
CallOutcomes(risk, gateOK) ==
  LET decision == Evaluate(risk, risk = "HIGH",
                           [approve |-> FALSE, mfa |-> FALSE, second |-> FALSE],
                           risk = "LOW" \/ gateOK, [mode |-> "GUARDED_SRE", until |-> 0], now)
  IN  CASE Allow(decision)                         -> {"COMPLETED", "FAILED"}
        [] decision.type = "REQUIRES_APPROVAL"     -> {"PENDING_APPROVAL"}
        [] OTHER                                   -> {"BLOCKED"}

HandleCall ==
  /\ worker.pc = "call"
  /\ \E gateOK \in BOOLEAN :
       \E outcome \in CallOutcomes(RiskOf[tasks[worker.task].tool], gateOK) :
         worker' = [worker EXCEPT !.pc = "complete", !.outcome = outcome]
  /\ UNCHANGED <<now, lastScheduled, tasks, scheduler>>

(* CompleteAgentTask, with an error unless the call completed.  A dead     *)
(* letter is acknowledged without a call.                                  *)
CompleteAgentTask ==
  LET ok == tasks[worker.task].dead \/ worker.outcome = "COMPLETED"
  IN  /\ worker.pc = "complete"
      /\ tasks' = [tasks EXCEPT ![worker.task].status = IF ok THEN "COMPLETED" ELSE "FAILED"]
      /\ worker' = [worker EXCEPT !.pc = IF ok THEN "idle" ELSE "requeue",
                                  !.outcome = "COMPLETED"]
      /\ UNCHANGED <<now, lastScheduled, scheduler>>

(* completeWithRetry: a new task for the failed one, or a dead letter.     *)
Successor(id) ==
  IF tasks[id].attempts < tasks[id].maxAttempts
  THEN NewTask(tasks[id].tool, FALSE, tasks[id].by, tasks[id].priority,
               tasks[id].maxAttempts, tasks[id].origin)
  ELSE NewTask(tasks[id].tool, TRUE, "worker", 10, 1, tasks[id].origin)

Requeue ==
  /\ worker.pc = "requeue"
  /\ Stamp(Successor(worker.task))
  /\ worker' = [worker EXCEPT !.pc = "insert", !.filing = Len(tasks) + 1]
  /\ UNCHANGED <<now, lastScheduled, scheduler>>

InsertSuccessor ==
  /\ worker.pc = "insert"
  /\ Insert(worker.filing)
  /\ worker' = [worker EXCEPT !.pc = "idle", !.filing = 0]
  /\ UNCHANGED <<now, lastScheduled, scheduler>>

Tick ==
  /\ now < MaxTime
  /\ now' = now + 1
  /\ UNCHANGED <<lastScheduled, tasks, scheduler, worker>>

-----------------------------------------------------------------------------
Init ==
  /\ now = 1
  /\ lastScheduled = [t \in Recurring |-> 0]
  /\ tasks = <<>>
  /\ scheduler = 0
  /\ worker = [pc |-> "idle", task |-> 0, outcome |-> "COMPLETED", filing |-> 0]

WorkerStep ==
  ClaimNextAgentTask \/ HandleCall \/ CompleteAgentTask \/ Requeue \/ InsertSuccessor

Next ==
  \/ \E t \in Recurring : ScheduleOnce(t)
  \/ InsertScheduled
  \/ \E f \in Filed : FileTask(f)
  \/ \E id \in TaskIds : InsertFiled(id)
  \/ WorkerStep
  \/ Tick

(* The worker's ticker keeps firing and HandleCall returns; a goroutine    *)
(* that waits for the store's mutex gets it.                               *)
Fairness ==
  /\ WF_vars(WorkerStep)
  /\ WF_vars(InsertScheduled)
  /\ \A id \in 1 .. MaxTasks : WF_vars(id \in TaskIds /\ InsertFiled(id))

Spec == Init /\ [][Next]_vars /\ Fairness

-----------------------------------------------------------------------------
(* Properties.                                                             *)

Chain(root) == {id \in TaskIds : tasks[id].origin = root}
Open        == {id \in TaskIds : tasks[id].status \in {"FILING", "QUEUED", "RUNNING"}}

(* Every variable keeps its type, and the task the worker holds is the one *)
(* running task: none is left running behind it, none is claimed twice     *)
(* (memory.go:723-771).                                                    *)
TypeOK ==
  /\ now \in Nat
  /\ lastScheduled \in [Recurring -> Nat]
  /\ tasks \in Seq(Task)
  /\ worker \in Worker
  /\ {worker.task, worker.filing, scheduler} \subseteq {0} \cup TaskIds
  /\ {id \in TaskIds : tasks[id].status = "RUNNING"}
       = IF worker.pc \in {"call", "complete"} THEN {worker.task} ELSE {}

(* A failure is never dropped: the last task of a chain has failed only    *)
(* while the worker is about to file its successor, and a chain has one    *)
(* open task at most, so retries do not multiply (service.go:145-169).     *)
NoFailureIsDropped ==
  \A root \in TaskIds : tasks[root].origin = root =>
    LET last == CHOOSE id \in Chain(root) : \A i \in Chain(root) : i <= id
    IN  /\ Chain(root) \cap Open \subseteq {last}
        /\ tasks[last].status = "FAILED" => worker.pc = "requeue" /\ worker.task = last
        /\ \A id \in Chain(root) \ {last} : tasks[id].status = "FAILED"

(* The scheduler's filings of one tool are an interval apart.              *)
FilingsAreSpaced ==
  \A i, j \in TaskIds :
    /\ i < j
    /\ tasks[i].tool = tasks[j].tool
    /\ tasks[i].by = "scheduler" /\ tasks[j].by = "scheduler"
    /\ tasks[i].origin = i /\ tasks[j].origin = j
    => tasks[j].createdAt - tasks[i].createdAt >= Interval[tasks[i].tool]

(* Nobody is overtaken: a task that goes before another one, by priority   *)
(* and then by time stamp, is claimed before it unless it entered the      *)
(* table only after the other one's claim (memory.go:681-747), retries of  *)
(* long-failing chains and late insertions included.                       *)
NoOvertaking ==
  \A i, j \in TaskIds :
    /\ i # j /\ Before(i, j)
    /\ tasks[i].status # "FILING" /\ tasks[j].claim # 0
    /\ tasks[i].claim = 0 \/ tasks[j].claim < tasks[i].claim
    => tasks[j].claim <= tasks[i].filedAfter

(* Once nobody files any more, every task is worked off: dead letters and  *)
(* tasks that wait behind retries included (service.go:80-143).  A worker  *)
(* with a retry that finds the table at its bound ends the obligation; the *)
(* code's table has no bound.                                              *)
FiledTasksAreWorked ==
  \A id \in 1 .. MaxTasks :
    id \in TaskIds ~> \/ worker.pc = "requeue" /\ Len(tasks) = MaxTasks
                      \/ id \in TaskIds /\ tasks[id].status \in {"COMPLETED", "FAILED"}

(* A task is attempted at most MaxAttempts times, retries included; after  *)
(* that it goes to the dead letters.                                       *)
RetriesAreBounded ==
  \A root \in TaskIds : tasks[root].origin = root =>
    Cardinality({id \in Chain(root) : ~tasks[id].dead /\ tasks[id].attempts > 0})
      <= tasks[root].maxAttempts

-----------------------------------------------------------------------------
(* The inductive invariant behind the safety properties.                   *)

(* A task on its way into the table is inserted by one goroutine only. *)
FilingsApart ==
  /\ scheduler # 0 => tasks[scheduler].status = "FILING" /\ scheduler # worker.filing
  /\ worker.filing # 0 => tasks[worker.filing].status = "FILING"
  /\ worker.pc = "insert" => worker.filing # 0

(* A chain grows at its end, where all but the last of its tasks have      *)
(* failed, and only when the worker has the last one's failure in hand.    *)
ChainsGrow ==
  /\ \A id \in TaskIds : tasks[id].origin \in TaskIds
  /\ \A i, j \in TaskIds :
       i < j /\ tasks[i].origin = tasks[j].origin => tasks[i].status = "FAILED"
  /\ \A i \in TaskIds : tasks[i].status = "FAILED" =>
       \/ worker.pc = "requeue" /\ worker.task = i
       \/ \E j \in TaskIds : i < j /\ tasks[i].origin = tasks[j].origin
  /\ worker.pc = "requeue" =>
       /\ worker.task # 0 /\ tasks[worker.task].status = "FAILED"
       /\ \A j \in TaskIds : tasks[j].origin = tasks[worker.task].origin => j <= worker.task

(* The tasks claimed so far, numbered in the order of their claims. *)
ClaimsCount ==
  \A id \in TaskIds :
    /\ tasks[id].attempts = 0 <=> tasks[id].status \in {"FILING", "QUEUED"}
    /\ tasks[id].attempts = 0 <=> tasks[id].claim = 0
    /\ tasks[id].claim <= Cardinality(Claimed)

(* The scheduler's own filings, retries left aside, are remembered. *)
FilingsRemembered ==
  /\ now >= 1
  /\ \A t \in Recurring : lastScheduled[t] <= now
  /\ \A id \in TaskIds : tasks[id].by = "scheduler" /\ tasks[id].origin = id =>
       /\ tasks[id].tool \in Recurring
       /\ tasks[id].createdAt \in 1 .. lastScheduled[tasks[id].tool]

=============================================================================
