----------------------------- MODULE AutonomyProofs -----------------------------
(***************************************************************************)
(* Theorems of AutonomyQueue, for any tools, intervals and clients, and    *)
(* any number of tasks; in the last section, those of SpecReconcile, whose *)
(* reconciliations the queue's tasks are, for any keys, values and         *)
(* clients.                                                                *)
(***************************************************************************)
EXTENDS AutonomyQueue, SpecReconcile, FiniteSetTheorems, TLAPS

-----------------------------------------------------------------------------
(* What the steps do to the task table.                                    *)

LEMMA TaskTyped == ASSUME TypeOK, NEW id \in TaskIds PROVE tasks[id] \in Task
BY DEF TypeOK, TaskIds

LEMMA ClaimedIsFinite ==
  ASSUME TypeOK
  PROVE  IsFiniteSet(Claimed) /\ Cardinality(Claimed) \in Nat
<1>1. Len(tasks) \in Nat
  BY DEF TypeOK
<1>2. IsFiniteSet(TaskIds)
  BY <1>1, FS_Interval DEF TaskIds
<1>3. Claimed \subseteq TaskIds
  BY DEF Claimed
<1> QED BY <1>2, <1>3, FS_Subset, FS_CardinalityType

(* A task enters the table at its end. *)
Enters(task) ==
  /\ tasks' \in Seq(Task)
  /\ Len(tasks) + 1 \notin TaskIds /\ TaskIds' = TaskIds \cup {Len(tasks) + 1}
  /\ \A i \in TaskIds : i < Len(tasks) + 1 /\ tasks'[i] = tasks[i]
  /\ tasks'[Len(tasks) + 1] = task

LEMMA StampEnters ==
  ASSUME TypeOK, NEW task \in Task, Stamp(task)
  PROVE  Enters(task)
BY DEF TypeOK, Stamp, Enters, TaskIds

(* A task of the table is written: task takes its place. *)
Writes(id, task) ==
  /\ tasks' \in Seq(Task)
  /\ TaskIds' = TaskIds
  /\ \A i \in TaskIds : i # id => tasks'[i] = tasks[i]
  /\ tasks'[id] = task

LEMMA Written ==
  ASSUME TypeOK, NEW id \in TaskIds, NEW task \in Task, tasks' = [tasks EXCEPT ![id] = task]
  PROVE  Writes(id, task)
BY DEF TypeOK, Writes, TaskIds

LEMMA InsertWrites ==
  ASSUME TypeOK, NEW id \in TaskIds, Insert(id)
  PROVE  Writes(id, [tasks[id] EXCEPT !.status = "QUEUED", !.filedAfter = Cardinality(Claimed)])
<1> DEFINE task == [tasks[id] EXCEPT !.status = "QUEUED", !.filedAfter = Cardinality(Claimed)]
<1>1. tasks[id] \in Task
  BY TaskTyped
<1>2. task \in Task
  BY <1>1, ClaimedIsFinite DEF Task, TaskStatuses
<1>3. tasks' = [tasks EXCEPT ![id] = task]
  BY DEF Insert, TypeOK, TaskIds
<1> HIDE DEF task
<1>4. Writes(id, task)
  BY <1>2, <1>3, Written
<1> QED BY <1>4 DEF task

(* What a task keeps, whatever becomes of it. *)
Alters(id) ==
  /\ id \in TaskIds /\ TaskIds' = TaskIds
  /\ tasks' \in Seq(Task)
  /\ \A i \in TaskIds : i # id => tasks'[i] = tasks[i]
  /\ tasks'[id].tool = tasks[id].tool /\ tasks'[id].dead = tasks[id].dead
  /\ tasks'[id].by = tasks[id].by /\ tasks'[id].origin = tasks[id].origin
  /\ tasks'[id].priority = tasks[id].priority
  /\ tasks'[id].createdAt = tasks[id].createdAt

Inserts(id) ==
  /\ Alters(id)
  /\ tasks'[id].status = "QUEUED" /\ tasks'[id].filedAfter = Cardinality(Claimed)
  /\ tasks'[id].attempts = tasks[id].attempts /\ tasks'[id].claim = tasks[id].claim

LEMMA InsertInserts ==
  ASSUME TypeOK, NEW id \in TaskIds, Insert(id)
  PROVE  Inserts(id)
<1> DEFINE new == [tasks[id] EXCEPT !.status = "QUEUED", !.filedAfter = Cardinality(Claimed)]
<1>1. tasks[id] \in Task
  BY TaskTyped
<1>2. /\ new.status = "QUEUED" /\ new.filedAfter = Cardinality(Claimed)
      /\ new.tool = tasks[id].tool /\ new.dead = tasks[id].dead /\ new.by = tasks[id].by
      /\ new.origin = tasks[id].origin /\ new.priority = tasks[id].priority
      /\ new.createdAt = tasks[id].createdAt /\ new.attempts = tasks[id].attempts
      /\ new.claim = tasks[id].claim
  BY <1>1 DEF Task
<1>3. Writes(id, new)
  BY InsertWrites
<1> HIDE DEF new
<1> QED BY <1>2, <1>3 DEF Inserts, Alters, Writes

Running(old, m, n) == [old EXCEPT !.status = "RUNNING", !.attempts = m, !.claim = n]

LEMMA ClaimedTask ==
  ASSUME NEW old \in Task, NEW m \in Nat, NEW n \in Nat
  PROVE  LET task == Running(old, m, n) IN
         /\ task \in Task /\ task.attempts = m /\ task.claim = n
         /\ task.status = "RUNNING" /\ task.filedAfter = old.filedAfter
         /\ task.tool = old.tool /\ task.dead = old.dead
         /\ task.by = old.by /\ task.origin = old.origin
         /\ task.priority = old.priority /\ task.createdAt = old.createdAt
BY DEF Running, Task, TaskStatuses

(* The worker claims a task, ... *)
Claims(id) ==
  /\ Alters(id)
  /\ id \in Queued /\ Best(id)
  /\ tasks'[id].status = "RUNNING" /\ tasks'[id].filedAfter = tasks[id].filedAfter
  /\ tasks'[id].attempts # 0 /\ tasks'[id].claim = Cardinality(Claimed) + 1
  /\ worker.pc = "idle"
  /\ worker' \in Worker /\ worker'.pc \in {"call", "complete"}
  /\ worker'.task = id /\ worker'.filing = worker.filing

LEMMA ClaimClaims ==
  ASSUME TypeOK, ClaimNextAgentTask
  PROVE  \E id \in TaskIds : Claims(id)
<1>1. PICK id \in Queued :
        /\ Best(id)
        /\ tasks' = [tasks EXCEPT ![id].status   = "RUNNING",
                                  ![id].attempts = @ + 1,
                                  ![id].claim    = Cardinality(Claimed) + 1]
        /\ worker' = [worker EXCEPT !.task = id,
                                    !.pc = IF tasks[id].dead THEN "complete" ELSE "call"]
  BY DEF ClaimNextAgentTask
<1> DEFINE task == [tasks[id] EXCEPT !.status = "RUNNING", !.attempts = @ + 1,
                                     !.claim = Cardinality(Claimed) + 1]
<1>2. id \in TaskIds /\ tasks[id] \in Task
  BY TaskTyped DEF Queued
<1>3. /\ task \in Task /\ task.attempts # 0
      /\ task.status = "RUNNING" /\ task.filedAfter = tasks[id].filedAfter
      /\ task.claim = Cardinality(Claimed) + 1
      /\ task.tool = tasks[id].tool /\ task.dead = tasks[id].dead
      /\ task.by = tasks[id].by /\ task.origin = tasks[id].origin
      /\ task.priority = tasks[id].priority /\ task.createdAt = tasks[id].createdAt
  <2>1. PICK n \in Nat : n = Cardinality(Claimed) + 1
    BY ClaimedIsFinite
  <2>2. PICK old \in Task : old = tasks[id]
    BY <1>2
  <2>3. PICK m \in Nat : m = old.attempts + 1
    BY DEF Task
  <2>4. task = Running(old, m, n)
    BY <2>1, <2>2, <2>3 DEF Running
  <2> HIDE DEF task
  <2>5. m # 0
    BY <2>3 DEF Task
  <2>6. /\ task \in Task /\ task.attempts = m /\ task.claim = n
        /\ task.status = "RUNNING" /\ task.filedAfter = old.filedAfter
        /\ task.tool = old.tool /\ task.dead = old.dead
        /\ task.by = old.by /\ task.origin = old.origin
        /\ task.priority = old.priority /\ task.createdAt = old.createdAt
    BY <2>4, ClaimedTask
  <2>7. task.attempts # 0 /\ task.claim = Cardinality(Claimed) + 1
    BY <2>1, <2>5, <2>6
  <2> QED BY <2>2, <2>6, <2>7
<1>4. tasks' = [tasks EXCEPT ![id] = task]
  BY <1>1, <1>2 DEF TypeOK, TaskIds
<1> HIDE DEF task
<1>5. Writes(id, task)
  BY <1>2, <1>3, <1>4, Written
<1>6. /\ worker' \in Worker /\ worker'.pc \in {"call", "complete"}
      /\ worker'.task = id /\ worker'.filing = worker.filing
  <2>1. worker \in Worker /\ id \in Nat
    BY <1>2 DEF TypeOK, TaskIds
  <2> QED BY <1>1, <2>1 DEF Worker
<1>7. worker.pc = "idle"
  BY DEF ClaimNextAgentTask
<1>8. Alters(id)
  BY <1>2, <1>3, <1>5 DEF Alters, Writes
<1>9. /\ tasks'[id].status = "RUNNING" /\ tasks'[id].filedAfter = tasks[id].filedAfter
      /\ tasks'[id].attempts # 0 /\ tasks'[id].claim = Cardinality(Claimed) + 1
  BY <1>3, <1>5 DEF Writes
<1>10. id \in Queued /\ Best(id)
  BY <1>1
<1>11. Claims(id)
  BY <1>6, <1>7, <1>8, <1>9, <1>10 DEF Claims
<1> QED BY <1>2, <1>11

(* ... and settles the task it holds. *)
Settles(id) ==
  /\ Alters(id)
  /\ id = worker.task /\ worker.pc = "complete" /\ tasks[id].status = "RUNNING"
  /\ tasks'[id].attempts = tasks[id].attempts /\ tasks'[id].claim = tasks[id].claim
  /\ tasks'[id].filedAfter = tasks[id].filedAfter
  /\ worker' \in Worker /\ worker'.task = id /\ worker'.filing = worker.filing
  /\ \/ tasks'[id].status = "COMPLETED" /\ worker'.pc = "idle"
     \/ tasks'[id].status = "FAILED" /\ worker'.pc = "requeue"

LEMMA CompleteSettles ==
  ASSUME TypeOK, CompleteAgentTask
  PROVE  \E id \in TaskIds : Settles(id)
<1>1. PICK id : id = worker.task
  OBVIOUS
<1>2. PICK ok \in BOOLEAN :
        /\ tasks' = [tasks EXCEPT ![id].status = IF ok THEN "COMPLETED" ELSE "FAILED"]
        /\ worker' = [worker EXCEPT !.pc = IF ok THEN "idle" ELSE "requeue",
                                    !.outcome = "COMPLETED"]
  <2> DEFINE done == tasks[worker.task].dead \/ worker.outcome = "COMPLETED"
  <2>1. /\ tasks' = [tasks EXCEPT ![worker.task].status = IF done THEN "COMPLETED" ELSE "FAILED"]
        /\ worker' = [worker EXCEPT !.pc = IF done THEN "idle" ELSE "requeue",
                                    !.outcome = "COMPLETED"]
    BY DEF CompleteAgentTask
  <2>2. done \in BOOLEAN
    OBVIOUS
  <2> HIDE DEF done
  <2> QED BY <1>1, <2>1, <2>2
<1>3. id \in TaskIds /\ tasks[id].status = "RUNNING" /\ worker.pc = "complete"
  BY <1>1 DEF CompleteAgentTask, TypeOK
<1>4. tasks[id] \in Task
  BY <1>3, TaskTyped
<1> DEFINE task == [tasks[id] EXCEPT !.status = IF ok THEN "COMPLETED" ELSE "FAILED"]
<1>5. /\ task \in Task /\ task.status = IF ok THEN "COMPLETED" ELSE "FAILED"
      /\ task.attempts = tasks[id].attempts /\ task.claim = tasks[id].claim
      /\ task.filedAfter = tasks[id].filedAfter
      /\ task.tool = tasks[id].tool /\ task.dead = tasks[id].dead
      /\ task.by = tasks[id].by /\ task.origin = tasks[id].origin
      /\ task.priority = tasks[id].priority /\ task.createdAt = tasks[id].createdAt
  BY <1>4 DEF Task, TaskStatuses
<1>6. tasks' = [tasks EXCEPT ![id] = task]
  BY <1>2, <1>3 DEF TypeOK, TaskIds
<1> HIDE DEF task
<1>7. Writes(id, task)
  BY <1>3, <1>5, <1>6, Written
<1>8. /\ worker' \in Worker /\ worker'.pc = IF ok THEN "idle" ELSE "requeue"
      /\ worker'.task = id /\ worker'.filing = worker.filing
  BY <1>1, <1>2 DEF TypeOK, Worker, Outcomes
<1> QED BY <1>1, <1>3, <1>5, <1>7, <1>8 DEF Settles, Alters, Writes

(* A new task is the scheduler's, a client's or the successor of a failed  *)
(* one.                                                                    *)
Files(task) ==
  /\ Enters(task)
  /\ task.status = "FILING" /\ task.attempts = 0 /\ task.claim = 0
  /\ task.createdAt = now

LEMMA StampFiles ==
  ASSUME TypeOK, NEW tool \in TaskTools, NEW dead \in BOOLEAN,
         NEW by \in {"scheduler", "client", "worker"}, NEW priority \in Nat,
         NEW max \in Nat, NEW origin \in Nat,
         Stamp(NewTask(tool, dead, by, priority, max, origin))
  PROVE  \E task \in Task : /\ Files(task)
                            /\ task.tool = tool /\ task.by = by /\ task.origin = origin
<1>0. PICK task : task = NewTask(tool, dead, by, priority, max, origin)
  OBVIOUS
<1>1. /\ task \in Task /\ task.tool = tool /\ task.by = by /\ task.origin = origin
      /\ task.status = "FILING" /\ task.attempts = 0 /\ task.claim = 0
      /\ task.createdAt = now
  BY <1>0 DEF NewTask, Task, TaskStatuses, TypeOK
<1>2. Stamp(task)
  BY <1>0
<1>3. Enters(task)
  BY <1>1, <1>2, StampEnters
<1> QED BY <1>1, <1>3 DEF Files

LEMMA ScheduleFiles ==
  ASSUME TypeOK, NEW t \in Recurring, ScheduleOnce(t)
  PROVE  \E task \in Task : /\ Files(task) /\ task.tool = t
                            /\ task.by = "scheduler" /\ task.origin = Len(tasks) + 1
<1>1. Len(tasks) + 1 \in Nat /\ t \in TaskTools
  BY DEF TypeOK, TaskTools
<1>2. Stamp(NewTask(t, FALSE, "scheduler", 50, 3, Len(tasks) + 1))
  BY DEF ScheduleOnce
<1>3. PICK tool \in TaskTools, n \in Nat : tool = t /\ n = Len(tasks) + 1
  BY <1>1
<1>4. PICK dead \in BOOLEAN : Stamp(NewTask(tool, dead, "scheduler", 50, 3, n))
  BY <1>2, <1>3
<1>5. "scheduler" \in {"scheduler", "client", "worker"} /\ 50 \in Nat /\ 3 \in Nat
  OBVIOUS
<1>6. \E task \in Task : Files(task) /\ task.tool = tool /\ task.by = "scheduler" /\ task.origin = n
  BY <1>4, <1>5, StampFiles
<1> QED BY <1>3, <1>6

LEMMA ClientFiles ==
  ASSUME TypeOK, NEW f \in Filed, FileTask(f)
  PROVE  \E task \in Task : /\ Files(task)
                            /\ task.by = "client" /\ task.origin = Len(tasks) + 1
<1>1. Len(tasks) + 1 \in Nat /\ f[1] \in TaskTools /\ f[2] \in Nat /\ f[3] \in BOOLEAN
  BY QueueAssumption DEF TypeOK, TaskTools
<1>2. Stamp(NewTask(f[1], f[3], "client", f[2], 3, Len(tasks) + 1))
  BY DEF FileTask
<1>3. PICK tool \in TaskTools, dead \in BOOLEAN, priority \in Nat, n \in Nat :
        tool = f[1] /\ dead = f[3] /\ priority = f[2] /\ n = Len(tasks) + 1
  BY <1>1
<1>4. Stamp(NewTask(tool, dead, "client", priority, 3, n))
  BY <1>2, <1>3
<1>5. "client" \in {"scheduler", "client", "worker"} /\ 3 \in Nat
  OBVIOUS
<1>6. \E task \in Task : Files(task) /\ task.by = "client" /\ task.origin = n
  BY <1>4, <1>5, StampFiles
<1> QED BY <1>3, <1>6

LEMMA RequeueFiles ==
  ASSUME TypeOK, worker.task # 0, Requeue
  PROVE  \E task \in Task : Files(task) /\ task.origin = tasks[worker.task].origin
<1>1. worker.task \in TaskIds
  BY DEF TypeOK
<1>2. PICK old \in Task : old = tasks[worker.task]
  BY <1>1, TaskTyped
<1>3. PICK tool \in TaskTools, by \in {"scheduler", "client", "worker"}, priority \in Nat,
          max \in Nat, origin \in Nat :
        /\ tool = old.tool /\ by = old.by /\ priority = old.priority
        /\ max = old.maxAttempts /\ origin = old.origin
  BY DEF Task
<1>4. PICK dead \in BOOLEAN :
        \/ Stamp(NewTask(tool, dead, by, priority, max, origin))
        \/ Stamp(NewTask(tool, dead, "worker", 10, 1, origin))
  BY <1>2, <1>3 DEF Requeue, Successor
<1>5. "worker" \in {"scheduler", "client", "worker"} /\ 10 \in Nat /\ 1 \in Nat
  OBVIOUS
<1>6. \E task \in Task : Files(task) /\ task.origin = origin
  <2>1. CASE Stamp(NewTask(tool, dead, by, priority, max, origin))
    BY <2>1, StampFiles
  <2>2. CASE Stamp(NewTask(tool, dead, "worker", 10, 1, origin))
    BY <1>5, <2>2, StampFiles
  <2> QED BY <1>4, <2>1, <2>2
<1> QED BY <1>2, <1>3, <1>6

-----------------------------------------------------------------------------
(* Types.  Who inserts a task is the only one to do so (FilingsApart), and *)
(* who requeues one has it in hand (ChainsGrow).                           *)
RunningOnes == {id \in TaskIds : tasks[id].status = "RUNNING"}
Busy        == worker.pc \in {"call", "complete"}

LEMMA FilesTyped ==
  ASSUME TypeOK, NEW task \in Task, Files(task), now' \in Nat,
         lastScheduled' \in [Recurring -> Nat], worker' \in Worker,
         Busy' = Busy, worker'.task = worker.task,
         {worker'.filing, scheduler'} \subseteq {worker.filing, scheduler, Len(tasks) + 1}
  PROVE  TypeOK'
<1>1. RunningOnes' = RunningOnes
  BY DEF Files, Enters, RunningOnes
<1>2. {worker'.task, worker'.filing, scheduler'} \subseteq {0} \cup TaskIds'
  BY DEF Files, Enters, TypeOK
<1>3. RunningOnes = IF Busy THEN {worker.task} ELSE {}
  BY DEF TypeOK, RunningOnes, Busy
<1>4. RunningOnes' = IF Busy' THEN {worker'.task} ELSE {}
  BY <1>1, <1>3
<1>5. tasks' \in Seq(Task)
  BY DEF Files, Enters
<1> QED BY <1>2, <1>4, <1>5 DEF TypeOK, RunningOnes, Busy

LEMMA InsertTyped ==
  ASSUME TypeOK, NEW id \in TaskIds, tasks[id].status = "FILING", Inserts(id),
         UNCHANGED <<now, lastScheduled>>, worker' \in Worker,
         Busy' = Busy, worker'.task = worker.task,
         {worker'.filing, scheduler'} \subseteq {worker.filing, scheduler, 0}
  PROVE  TypeOK'
<1>1. RunningOnes' = RunningOnes
  BY DEF Inserts, Alters, RunningOnes
<1>2. {worker'.task, worker'.filing, scheduler'} \subseteq {0} \cup TaskIds'
  BY DEF Inserts, Alters, TypeOK
<1>3. RunningOnes = IF Busy THEN {worker.task} ELSE {}
  BY DEF TypeOK, RunningOnes, Busy
<1>4. RunningOnes' = IF Busy' THEN {worker'.task} ELSE {}
  BY <1>1, <1>3
<1>5. tasks' \in Seq(Task)
  BY DEF Inserts, Alters
<1> QED BY <1>2, <1>4, <1>5 DEF TypeOK, RunningOnes, Busy

(* The worker, which holds its task while it requeues it.                  *)
LEMMA RequeueMoves ==
  ASSUME TypeOK, Requeue
  PROVE  /\ worker' \in Worker /\ worker'.pc = "insert" /\ worker.pc = "requeue"
         /\ worker'.task = worker.task /\ worker'.filing = Len(tasks) + 1
<1>1. Len(tasks) + 1 \in Nat /\ worker \in Worker
  BY DEF TypeOK
<1>2. PICK n \in Nat : n = Len(tasks) + 1
  BY <1>1
<1>3. worker' = [worker EXCEPT !.pc = "insert", !.filing = n] /\ worker.pc = "requeue"
  BY <1>2 DEF Requeue
<1> QED BY <1>1, <1>2, <1>3 DEF Worker

LEMMA InsertMoves ==
  ASSUME TypeOK, InsertSuccessor
  PROVE  /\ worker' \in Worker /\ worker'.pc = "idle" /\ worker.pc = "insert"
         /\ worker'.task = worker.task /\ worker'.filing = 0
BY DEF InsertSuccessor, TypeOK, Worker

LEMMA CallMoves ==
  ASSUME TypeOK, HandleCall
  PROVE  /\ worker' \in Worker /\ worker'.pc = "complete" /\ worker.pc = "call"
         /\ worker'.task = worker.task /\ worker'.filing = worker.filing
<1>1. PICK gateOK \in BOOLEAN :
        \E outcome \in CallOutcomes(RiskOf[tasks[worker.task].tool], gateOK) :
          worker' = [worker EXCEPT !.pc = "complete", !.outcome = outcome]
  BY DEF HandleCall
<1>2. CallOutcomes(RiskOf[tasks[worker.task].tool], gateOK) \subseteq Outcomes
  BY DEF CallOutcomes, Outcomes
<1>3. PICK outcome \in Outcomes : worker' = [worker EXCEPT !.pc = "complete", !.outcome = outcome]
  BY <1>1, <1>2
<1>4. worker.pc = "call"
  BY DEF HandleCall
<1> QED BY <1>3, <1>4 DEF TypeOK, Worker

LEMMA Typing ==
  ASSUME TypeOK, FilingsApart, ChainsGrow, [Next]_vars
  PROVE  TypeOK'
<1>0. worker \in Worker /\ now \in Nat
  BY DEF TypeOK
<1>1. ASSUME NEW t \in Recurring, ScheduleOnce(t) PROVE TypeOK'
  <2>1. PICK task \in Task : Files(task)
    BY <1>1, ScheduleFiles
  <2>2. /\ UNCHANGED <<now, worker>> /\ scheduler' = Len(tasks) + 1
        /\ lastScheduled' \in [Recurring -> Nat]
    BY <1>1 DEF ScheduleOnce, TypeOK
  <2> QED BY <1>0, <2>1, <2>2, FilesTyped DEF Busy
<1>2. ASSUME NEW f \in Filed, FileTask(f) PROVE TypeOK'
  <2>1. PICK task \in Task : Files(task)
    BY <1>2, ClientFiles
  <2>2. UNCHANGED <<now, lastScheduled, scheduler, worker>> /\ lastScheduled \in [Recurring -> Nat]
    BY <1>2 DEF FileTask, TypeOK
  <2> QED BY <1>0, <2>1, <2>2, FilesTyped DEF Busy
<1>3. ASSUME Requeue PROVE TypeOK'
  <2>1. worker.task # 0
    BY <1>3 DEF Requeue, ChainsGrow
  <2>2. PICK task \in Task : Files(task)
    BY <1>3, <2>1, RequeueFiles
  <2>3. UNCHANGED <<now, lastScheduled, scheduler>> /\ lastScheduled \in [Recurring -> Nat]
    BY <1>3 DEF Requeue, TypeOK
  <2> QED BY <1>0, <1>3, <2>2, <2>3, RequeueMoves, FilesTyped DEF Busy
<1>4. CASE InsertScheduled
  <2>1. PICK id \in TaskIds : id = scheduler /\ tasks[id].status = "FILING" /\ Insert(id)
    BY <1>4 DEF InsertScheduled, FilingsApart, TypeOK
  <2>2. Inserts(id)
    BY <2>1, InsertInserts
  <2>3. UNCHANGED <<now, lastScheduled, worker>> /\ scheduler' = 0
    BY <1>4 DEF InsertScheduled
  <2> QED BY <1>0, <2>1, <2>2, <2>3, InsertTyped DEF Busy
<1>5. ASSUME NEW id \in TaskIds, InsertFiled(id) PROVE TypeOK'
  <2>1. Inserts(id) /\ tasks[id].status = "FILING"
    BY <1>5, InsertInserts DEF InsertFiled
  <2>2. UNCHANGED <<now, lastScheduled, scheduler, worker>>
    BY <1>5 DEF InsertFiled
  <2> QED BY <1>0, <2>1, <2>2, InsertTyped DEF Busy
<1>6. CASE InsertSuccessor
  <2>1. PICK id \in TaskIds : id = worker.filing /\ tasks[id].status = "FILING" /\ Insert(id)
    BY <1>6 DEF InsertSuccessor, FilingsApart, TypeOK
  <2>2. Inserts(id)
    BY <2>1, InsertInserts
  <2>3. UNCHANGED <<now, lastScheduled, scheduler>>
    BY <1>6 DEF InsertSuccessor
  <2> QED BY <1>6, <2>1, <2>2, <2>3, InsertMoves, InsertTyped DEF Busy
<1>7. CASE ClaimNextAgentTask
  <2>1. PICK id \in TaskIds : Claims(id)
    BY <1>7, ClaimClaims
  <2>2. RunningOnes = {} /\ RunningOnes' = {id} /\ worker'.pc \in {"call", "complete"}
    BY <2>1 DEF TypeOK, RunningOnes, Claims, Alters
  <2>3. {worker'.task, worker'.filing, scheduler'} \subseteq {0} \cup TaskIds'
    BY <1>7, <2>1 DEF TypeOK, Claims, Alters, ClaimNextAgentTask
  <2> QED BY <1>7, <2>1, <2>2, <2>3 DEF TypeOK, RunningOnes, Claims, Alters, ClaimNextAgentTask
<1>8. CASE HandleCall
  BY <1>8, CallMoves DEF HandleCall, TypeOK, TaskIds
<1>9. CASE CompleteAgentTask
  <2>1. PICK id \in TaskIds : Settles(id)
    BY <1>9, CompleteSettles
  <2>2. RunningOnes = {id} /\ RunningOnes' = {} /\ worker'.pc \notin {"call", "complete"}
    BY <2>1 DEF TypeOK, RunningOnes, Settles, Alters
  <2>3. {worker'.task, worker'.filing, scheduler'} \subseteq {0} \cup TaskIds'
    BY <1>9, <2>1 DEF TypeOK, Settles, Alters, CompleteAgentTask
  <2> QED BY <1>9, <2>1, <2>2, <2>3 DEF TypeOK, RunningOnes, Settles, Alters, CompleteAgentTask
<1>10. CASE Tick
  BY <1>10 DEF Tick, TypeOK, TaskIds
<1>11. CASE UNCHANGED vars
  BY <1>11 DEF vars, TypeOK, TaskIds
<1> QED BY <1>1, <1>2, <1>3, <1>4, <1>5, <1>6, <1>7, <1>8, <1>9, <1>10, <1>11
        DEF Next, WorkerStep

(* A task comes into the table, and only then can its filer's mark on it   *)
(* change.                                                                 *)
LEMMA FilesApart ==
  ASSUME TypeOK, FilingsApart, NEW task \in Task, Files(task),
         worker'.pc = "insert" => worker'.filing # 0,
         \/ scheduler' = scheduler /\ worker'.filing = worker.filing
         \/ scheduler' = Len(tasks) + 1 /\ worker'.filing = worker.filing
         \/ scheduler' = scheduler /\ worker'.filing = Len(tasks) + 1
  PROVE  FilingsApart'
BY DEF FilingsApart, TypeOK, Files, Enters

LEMMA AltersApart ==
  ASSUME TypeOK, FilingsApart, NEW id \in TaskIds, Alters(id),
         worker'.pc = "insert" => worker'.filing # 0,
         scheduler' \in {0, scheduler}, worker'.filing \in {0, worker.filing},
         id = scheduler => scheduler' = 0, id = worker.filing => worker'.filing = 0
  PROVE  FilingsApart'
BY DEF FilingsApart, TypeOK, Alters

LEMMA FilingsApartStep ==
  ASSUME TypeOK, FilingsApart, ChainsGrow, [Next]_vars
  PROVE  FilingsApart'
<1>1. ASSUME NEW t \in Recurring, ScheduleOnce(t) PROVE FilingsApart'
  <2>1. PICK task \in Task : Files(task)
    BY <1>1, ScheduleFiles
  <2> QED BY <1>1, <2>1, FilesApart DEF ScheduleOnce, FilingsApart
<1>2. ASSUME NEW f \in Filed, FileTask(f) PROVE FilingsApart'
  <2>1. PICK task \in Task : Files(task)
    BY <1>2, ClientFiles
  <2> QED BY <1>2, <2>1, FilesApart DEF FileTask, FilingsApart
<1>3. ASSUME Requeue PROVE FilingsApart'
  <2>1. worker.task # 0
    BY <1>3 DEF Requeue, ChainsGrow
  <2>2. PICK task \in Task : Files(task)
    BY <1>3, <2>1, RequeueFiles
  <2>3. Len(tasks) + 1 # 0
    BY DEF TypeOK
  <2> QED BY <1>3, <2>2, <2>3, RequeueMoves, FilesApart DEF Requeue
<1>4. CASE InsertScheduled
  <2>1. PICK id \in TaskIds : id = scheduler /\ Insert(id)
    BY <1>4 DEF InsertScheduled, TypeOK
  <2>2. Alters(id)
    BY <2>1, InsertInserts DEF Inserts
  <2> QED BY <1>4, <2>1, <2>2, AltersApart DEF InsertScheduled, FilingsApart
<1>5. ASSUME NEW id \in TaskIds, InsertFiled(id) PROVE FilingsApart'
  <2>1. Alters(id)
    BY <1>5, InsertInserts DEF Inserts, InsertFiled
  <2> QED BY <1>5, <2>1, AltersApart DEF InsertFiled, FilingsApart
<1>6. CASE InsertSuccessor
  <2>1. PICK id \in TaskIds : id = worker.filing /\ Insert(id) /\ worker.filing # 0
    BY <1>6 DEF InsertSuccessor, FilingsApart, TypeOK
  <2>2. Alters(id)
    BY <2>1, InsertInserts DEF Inserts
  <2>3. scheduler' = scheduler /\ scheduler # id
    BY <1>6, <2>1 DEF InsertSuccessor, FilingsApart, TypeOK, TaskIds
  <2> QED BY <1>6, <2>1, <2>2, <2>3, AltersApart, InsertMoves
<1>7. CASE ClaimNextAgentTask
  <2>1. PICK id \in TaskIds : Claims(id)
    BY <1>7, ClaimClaims
  <2>2. scheduler' = scheduler /\ id # scheduler /\ id # worker.filing
    BY <1>7, <2>1 DEF ClaimNextAgentTask, Claims, Queued, FilingsApart, TaskIds, TypeOK
  <2> QED BY <2>1, <2>2, AltersApart DEF Claims
<1>8. CASE HandleCall
  BY <1>8, CallMoves DEF HandleCall, FilingsApart
<1>9. CASE CompleteAgentTask
  <2>1. PICK id \in TaskIds : Settles(id)
    BY <1>9, CompleteSettles
  <2>2. scheduler' = scheduler /\ id # scheduler /\ id # worker.filing
    BY <1>9, <2>1 DEF CompleteAgentTask, Settles, FilingsApart, TaskIds, TypeOK
  <2> QED BY <2>1, <2>2, AltersApart DEF Settles
<1>10. CASE Tick \/ UNCHANGED vars
  BY <1>10 DEF Tick, vars, FilingsApart
<1> QED BY <1>1, <1>2, <1>3, <1>4, <1>5, <1>6, <1>7, <1>8, <1>9, <1>10 DEF Next, WorkerStep

-----------------------------------------------------------------------------
(* Chains of retries.                                                      *)

(* A task of its own starts a chain, ... *)
LEMMA RootGrows ==
  ASSUME TypeOK, ChainsGrow, NEW task \in Task, Files(task), task.origin = Len(tasks) + 1,
         worker' = worker
  PROVE  ChainsGrow'
<1>1. /\ Len(tasks) + 1 \notin TaskIds /\ TaskIds' = TaskIds \cup {Len(tasks) + 1}
      /\ \A i \in TaskIds : i < Len(tasks) + 1 /\ tasks'[i] = tasks[i]
      /\ tasks'[Len(tasks) + 1] = task /\ task.status = "FILING"
  BY DEF Files, Enters
<1>2. Len(tasks) + 1 \in Nat /\ TaskIds \subseteq Nat
  BY DEF TypeOK, TaskIds
<1>3. \A id \in TaskIds' : tasks'[id].origin \in TaskIds'
  BY <1>1 DEF ChainsGrow
<1>4. ASSUME NEW i \in TaskIds', NEW j \in TaskIds', i < j, tasks'[i].origin = tasks'[j].origin
      PROVE  tasks'[i].status = "FAILED"
  BY <1>1, <1>2, <1>4 DEF ChainsGrow
<1>5. ASSUME NEW i \in TaskIds', tasks'[i].status = "FAILED"
      PROVE  \/ worker'.pc = "requeue" /\ worker'.task = i
             \/ \E j \in TaskIds' : i < j /\ tasks'[i].origin = tasks'[j].origin
  BY <1>1, <1>5 DEF ChainsGrow
<1>6. ASSUME worker'.pc = "requeue"
      PROVE  /\ worker'.task # 0 /\ tasks'[worker'.task].status = "FAILED"
             /\ \A j \in TaskIds' : tasks'[j].origin = tasks'[worker'.task].origin => j <= worker'.task
  <2>1. PICK id \in TaskIds : id = worker.task /\ worker.task # 0
    BY <1>6 DEF ChainsGrow, TypeOK
  <2> QED BY <1>1, <1>6, <2>1 DEF ChainsGrow
<1> QED BY <1>3, <1>4, <1>5, <1>6 DEF ChainsGrow

(* ... a successor continues the one of the task in the worker's hand, ... *)
LEMMA SuccessorGrows ==
  ASSUME TypeOK, ChainsGrow, Requeue
  PROVE  ChainsGrow'
<1>1. PICK id \in TaskIds : id = worker.task /\ worker.task # 0
  BY DEF ChainsGrow, TypeOK, Requeue
<1>2. PICK task \in Task : Files(task) /\ task.origin = tasks[id].origin
  BY <1>1, RequeueFiles
<1>3. /\ Len(tasks) + 1 \notin TaskIds /\ TaskIds' = TaskIds \cup {Len(tasks) + 1}
      /\ \A i \in TaskIds : i < Len(tasks) + 1 /\ tasks'[i] = tasks[i]
      /\ tasks'[Len(tasks) + 1] = task /\ task.status = "FILING"
  BY <1>2 DEF Files, Enters
<1>4. Len(tasks) + 1 \in Nat /\ TaskIds \subseteq Nat
  BY DEF TypeOK, TaskIds
<1>5. /\ tasks[id].status = "FAILED"
      /\ \A j \in TaskIds : tasks[j].origin = tasks[id].origin => j <= id
      /\ \A i \in TaskIds : tasks[i].origin \in TaskIds
      /\ \A i, j \in TaskIds :
           i < j /\ tasks[i].origin = tasks[j].origin => tasks[i].status = "FAILED"
      /\ \A i \in TaskIds : tasks[i].status = "FAILED" =>
           i = id \/ \E j \in TaskIds : i < j /\ tasks[i].origin = tasks[j].origin
  BY <1>1 DEF ChainsGrow, Requeue
<1>6. \A i \in TaskIds' : tasks'[i].origin \in TaskIds'
  BY <1>2, <1>3, <1>5
<1>7. ASSUME NEW i \in TaskIds', NEW j \in TaskIds', i < j, tasks'[i].origin = tasks'[j].origin
      PROVE  tasks'[i].status = "FAILED"
  <2>1. i \in TaskIds
    BY <1>3, <1>4, <1>7
  <2>2. CASE j \in TaskIds
    BY <1>3, <1>5, <1>7, <2>1, <2>2
  <2>3. CASE j = Len(tasks) + 1
    <3>1. tasks[i].origin = tasks[id].origin
      BY <1>2, <1>3, <1>7, <2>1, <2>3
    <3>2. i <= id
      BY <1>5, <2>1, <3>1
    <3>3. i < id \/ i = id
      BY <1>4, <2>1, <3>2
    <3> QED BY <1>3, <1>5, <2>1, <3>1, <3>3
  <2> QED BY <1>3, <2>2, <2>3
<1>8. ASSUME NEW i \in TaskIds', tasks'[i].status = "FAILED"
      PROVE  \E j \in TaskIds' : i < j /\ tasks'[i].origin = tasks'[j].origin
  <2>1. i \in TaskIds /\ tasks[i].status = "FAILED"
    BY <1>3, <1>8
  <2>2. CASE i = id
    BY <1>2, <1>3, <2>2
  <2>3. CASE i # id
    BY <1>3, <1>5, <2>1, <2>3
  <2> QED BY <2>2, <2>3
<1>9. worker'.pc # "requeue"
  BY RequeueMoves
<1> QED BY <1>6, <1>7, <1>8, <1>9 DEF ChainsGrow

(* ... and a step on a task that has not failed leaves the chains alone.   *)
LEMMA ChainsStand ==
  ASSUME TypeOK, ChainsGrow, NEW id \in TaskIds, Alters(id),
         tasks[id].status # "FAILED", tasks'[id].status # "FAILED",
         worker'.pc = "requeue" => worker.pc = "requeue" /\ worker'.task = worker.task,
         worker.pc = "requeue" => worker'.pc = "requeue"
  PROVE  ChainsGrow'
<1>1. /\ TaskIds' = TaskIds /\ \A i \in TaskIds : tasks'[i].origin = tasks[i].origin
      /\ \A i \in TaskIds : tasks[i].status = "FAILED" <=> tasks'[i].status = "FAILED"
  BY DEF Alters
<1>2. worker.pc = "requeue" => worker.task \in TaskIds
  BY DEF TypeOK, ChainsGrow
<1> QED BY <1>1, <1>2 DEF ChainsGrow

LEMMA FailureGrows ==
  ASSUME TypeOK, ChainsGrow, NEW id \in TaskIds, Settles(id)
  PROVE  ChainsGrow'
<1>1. /\ TaskIds' = TaskIds /\ \A i \in TaskIds : tasks'[i].origin = tasks[i].origin
      /\ \A i \in TaskIds : i # id => tasks'[i].status = tasks[i].status
      /\ tasks[id].status = "RUNNING" /\ worker.pc = "complete"
      /\ \/ tasks'[id].status # "FAILED" /\ worker'.pc = "idle"
         \/ tasks'[id].status = "FAILED" /\ worker'.pc = "requeue" /\ worker'.task = id
  BY DEF Settles, Alters
<1>2. CASE worker'.pc = "idle"
  BY <1>1, <1>2, ChainsStand DEF Settles
<1>3. CASE worker'.pc = "requeue"
  <2>1. id \in Nat /\ TaskIds \subseteq Nat /\ id # 0
    BY DEF TypeOK, TaskIds
  <2>2. \A j \in TaskIds : tasks[j].origin = tasks[id].origin => j <= id
    BY <1>1, <2>1 DEF ChainsGrow
  <2>3. /\ worker'.task = id /\ tasks'[id].status = "FAILED"
    BY <1>1, <1>3
  <2>4. \A i \in TaskIds' : tasks'[i].origin \in TaskIds'
    BY <1>1 DEF ChainsGrow
  <2>5. \A i, j \in TaskIds' :
          i < j /\ tasks'[i].origin = tasks'[j].origin => tasks'[i].status = "FAILED"
    BY <1>1, <2>3 DEF ChainsGrow
  <2>6. \A i \in TaskIds' : tasks'[i].status = "FAILED" =>
          i = id \/ \E j \in TaskIds' : i < j /\ tasks'[i].origin = tasks'[j].origin
    BY <1>1 DEF ChainsGrow
  <2>7. \A j \in TaskIds' : tasks'[j].origin = tasks'[id].origin => j <= id
    BY <1>1, <2>2
  <2> QED BY <1>3, <2>1, <2>3, <2>4, <2>5, <2>6, <2>7 DEF ChainsGrow
<1> QED BY <1>1, <1>2, <1>3

LEMMA ChainsGrowStep ==
  ASSUME TypeOK, FilingsApart, ChainsGrow, [Next]_vars
  PROVE  ChainsGrow'
<1>1. ASSUME NEW t \in Recurring, ScheduleOnce(t) PROVE ChainsGrow'
  BY <1>1, ScheduleFiles, RootGrows DEF ScheduleOnce
<1>2. ASSUME NEW f \in Filed, FileTask(f) PROVE ChainsGrow'
  BY <1>2, ClientFiles, RootGrows DEF FileTask
<1>3. CASE Requeue
  BY <1>3, SuccessorGrows
<1>4. CASE InsertScheduled
  <2>1. PICK id \in TaskIds : id = scheduler /\ Insert(id) /\ tasks[id].status = "FILING"
    BY <1>4 DEF InsertScheduled, TypeOK, FilingsApart
  <2> QED BY <1>4, <2>1, InsertInserts, ChainsStand DEF Inserts, InsertScheduled
<1>5. ASSUME NEW id \in TaskIds, InsertFiled(id) PROVE ChainsGrow'
  BY <1>5, InsertInserts, ChainsStand DEF Inserts, InsertFiled
<1>6. CASE InsertSuccessor
  <2>1. PICK id \in TaskIds : id = worker.filing /\ Insert(id) /\ tasks[id].status = "FILING"
    BY <1>6 DEF InsertSuccessor, TypeOK, FilingsApart
  <2> QED BY <1>6, <2>1, InsertInserts, InsertMoves, ChainsStand DEF Inserts
<1>7. CASE ClaimNextAgentTask
  <2>1. PICK id \in TaskIds : Claims(id)
    BY <1>7, ClaimClaims
  <2> QED BY <2>1, ChainsStand DEF Claims, Queued
<1>8. CASE HandleCall
  BY <1>8, CallMoves DEF HandleCall, ChainsGrow, TaskIds
<1>9. CASE CompleteAgentTask
  BY <1>9, CompleteSettles, FailureGrows
<1>10. CASE Tick \/ UNCHANGED vars
  BY <1>10 DEF Tick, vars, ChainsGrow, TaskIds
<1> QED BY <1>1, <1>2, <1>3, <1>4, <1>5, <1>6, <1>7, <1>8, <1>9, <1>10 DEF Next, WorkerStep

LEMMA QueueHolds == Spec => [](TypeOK /\ FilingsApart /\ ChainsGrow)
<1>1. Init => TypeOK /\ FilingsApart /\ ChainsGrow
  BY DEF Init, TypeOK, FilingsApart, ChainsGrow, TaskIds, Worker, Outcomes
<1>2. TypeOK /\ FilingsApart /\ ChainsGrow /\ [Next]_vars => (TypeOK /\ FilingsApart /\ ChainsGrow)'
  BY Typing, FilingsApartStep, ChainsGrowStep
<1> QED BY <1>1, <1>2, PTL DEF Spec

(* Every variable keeps its type, and one task runs at most: the one in    *)
(* the worker's hand (memory.go:723-771).                                  *)
THEOREM TypeCorrect == Spec => []TypeOK
BY QueueHolds, PTL

(* A chain has a last task: it starts with its first one, and whatever is  *)
(* added to it is the last.                                                *)
ChainsEnd ==
  \A root \in TaskIds : tasks[root].origin = root =>
    \E last \in Chain(root) : \A i \in Chain(root) : i <= last

LEMMA FilesEnd ==
  ASSUME TypeOK, ChainsGrow, ChainsEnd, NEW task \in Task, Files(task)
  PROVE  ChainsEnd'
<1>1. /\ Len(tasks) + 1 \notin TaskIds /\ TaskIds' = TaskIds \cup {Len(tasks) + 1}
      /\ \A i \in TaskIds : i < Len(tasks) + 1 /\ tasks'[i] = tasks[i]
      /\ tasks'[Len(tasks) + 1] = task
  BY DEF Files, Enters
<1>2. PICK n \in Nat : n = Len(tasks) + 1
  BY DEF TypeOK
<1>3. ASSUME NEW root \in TaskIds', tasks'[root].origin = root
      PROVE  \E last \in TaskIds' : /\ tasks'[last].origin = root
                                    /\ \A i \in TaskIds' : tasks'[i].origin = root => i <= last
  <2>1. CASE task.origin = root
    <3>1. tasks'[n].origin = root /\ n \in TaskIds' /\ \A i \in TaskIds' : i <= n
      BY <1>1, <1>2, <2>1 DEF TypeOK, TaskIds
    <3> QED BY <3>1
  <2>2. CASE task.origin # root
    <3>1. root \in TaskIds /\ tasks[root].origin = root
      BY <1>1, <1>3, <2>2
    <3>2. PICK last \in TaskIds : /\ tasks[last].origin = root
                                  /\ \A i \in TaskIds : tasks[i].origin = root => i <= last
      BY <3>1 DEF ChainsEnd, Chain
    <3> QED BY <1>1, <2>2, <3>2
  <2> QED BY <2>1, <2>2
<1> QED BY <1>3 DEF ChainsEnd, Chain

LEMMA AltersEnd ==
  ASSUME ChainsEnd, NEW id \in TaskIds, Alters(id)
  PROVE  ChainsEnd'
<1>1. TaskIds' = TaskIds /\ \A i \in TaskIds : tasks'[i].origin = tasks[i].origin
  BY DEF Alters
<1> QED BY <1>1 DEF ChainsEnd, Chain

(* Every step files a task, alters one or leaves the table alone.          *)
LEMMA TableSteps ==
  ASSUME TypeOK, FilingsApart, ChainsGrow, [Next]_vars
  PROVE  \/ \E task \in Task : Files(task)
         \/ \E id \in TaskIds : Inserts(id) /\ tasks[id].status = "FILING"
         \/ \E id \in TaskIds : Claims(id)
         \/ \E id \in TaskIds : Settles(id)
         \/ UNCHANGED tasks
<1>1. CASE \E t \in Recurring : ScheduleOnce(t)
  BY <1>1, ScheduleFiles
<1>2. CASE \E f \in Filed : FileTask(f)
  BY <1>2, ClientFiles
<1>3. CASE Requeue
  BY <1>3, RequeueFiles DEF Requeue, ChainsGrow
<1>4. CASE InsertScheduled
  <2>1. PICK id \in TaskIds : id = scheduler /\ Insert(id) /\ tasks[id].status = "FILING"
    BY <1>4 DEF InsertScheduled, TypeOK, FilingsApart
  <2> QED BY <2>1, InsertInserts
<1>5. CASE \E id \in TaskIds : InsertFiled(id)
  BY <1>5, InsertInserts DEF InsertFiled
<1>6. CASE InsertSuccessor
  <2>1. PICK id \in TaskIds : id = worker.filing /\ Insert(id) /\ tasks[id].status = "FILING"
    BY <1>6 DEF InsertSuccessor, TypeOK, FilingsApart
  <2> QED BY <2>1, InsertInserts
<1>7. CASE ClaimNextAgentTask
  BY <1>7, ClaimClaims
<1>8. CASE CompleteAgentTask
  BY <1>8, CompleteSettles
<1>9. CASE HandleCall \/ Tick \/ UNCHANGED vars
  BY <1>9 DEF HandleCall, Tick, vars
<1> QED BY <1>1, <1>2, <1>3, <1>4, <1>5, <1>6, <1>7, <1>8, <1>9 DEF Next, WorkerStep

LEMMA ChainsEndHolds == Spec => []ChainsEnd
<1>1. Init => ChainsEnd
  BY DEF Init, ChainsEnd, TaskIds
<1>2. TypeOK /\ FilingsApart /\ ChainsGrow /\ ChainsEnd /\ [Next]_vars => ChainsEnd'
  <2> SUFFICES ASSUME TypeOK, FilingsApart, ChainsGrow, ChainsEnd, [Next]_vars
               PROVE  ChainsEnd'
    OBVIOUS
  <2>1. CASE \E task \in Task : Files(task)
    BY <2>1, FilesEnd
  <2>2. CASE \E id \in TaskIds : Inserts(id) \/ Claims(id) \/ Settles(id)
    BY <2>2, AltersEnd DEF Inserts, Claims, Settles
  <2>3. CASE UNCHANGED tasks
    BY <2>3 DEF ChainsEnd, Chain, TaskIds
  <2> QED BY <2>1, <2>2, <2>3, TableSteps
<1> QED BY <1>1, <1>2, QueueHolds, PTL DEF Spec

(* A failure is never dropped: its chain goes on with a retry or a dead    *)
(* letter, once only, or the worker is about to see to it                  *)
(* (service.go:145-169).                                                   *)
THEOREM FailuresAreKept == Spec => []NoFailureIsDropped
<1>1. TypeOK /\ ChainsGrow /\ ChainsEnd => NoFailureIsDropped
  <2> SUFFICES ASSUME TypeOK, ChainsGrow, ChainsEnd, NEW root \in TaskIds, tasks[root].origin = root,
                      NEW last,
                      last = CHOOSE id \in Chain(root) : \A i \in Chain(root) : i <= id
               PROVE  /\ Chain(root) \cap Open \subseteq {last}
                      /\ tasks[last].status = "FAILED" => worker.pc = "requeue" /\ worker.task = last
                      /\ \A id \in Chain(root) \ {last} : tasks[id].status = "FAILED"
    BY DEF NoFailureIsDropped
  <2>1. last \in Chain(root) /\ \A i \in Chain(root) : i <= last
    BY DEF ChainsEnd
  <2>2. last \in TaskIds /\ tasks[last].origin = root /\ TaskIds \subseteq Nat
    BY <2>1 DEF Chain, TaskIds, TypeOK
  <2>3. ASSUME NEW id \in Chain(root) \ {last}
        PROVE  id \in TaskIds /\ tasks[id].origin = root /\ id < last
    <3>1. id \in TaskIds /\ tasks[id].origin = root
      BY DEF Chain
    <3>2. id \in Nat /\ last \in Nat /\ id <= last /\ id # last
      BY <2>1, <2>2, <3>1
    <3> QED BY <3>1, <3>2
  <2>4. \A id \in Chain(root) \ {last} : tasks[id].status = "FAILED"
    BY <2>2, <2>3 DEF ChainsGrow
  <2>5. Chain(root) \cap Open \subseteq {last}
    BY <2>4 DEF Open
  <2>6. ASSUME tasks[last].status = "FAILED" PROVE worker.pc = "requeue" /\ worker.task = last
    <3>1. ~\E j \in TaskIds : last < j /\ tasks[last].origin = tasks[j].origin
      BY <2>1, <2>2 DEF Chain
    <3> QED BY <2>2, <2>6, <3>1 DEF ChainsGrow
  <2> QED BY <2>4, <2>5, <2>6
<1> QED BY <1>1, QueueHolds, ChainsEndHolds, PTL

-----------------------------------------------------------------------------
(* The scheduler's filings.                                                *)

(* A filing of the scheduler's own. *)
Own(id) == tasks[id].by = "scheduler" /\ tasks[id].origin = id

(* A step that files none leaves those there are. *)
LEMMA OwnStay ==
  ASSUME TypeOK, FilingsApart, ChainsGrow, [Next]_vars,
         ~\E t \in Recurring : ScheduleOnce(t)
  PROVE  /\ lastScheduled' = lastScheduled
         /\ now' >= now
         /\ \A id \in TaskIds' : Own(id)' =>
              id \in TaskIds /\ Own(id) /\ tasks'[id].tool = tasks[id].tool
                             /\ tasks'[id].createdAt = tasks[id].createdAt
<1>1. lastScheduled' = lastScheduled
  BY DEF Next, WorkerStep, InsertScheduled, FileTask, InsertFiled, ClaimNextAgentTask,
         HandleCall, CompleteAgentTask, Requeue, InsertSuccessor, Tick, vars
<1>2. now' >= now
  <2>1. now \in Nat /\ (now' = now \/ now' = now + 1)
    BY DEF TypeOK, Next, WorkerStep, InsertScheduled, FileTask, InsertFiled, ClaimNextAgentTask,
           HandleCall, CompleteAgentTask, Requeue, InsertSuccessor, Tick, vars
  <2> QED BY <2>1
<1> DEFINE Goal == \A id \in TaskIds' : Own(id)' =>
                     id \in TaskIds /\ Own(id) /\ tasks'[id].tool = tasks[id].tool
                                    /\ tasks'[id].createdAt = tasks[id].createdAt
<1>3. ASSUME NEW task \in Task, Files(task),
             ~(task.by = "scheduler" /\ task.origin = Len(tasks) + 1)
      PROVE  Goal
  BY <1>3 DEF Files, Enters, Own
<1>4. ASSUME NEW f \in Filed, FileTask(f) PROVE Goal
  BY <1>3, <1>4, ClientFiles
<1>5. ASSUME Requeue PROVE Goal
  <2>1. worker.task # 0 /\ worker.task \in TaskIds
    BY <1>5 DEF Requeue, ChainsGrow, TypeOK
  <2>2. PICK task \in Task : Files(task) /\ task.origin = tasks[worker.task].origin
    BY <1>5, <2>1, RequeueFiles
  <2>3. task.origin \in TaskIds /\ Len(tasks) + 1 \notin TaskIds
    BY <2>1, <2>2 DEF ChainsGrow, Files, Enters
  <2> QED BY <1>3, <2>2, <2>3
<1>6. ASSUME NEW id \in TaskIds, Alters(id) PROVE Goal
  BY <1>6 DEF Alters, Own
<1>7. ASSUME UNCHANGED tasks PROVE Goal
  BY <1>7 DEF Own, TaskIds
<1>8. ASSUME InsertScheduled \/ InsertSuccessor \/ (\E id \in TaskIds : InsertFiled(id))
             \/ ClaimNextAgentTask \/ CompleteAgentTask \/ HandleCall \/ Tick \/ UNCHANGED vars
      PROVE  Goal
  <2>1. CASE HandleCall \/ Tick \/ UNCHANGED vars
    BY <1>7, <2>1 DEF HandleCall, Tick, vars
  <2>2. CASE InsertScheduled
    BY <1>6, <2>2, InsertInserts DEF Inserts, InsertScheduled, TypeOK
  <2>3. CASE InsertSuccessor
    BY <1>6, <2>3, InsertInserts DEF Inserts, InsertSuccessor, FilingsApart, TypeOK
  <2>4. CASE \E id \in TaskIds : InsertFiled(id)
    BY <1>6, <2>4, InsertInserts DEF Inserts, InsertFiled
  <2>5. CASE ClaimNextAgentTask
    BY <1>6, <2>5, ClaimClaims DEF Claims
  <2>6. CASE CompleteAgentTask
    BY <1>6, <2>6, CompleteSettles DEF Settles
  <2> QED BY <1>8, <2>1, <2>2, <2>3, <2>4, <2>5, <2>6
<1>9. Goal
  BY <1>4, <1>5, <1>8 DEF Next, WorkerStep
<1> QED BY <1>1, <1>2, <1>9

LEMMA ScheduleRemembered ==
  ASSUME TypeOK, ChainsGrow, FilingsRemembered, FilingsAreSpaced,
         NEW t \in Recurring, ScheduleOnce(t)
  PROVE  FilingsRemembered' /\ FilingsAreSpaced'
<1>1. PICK task \in Task : /\ Files(task) /\ task.tool = t
                           /\ task.by = "scheduler" /\ task.origin = Len(tasks) + 1
  BY ScheduleFiles
<1>2. /\ Len(tasks) + 1 \notin TaskIds /\ TaskIds' = TaskIds \cup {Len(tasks) + 1}
      /\ \A i \in TaskIds : i < Len(tasks) + 1 /\ tasks'[i] = tasks[i]
      /\ tasks'[Len(tasks) + 1] = task /\ task.createdAt = now
  BY <1>1 DEF Files, Enters
<1>3. /\ now \in Nat /\ lastScheduled \in [Recurring -> Nat] /\ TaskIds \subseteq Nat
      /\ Len(tasks) + 1 \in Nat
  BY DEF TypeOK, TaskIds
<1>4. /\ lastScheduled' = [lastScheduled EXCEPT ![t] = now] /\ now' = now
      /\ lastScheduled[t] = 0 \/ now - lastScheduled[t] >= Interval[t]
  BY DEF ScheduleOnce, Due
<1>5. FilingsRemembered'
  <2>1. now' >= 1 /\ \A s \in Recurring : lastScheduled'[s] <= now'
    BY <1>3, <1>4 DEF FilingsRemembered
  <2>2. ASSUME NEW id \in TaskIds', tasks'[id].by = "scheduler", tasks'[id].origin = id
        PROVE  /\ tasks'[id].tool \in Recurring
               /\ tasks'[id].createdAt \in 1 .. lastScheduled'[tasks'[id].tool]
    <3>1. CASE id = Len(tasks) + 1
      BY <1>1, <1>2, <1>3, <1>4, <3>1 DEF FilingsRemembered
    <3>2. CASE id \in TaskIds
      <4>1. PICK s \in Recurring : s = tasks[id].tool
        BY <1>2, <2>2, <3>2 DEF FilingsRemembered
      <4>2. tasks[id].createdAt \in 1 .. lastScheduled[s] /\ lastScheduled[s] <= now
        BY <1>2, <2>2, <3>2, <4>1 DEF FilingsRemembered
      <4>3. lastScheduled'[s] = IF s = t THEN now ELSE lastScheduled[s]
        BY <1>3, <1>4
      <4>4. tasks[id].createdAt \in 1 .. lastScheduled'[s]
        BY <1>3, <4>2, <4>3
      <4> QED BY <1>2, <3>2, <4>1, <4>4
    <3> QED BY <1>2, <3>1, <3>2
  <2> QED BY <2>1, <2>2 DEF FilingsRemembered
<1>6. ASSUME NEW i \in TaskIds', NEW j \in TaskIds', i < j, tasks'[i].tool = tasks'[j].tool,
             tasks'[i].by = "scheduler", tasks'[j].by = "scheduler",
             tasks'[i].origin = i, tasks'[j].origin = j
      PROVE  tasks'[j].createdAt - tasks'[i].createdAt >= Interval[tasks'[i].tool]
  <2>1. i \in TaskIds
    BY <1>2, <1>3, <1>6
  <2>2. CASE j \in TaskIds
    BY <1>2, <1>6, <2>1, <2>2 DEF FilingsAreSpaced
  <2>3. CASE j = Len(tasks) + 1
    <3>1. tasks[i].tool = t /\ tasks[i].createdAt \in 1 .. lastScheduled[t]
      BY <1>1, <1>2, <1>6, <2>1, <2>3 DEF FilingsRemembered
    <3>2. now - lastScheduled[t] >= Interval[t]
      BY <1>3, <1>4, <3>1
    <3>3. Interval[t] \in Nat
      BY QueueAssumption
    <3>4. now - tasks[i].createdAt >= Interval[t]
      BY <1>3, <3>1, <3>2, <3>3
    <3> QED BY <1>2, <2>1, <2>3, <3>1, <3>4
  <2> QED BY <1>2, <2>2, <2>3
<1>7. FilingsAreSpaced'
  BY <1>6 DEF FilingsAreSpaced
<1> QED BY <1>5, <1>7

(* The scheduler's filings of one tool are an interval apart, whatever     *)
(* retries and clients' tasks come between (service.go:37-78).             *)
THEOREM FilingsSpaced == Spec => []FilingsAreSpaced
<1>1. Init => FilingsRemembered /\ FilingsAreSpaced
  BY DEF Init, FilingsRemembered, FilingsAreSpaced, TaskIds
<1>2. TypeOK /\ FilingsApart /\ ChainsGrow /\ FilingsRemembered /\ FilingsAreSpaced /\ [Next]_vars
        => (FilingsRemembered /\ FilingsAreSpaced)'
  <2> SUFFICES ASSUME TypeOK, FilingsApart, ChainsGrow, FilingsRemembered, FilingsAreSpaced, [Next]_vars
               PROVE  FilingsRemembered' /\ FilingsAreSpaced'
    OBVIOUS
  <2>1. CASE \E t \in Recurring : ScheduleOnce(t)
    BY <2>1, ScheduleRemembered
  <2>2. CASE ~\E t \in Recurring : ScheduleOnce(t)
    <3>1. /\ lastScheduled' = lastScheduled
          /\ now' >= now
          /\ \A id \in TaskIds' : Own(id)' =>
               id \in TaskIds /\ Own(id) /\ tasks'[id].tool = tasks[id].tool
                              /\ tasks'[id].createdAt = tasks[id].createdAt
      BY <2>2, OwnStay
    <3>2. now \in Nat /\ now' \in Nat /\ lastScheduled \in [Recurring -> Nat]
      BY Typing DEF TypeOK
    <3>3. FilingsRemembered'
      BY <3>1, <3>2 DEF FilingsRemembered, Own
    <3>4. FilingsAreSpaced'
      BY <3>1 DEF FilingsAreSpaced, Own
    <3> QED BY <3>3, <3>4
  <2> QED BY <2>1, <2>2
<1> QED BY <1>1, <1>2, QueueHolds, PTL DEF Spec

-----------------------------------------------------------------------------
(* The order of claims.                                                    *)

(* A step that claims nothing leaves the claims as they are, ... *)
LEMMA ClaimsStand ==
  ASSUME TypeOK, ClaimsCount, NEW id \in TaskIds, Alters(id),
         tasks'[id].attempts = tasks[id].attempts, tasks'[id].claim = tasks[id].claim,
         \/ tasks[id].status = "FILING" /\ tasks'[id].status = "QUEUED"
         \/ tasks[id].status = "RUNNING" /\ tasks'[id].status \in {"COMPLETED", "FAILED"}
  PROVE  ClaimsCount' /\ Claimed' = Claimed
<1>1. Claimed' = Claimed
  BY DEF Alters, Claimed
<1>2. \A i \in TaskIds : /\ tasks'[i].attempts = tasks[i].attempts
                         /\ tasks'[i].claim = tasks[i].claim
                         /\ tasks'[i].status \in {"FILING", "QUEUED"} <=> tasks[i].status \in {"FILING", "QUEUED"}
  BY DEF Alters
<1>3. TaskIds' = TaskIds /\ Cardinality(Claimed') = Cardinality(Claimed)
  BY <1>1 DEF Alters
<1> QED BY <1>1, <1>2, <1>3 DEF ClaimsCount

LEMMA FilesUnclaimed ==
  ASSUME TypeOK, ClaimsCount, NEW task \in Task, Files(task)
  PROVE  ClaimsCount' /\ Claimed' = Claimed
<1>1. /\ Len(tasks) + 1 \notin TaskIds /\ TaskIds' = TaskIds \cup {Len(tasks) + 1}
      /\ \A i \in TaskIds : tasks'[i] = tasks[i]
      /\ tasks'[Len(tasks) + 1] = task
      /\ task.status = "FILING" /\ task.attempts = 0 /\ task.claim = 0
  BY DEF Files, Enters
<1>2. Claimed' = Claimed
  BY <1>1 DEF Claimed
<1>3. Cardinality(Claimed') = Cardinality(Claimed) /\ Cardinality(Claimed) \in Nat
  BY <1>2, ClaimedIsFinite
<1> QED BY <1>1, <1>2, <1>3 DEF ClaimsCount

(* ... and a claim is one more.                                            *)
LEMMA ClaimCounts ==
  ASSUME TypeOK, ClaimsCount, NEW id \in TaskIds, Claims(id)
  PROVE  ClaimsCount'
<1>1. PICK n \in Nat : n = Cardinality(Claimed) /\ IsFiniteSet(Claimed)
  BY ClaimedIsFinite
<1>2. id \notin Claimed
  <2>1. tasks[id].attempts = 0
    BY DEF Claims, Queued, ClaimsCount
  <2> QED BY <2>1 DEF Claimed
<1>3. Claimed' = Claimed \cup {id}
  <2>1. tasks'[id].attempts > 0
    <3>1. tasks' \in Seq(Task) /\ id \in 1 .. Len(tasks')
      BY DEF Claims, Alters, TaskIds
    <3>2. tasks'[id] \in Task
      BY <3>1
    <3>3. tasks'[id].attempts \in Nat /\ tasks'[id].attempts # 0
      BY <3>2 DEF Task, Claims
    <3> QED BY <3>3
  <2> QED BY <2>1 DEF Claims, Alters, Claimed
<1>4. Cardinality(Claimed') = n + 1
  BY <1>1, <1>2, <1>3, FS_AddElement
<1>5. /\ TaskIds' = TaskIds /\ \A i \in TaskIds : i # id => tasks'[i] = tasks[i]
      /\ tasks'[id].status = "RUNNING" /\ tasks'[id].attempts # 0 /\ tasks'[id].claim = n + 1
  BY <1>1 DEF Claims, Alters
<1>6. \A i \in TaskIds : tasks[i].claim \in Nat /\ tasks[i].claim <= n
  <2>1. \A i \in TaskIds : tasks[i] \in Task
    BY TaskTyped
  <2> QED BY <1>1, <2>1 DEF ClaimsCount, Task
<1>7. ASSUME NEW i \in TaskIds
      PROVE  /\ tasks'[i].attempts = 0 <=> tasks'[i].status \in {"FILING", "QUEUED"}
             /\ tasks'[i].attempts = 0 <=> tasks'[i].claim = 0
             /\ tasks'[i].claim <= n + 1
  <2>1. CASE i = id
    BY <1>5, <2>1
  <2>2. CASE i # id
    BY <1>5, <1>6, <2>2 DEF ClaimsCount
  <2> QED BY <2>1, <2>2
<1> QED BY <1>4, <1>5, <1>7 DEF ClaimsCount

(* Of two tasks one goes before the other.                                 *)
LEMMA BeforeIsStrict ==
  ASSUME TypeOK, NEW i \in TaskIds, NEW j \in TaskIds, Before(i, j), Before(j, i)
  PROVE  i = j
<1>1. i \in Nat /\ j \in Nat
  BY DEF TypeOK, TaskIds
<1>2. tasks[i] \in Task /\ tasks[j] \in Task
  BY TaskTyped
<1>3. tasks[i].priority \in Nat /\ tasks[j].priority \in Nat
  BY <1>2 DEF Task
<1> QED BY <1>1, <1>3 DEF Before

Overtakes(j, i) ==
  /\ i # j /\ Before(i, j)
  /\ tasks[i].status # "FILING" /\ tasks[j].claim # 0
  /\ tasks[i].claim = 0 \/ tasks[j].claim < tasks[i].claim

LEMMA NoOvertakingStep ==
  ASSUME TypeOK, FilingsApart, ChainsGrow, ClaimsCount, NoOvertaking, [Next]_vars
  PROVE  ClaimsCount' /\ NoOvertaking'
<1>1. \A i, j \in TaskIds : Overtakes(j, i) => tasks[j].claim <= tasks[i].filedAfter
  BY DEF NoOvertaking, Overtakes
<1>2. \A i \in TaskIds : tasks[i].priority \in Nat /\ tasks[i].claim \in Nat
  <2>1. \A i \in TaskIds : tasks[i] \in Task
    BY TaskTyped
  <2> QED BY <2>1 DEF Task
<1>3. ASSUME NEW task \in Task, Files(task) PROVE ClaimsCount' /\ NoOvertaking'
  <2>1. /\ Len(tasks) + 1 \notin TaskIds /\ TaskIds' = TaskIds \cup {Len(tasks) + 1}
        /\ \A i \in TaskIds : tasks'[i] = tasks[i]
        /\ tasks'[Len(tasks) + 1].status = "FILING" /\ tasks'[Len(tasks) + 1].claim = 0
    BY <1>3 DEF Files, Enters
  <2>2. \A i, j \in TaskIds' : Overtakes(j, i)' => i \in TaskIds /\ j \in TaskIds /\ Overtakes(j, i)
    BY <2>1 DEF Overtakes, Before
  <2>3. NoOvertaking'
    BY <1>1, <2>1, <2>2 DEF NoOvertaking, Overtakes
  <2> QED BY <1>3, <2>3, FilesUnclaimed
<1>4. ASSUME NEW id \in TaskIds, Inserts(id), tasks[id].status = "FILING"
      PROVE  ClaimsCount' /\ NoOvertaking'
  <2>1. tasks[id].claim = 0
    BY <1>4 DEF ClaimsCount
  <2>2. ASSUME NEW i \in TaskIds, NEW j \in TaskIds, Overtakes(j, i)'
        PROVE  tasks'[j].claim <= tasks'[i].filedAfter
    <3>1. j # id /\ tasks'[j].claim = tasks[j].claim
      BY <1>4, <2>1, <2>2 DEF Inserts, Alters, Overtakes
    <3>2. CASE i = id
      BY <1>4, <3>1, <3>2 DEF Inserts, ClaimsCount
    <3>3. CASE i # id
      BY <1>1, <1>4, <2>2, <3>1, <3>3 DEF Inserts, Alters, Overtakes, Before
    <3> QED BY <3>2, <3>3
  <2>3. NoOvertaking'
    BY <1>4, <2>2 DEF Inserts, Alters, NoOvertaking, Overtakes
  <2>4. ClaimsCount'
    BY <1>4, ClaimsStand DEF Inserts
  <2> QED BY <2>3, <2>4
<1>5. ASSUME NEW id \in TaskIds, Claims(id) PROVE ClaimsCount' /\ NoOvertaking'
  <2>1. PICK n \in Nat : n = Cardinality(Claimed)
    BY ClaimedIsFinite
  <2>2. /\ TaskIds' = TaskIds /\ \A i \in TaskIds : i # id => tasks'[i] = tasks[i]
        /\ tasks'[id].priority = tasks[id].priority /\ tasks'[id].claim = n + 1
        /\ tasks'[id].filedAfter = tasks[id].filedAfter
        /\ tasks[id].status = "QUEUED" /\ id \in Queued /\ Best(id)
    BY <1>5, <2>1 DEF Claims, Alters, Queued
  <2>3. \A i \in TaskIds : tasks[i].claim <= n
    BY <2>1 DEF ClaimsCount
  <2>4. ASSUME NEW i \in TaskIds, NEW j \in TaskIds, Overtakes(j, i)'
        PROVE  tasks'[j].claim <= tasks'[i].filedAfter
    <3>1. i # j /\ Before(i, j)
      BY <2>2, <2>4 DEF Overtakes, Before
    <3>2. CASE j = id
      <4>1. i # id /\ tasks'[i] = tasks[i]
        BY <2>2, <3>1, <3>2
      <4>2. tasks[i].claim = 0
        BY <1>2, <2>1, <2>2, <2>3, <2>4, <3>2, <4>1 DEF Overtakes
      <4>3. tasks[i].status = "QUEUED"
        BY <2>4, <4>1, <4>2 DEF Overtakes, ClaimsCount
      <4>4. Before(id, i)
        BY <2>2, <4>3 DEF Best, Queued
      <4> QED BY <3>1, <3>2, <4>4, BeforeIsStrict
    <3>3. CASE i = id
      <4>1. j # id /\ tasks'[j] = tasks[j]
        BY <2>2, <3>1, <3>3
      <4>2. tasks[id].claim = 0
        BY <2>2 DEF ClaimsCount
      <4>3. Overtakes(j, i)
        BY <2>2, <2>4, <3>1, <3>3, <4>1, <4>2 DEF Overtakes
      <4> QED BY <1>1, <2>2, <3>3, <4>1, <4>3
    <3>4. CASE i # id /\ j # id
      <4>1. Overtakes(j, i)
        BY <2>2, <2>4, <3>1, <3>4 DEF Overtakes
      <4> QED BY <1>1, <2>2, <3>4, <4>1
    <3> QED BY <3>2, <3>3, <3>4
  <2>5. NoOvertaking'
    BY <2>2, <2>4 DEF NoOvertaking, Overtakes
  <2> QED BY <1>5, <2>5, ClaimCounts
<1>6. ASSUME NEW id \in TaskIds, Settles(id) PROVE ClaimsCount' /\ NoOvertaking'
  <2>1. \A i, j \in TaskIds : Overtakes(j, i)' => Overtakes(j, i)
    BY <1>6 DEF Settles, Alters, Overtakes, Before
  <2>2. \A i \in TaskIds : tasks'[i].claim = tasks[i].claim /\ tasks'[i].filedAfter = tasks[i].filedAfter
    BY <1>6 DEF Settles, Alters
  <2>3. NoOvertaking'
    BY <1>1, <1>6, <2>1, <2>2 DEF Settles, Alters, NoOvertaking, Overtakes
  <2>4. ClaimsCount'
    BY <1>6, ClaimsStand DEF Settles
  <2> QED BY <2>3, <2>4
<1>7. ASSUME UNCHANGED tasks PROVE ClaimsCount' /\ NoOvertaking'
  <2>1. TaskIds' = TaskIds /\ Claimed' = Claimed
    BY <1>7 DEF TaskIds, Claimed
  <2> QED BY <1>7, <2>1 DEF ClaimsCount, NoOvertaking, Before
<1> QED BY <1>3, <1>4, <1>5, <1>6, <1>7, TableSteps

(* Nobody is overtaken: a task that goes before another one is claimed     *)
(* before it, unless it came into the table after the other one's claim    *)
(* (memory.go:681-747).                                                    *)
THEOREM NobodyIsOvertaken == Spec => []NoOvertaking
<1>1. Init => ClaimsCount /\ NoOvertaking
  BY DEF Init, ClaimsCount, NoOvertaking, TaskIds
<1>2. TypeOK /\ FilingsApart /\ ChainsGrow /\ ClaimsCount /\ NoOvertaking /\ [Next]_vars
        => (ClaimsCount /\ NoOvertaking)'
  BY NoOvertakingStep
<1> QED BY <1>1, <1>2, QueueHolds, PTL DEF Spec

-----------------------------------------------------------------------------
(* SpecReconcile: the specs the autonomy worker reconciles.                *)

SpecInv == RTypeOK /\ TasksAreOfSpecs /\ WorkerReadsAhead

LEMMA DriftTyped ==
  ASSUME NEW desired, NEW observed
  PROVE  Drift(desired, observed) \in Drifts
BY DEF Drift, Drifts

(* An apply writes what is desired and counts; a task is due for it.       *)
LEMMA SpecIsApplied ==
  ASSUME RTypeOK, NEW a \in Appliers, NEW k \in Keys, NEW v \in Values,
         ApplySpec(a, k, v)
  PROVE  /\ specs' \in [Keys -> ResourceSpec]
         /\ specs'[k].desired = v /\ specs'[k].version = specs[k].version + 1
         /\ \A j \in Keys : j # k => specs'[j] = specs[j]
         /\ Stored' = Stored \cup {k}
         /\ filing' \in [Appliers -> Keys \cup {NoKey}] /\ filing'[a] = k
         /\ \A j \in Keys : TaskDue(j)' <=> j = k \/ TaskDue(j)
<1>1. specs \in [Keys -> ResourceSpec] /\ specs[k] \in ResourceSpec
  BY DEF RTypeOK
<1>2. PICK n \in Nat : n = specs[k].version + 1 /\ n > 0
  <2>1. \A old \in ResourceSpec : old.version \in Nat
    BY DEF ResourceSpec
  <2>2. specs[k].version \in Nat
    BY <1>1, <2>1
  <2>3. PICK m \in Nat : m = specs[k].version
    BY <2>2
  <2>4. m + 1 \in Nat /\ m + 1 > 0
    OBVIOUS
  <2> QED BY <2>3, <2>4
<1> DEFINE r == [specs[k] EXCEPT !.desired = v, !.version = n, !.drift = "PENDING"]
<1>3. r \in ResourceSpec /\ r.desired = v /\ r.version = n
  BY <1>1 DEF ResourceSpec, Drifts
<1>4. specs' = [specs EXCEPT ![k] = r]
  BY <1>2 DEF ApplySpec, UpsertSpec
<1> HIDE DEF r
<1>5. /\ specs' \in [Keys -> ResourceSpec] /\ specs'[k] = r
      /\ \A j \in Keys : j # k => specs'[j] = specs[j]
  BY <1>1, <1>3, <1>4
<1>6. r.version > 0
  BY <1>2, <1>3
<1>7. Stored' = Stored \cup {k}
  BY <1>3, <1>5, <1>6 DEF Stored
<1>8. filing \in [Appliers -> Keys \cup {NoKey}] /\ filing[a] = NoKey
      /\ filing' = [filing EXCEPT ![a] = k] /\ queued' = queued
  BY DEF ApplySpec, RTypeOK
<1>9. \A j \in Keys : TaskDue(j)' <=> j = k \/ TaskDue(j)
  BY <1>8, SpecAssumption DEF TaskDue
<1> QED BY <1>2, <1>3, <1>5, <1>7, <1>8, <1>9

(* Filing the task leaves it due; taking it ends that.                     *)
LEMMA TaskIsFiled ==
  ASSUME RTypeOK, NEW a \in Appliers, FileSpecTask(a)
  PROVE  /\ queued' \in [Keys -> Nat] /\ filing' \in [Appliers -> Keys \cup {NoKey}]
         /\ \A j \in Keys : TaskDue(j)' <=> TaskDue(j)
<1>1. PICK k \in Keys : k = filing[a]
  BY DEF RTypeOK, FileSpecTask
<1>2. /\ queued \in [Keys -> Nat] /\ filing \in [Appliers -> Keys \cup {NoKey}]
      /\ queued' = [queued EXCEPT ![k] = @ + 1] /\ filing' = [filing EXCEPT ![a] = NoKey]
  BY <1>1 DEF RTypeOK, FileSpecTask
<1>3. queued'[k] > 0
  BY <1>2
<1> QED BY <1>1, <1>2, <1>3, SpecAssumption DEF TaskDue

LEMMA TaskIsTaken ==
  ASSUME RTypeOK, NEW k \in Keys, StartTask(k)
  PROVE  /\ queued' \in [Keys -> Nat]
         /\ TaskDue(k)
         /\ \A j \in Keys : TaskDue(j)' => TaskDue(j)
         /\ \A j \in Keys : j # k => (TaskDue(j)' <=> TaskDue(j))
<1>1. /\ queued \in [Keys -> Nat] /\ queued[k] > 0 /\ queued' = [queued EXCEPT ![k] = @ - 1]
      /\ filing' = filing
  BY DEF RTypeOK, StartTask
<1> QED BY <1>1 DEF TaskDue

(* Reading a spec, observing, and storing the assessment.                  *)
LEMMA SpecIsRead ==
  ASSUME RTypeOK, Empty \in Values, NEW g \in Assessors, NEW k \in Keys,
         GetSpec(g, k)
  PROVE  /\ assess' \in [Assessors -> Assessment]
         /\ assess'[g].pc = "observe" /\ assess'[g].key = k
         /\ assess'[g].desired = specs[k].desired
         /\ \A h \in Assessors : h # g => assess'[h] = assess[h]
<1>1. specs[k].desired \in Values
  BY DEF RTypeOK, ResourceSpec
<1> DEFINE r == [pc |-> "observe", key |-> k, desired |-> specs[k].desired, observed |-> Empty]
<1>2. r \in Assessment
  BY <1>1 DEF Assessment
<1>3. assess' = [assess EXCEPT ![g] = r] /\ assess \in [Assessors -> Assessment]
  BY DEF GetSpec, RTypeOK
<1> QED BY <1>2, <1>3

LEMMA SpecIsObserved ==
  ASSUME RTypeOK, NEW g \in Assessors, Observe(g)
  PROVE  /\ assess' \in [Assessors -> Assessment]
         /\ assess'[g].pc = "store" /\ assess[g].pc = "observe"
         /\ assess'[g].key = assess[g].key /\ assess'[g].desired = assess[g].desired
         /\ \A h \in Assessors : h # g => assess'[h] = assess[h]
<1>1. /\ assess \in [Assessors -> Assessment] /\ assess[g] \in Assessment
      /\ assess[g].pc = "observe" /\ assess[g].key \in Keys
  BY DEF RTypeOK, Observe
<1>2. PICK w \in Values : w = world[assess[g].key]
  BY <1>1 DEF RTypeOK
<1> DEFINE r == [assess[g] EXCEPT !.pc = "store", !.observed = w]
<1>3. /\ r \in Assessment /\ r.pc = "store"
      /\ r.key = assess[g].key /\ r.desired = assess[g].desired
  BY <1>1 DEF Assessment
<1>4. assess' = [assess EXCEPT ![g] = r]
  BY <1>2 DEF Observe
<1> HIDE DEF r
<1> QED BY <1>1, <1>3, <1>4

LEMMA AssessmentIsStored ==
  ASSUME RTypeOK, NEW g \in Assessors, NEW job \in {"", "task"},
         StoreAssessment(g, job)
  PROVE  \E k \in Keys :
           /\ k = assess[g].key /\ assess[g].pc = "store"
           /\ assess' \in [Assessors -> Assessment] /\ assess'[g].pc = "idle"
           /\ \A h \in Assessors : h # g => assess'[h] = assess[h]
           /\ specs' \in [Keys -> ResourceSpec]
           /\ specs'[k].desired = specs[k].desired /\ specs'[k].version = specs[k].version
           /\ specs'[k].observed = assess[g].observed /\ specs'[k].job = job
           /\ specs'[k].drift = Drift(assess[g].desired, assess[g].observed)
           /\ \A j \in Keys : j # k => specs'[j] = specs[j]
           /\ Stored' = Stored
<1>1. /\ assess \in [Assessors -> Assessment] /\ assess[g] \in Assessment
      /\ assess[g].pc = "store" /\ assess[g].key \in Keys
      /\ assess' = [assess EXCEPT ![g] = [@ EXCEPT !.pc = "idle"]]
      /\ SetSpecObserved(assess[g].key, assess[g].desired, assess[g].observed, job)
  BY DEF RTypeOK, StoreAssessment
<1>2. PICK k \in Keys : k = assess[g].key
  BY <1>1
<1>3. PICK d \in Drifts : d = Drift(assess[g].desired, assess[g].observed)
  BY DriftTyped
<1>4. PICK o \in Values : o = assess[g].observed
  BY <1>1 DEF Assessment
<1>5. specs \in [Keys -> ResourceSpec] /\ specs[k] \in ResourceSpec
  BY DEF RTypeOK
<1> DEFINE r == [specs[k] EXCEPT !.observed = o, !.drift = d, !.job = job]
<1>6. /\ r \in ResourceSpec /\ r.desired = specs[k].desired /\ r.version = specs[k].version
      /\ r.observed = o /\ r.drift = d /\ r.job = job
  BY <1>5 DEF ResourceSpec
<1>7. specs' = [specs EXCEPT ![k] = r]
  BY <1>1, <1>2, <1>3, <1>4 DEF SetSpecObserved
<1> HIDE DEF r
<1>8. /\ specs' \in [Keys -> ResourceSpec] /\ specs'[k] = r
      /\ \A j \in Keys : j # k => specs'[j] = specs[j]
  BY <1>5, <1>6, <1>7
<1>9. Stored' = Stored
  BY <1>6, <1>8 DEF Stored
<1> DEFINE b == [assess[g] EXCEPT !.pc = "idle"]
<1>10. b \in Assessment /\ b.pc = "idle"
  BY <1>1 DEF Assessment
<1>11. assess' = [assess EXCEPT ![g] = b]
  BY <1>1
<1> HIDE DEF b
<1>12. /\ assess' \in [Assessors -> Assessment] /\ assess'[g].pc = "idle"
       /\ \A h \in Assessors : h # g => assess'[h] = assess[h]
  BY <1>1, <1>10, <1>11
<1> QED BY <1>1, <1>2, <1>3, <1>4, <1>6, <1>8, <1>9, <1>12

(* One step of the specs, by what it does: everything but its own part     *)
(* stays.                                                                  *)
LEMMA ApplyKeeps ==
  ASSUME SpecInv, NEW a \in Appliers, NEW k \in Keys, NEW v \in Values,
         ApplySpec(a, k, v)
  PROVE  SpecInv'
<1> USE DEF SpecInv
<1>1. UNCHANGED <<world, queued, assess, rest, changes>>
  BY DEF ApplySpec
<1>2. /\ specs' \in [Keys -> ResourceSpec]
      /\ \A j \in Keys : j # k => specs'[j] = specs[j]
      /\ Stored' = Stored \cup {k}
      /\ filing' \in [Appliers -> Keys \cup {NoKey}]
      /\ \A j \in Keys : TaskDue(j)' <=> j = k \/ TaskDue(j)
  BY SpecIsApplied
<1>3. applied' \in [Keys -> Values] /\ applies' \in [Keys -> Nat]
  BY DEF ApplySpec, RTypeOK
<1>4. RTypeOK'
  BY <1>1, <1>2, <1>3 DEF RTypeOK
<1>5. TasksAreOfSpecs'
  BY <1>2 DEF TasksAreOfSpecs
<1>6. WorkerReadsAhead'
  <2>1. SUFFICES ASSUME assess[Reconciler].pc # "idle"
                 PROVE  \E j \in Keys : /\ j = assess[Reconciler].key /\ j \in rest
                                        /\ \/ assess[Reconciler].desired = specs'[j].desired
                                           \/ TaskDue(j)'
    BY <1>1 DEF WorkerReadsAhead
  <2>2. Reconciler \in Assessors
    BY DEF Assessors
  <2>3. PICK j \in Keys : j = assess[Reconciler].key
    BY <2>1, <2>2 DEF RTypeOK
  <2>4. j \in rest /\ (assess[Reconciler].desired = specs[j].desired \/ TaskDue(j))
    BY <2>1, <2>3 DEF WorkerReadsAhead
  <2> QED BY <1>2, <2>3, <2>4
<1> QED BY <1>4, <1>5, <1>6

(* A step of an assessor that is not the worker, or of the worker.         *)
LEMMA AssessKeeps ==
  ASSUME SpecInv, NEW g \in Assessors,
         UNCHANGED <<specs, world, queued, filing, rest, applied, applies, changes>>,
         assess' \in [Assessors -> Assessment],
         assess'[g].pc # "idle" => assess'[g].key \in Keys,
         \A h \in Assessors : h # g => assess'[h] = assess[h],
         g = Reconciler => \E k \in Keys :
                             /\ k = assess'[g].key /\ k \in rest
                             /\ assess'[g].desired = specs[k].desired \/ TaskDue(k)
  PROVE  SpecInv'
<1> USE DEF SpecInv
<1>1. Stored' = Stored /\ \A j \in Keys : TaskDue(j)' <=> TaskDue(j)
  BY DEF Stored, TaskDue
<1>2. RTypeOK'
  BY <1>1 DEF RTypeOK
<1>3. TasksAreOfSpecs'
  BY <1>1 DEF TasksAreOfSpecs
<1>4. WorkerReadsAhead'
  <2>1. Reconciler \in Assessors
    BY DEF Assessors
  <2>2. CASE g = Reconciler
    BY <1>1, <2>2 DEF WorkerReadsAhead
  <2>3. CASE g # Reconciler
    <3>1. assess'[Reconciler] = assess[Reconciler]
      BY <2>1, <2>3
    <3>2. assess[Reconciler].pc # "idle" => assess[Reconciler].key \in Keys
      BY <2>1 DEF RTypeOK
    <3> QED BY <1>1, <3>1, <3>2 DEF WorkerReadsAhead
  <2> QED BY <2>2, <2>3
<1> QED BY <1>2, <1>3, <1>4

LEMMA StoreKeeps ==
  ASSUME SpecInv, NEW g \in Assessors, NEW job \in {"", "task"},
         StoreAssessment(g, job),
         UNCHANGED <<world, queued, filing, applied, applies, changes>>,
         rest' \subseteq rest, g # Reconciler => rest' = rest
  PROVE  SpecInv'
<1> USE DEF SpecInv
<1>1. PICK k \in Keys :
        /\ assess' \in [Assessors -> Assessment] /\ assess'[g].pc = "idle"
        /\ \A h \in Assessors : h # g => assess'[h] = assess[h]
        /\ specs' \in [Keys -> ResourceSpec]
        /\ specs'[k].desired = specs[k].desired
        /\ \A j \in Keys : j # k => specs'[j] = specs[j]
        /\ Stored' = Stored
  BY AssessmentIsStored
<1>2. \A j \in Keys : (TaskDue(j)' <=> TaskDue(j)) /\ specs'[j].desired = specs[j].desired
  BY <1>1 DEF TaskDue
<1>3. RTypeOK'
  BY <1>1 DEF RTypeOK
<1>4. TasksAreOfSpecs'
  BY <1>1, <1>2 DEF TasksAreOfSpecs
<1>5. WorkerReadsAhead'
  <2>1. Reconciler \in Assessors
    BY DEF Assessors
  <2>2. CASE g = Reconciler
    BY <1>1, <2>2 DEF WorkerReadsAhead
  <2>3. CASE g # Reconciler
    <3>1. assess'[Reconciler] = assess[Reconciler] /\ rest' = rest
      BY <1>1, <2>1, <2>3
    <3>2. assess[Reconciler].pc # "idle" => assess[Reconciler].key \in Keys
      BY <2>1 DEF RTypeOK
    <3> QED BY <1>2, <3>1, <3>2 DEF WorkerReadsAhead
  <2> QED BY <2>2, <2>3
<1> QED BY <1>3, <1>4, <1>5

LEMMA SpecInvStep ==
  ASSUME SpecInv, [RNext]_rvars
  PROVE  SpecInv'
<1>0. /\ RTypeOK /\ TasksAreOfSpecs /\ WorkerReadsAhead
      /\ Reconciler \in Assessors /\ Explainers \subseteq Assessors
      /\ Empty \in Values /\ Reconciler \notin Explainers
  BY SpecAssumption DEF SpecInv, Assessors
<1>1. ASSUME NEW a \in Appliers, NEW k \in Keys, NEW v \in Values, ApplySpec(a, k, v)
      PROVE  SpecInv'
  BY <1>1, ApplyKeeps
<1>2. ASSUME NEW a \in Appliers, FileSpecTask(a) PROVE SpecInv'
  <2>1. /\ queued' \in [Keys -> Nat] /\ filing' \in [Appliers -> Keys \cup {NoKey}]
        /\ \A j \in Keys : TaskDue(j)' <=> TaskDue(j)
    BY <1>0, <1>2, TaskIsFiled
  <2>2. UNCHANGED <<specs, world, assess, rest, applied, applies, changes>>
    BY <1>2 DEF FileSpecTask
  <2>3. Stored' = Stored
    BY <2>2 DEF Stored
  <2>4. RTypeOK'
    BY <1>0, <2>1, <2>2, <2>3 DEF RTypeOK
  <2>5. TasksAreOfSpecs'
    BY <1>0, <2>1, <2>3 DEF TasksAreOfSpecs
  <2>6. assess[Reconciler].pc # "idle" => assess[Reconciler].key \in Keys
    BY <1>0 DEF RTypeOK
  <2>7. WorkerReadsAhead'
    BY <1>0, <2>1, <2>2, <2>6 DEF WorkerReadsAhead
  <2> QED BY <2>4, <2>5, <2>7 DEF SpecInv
<1>3. ASSUME NEW e \in Explainers, NEW k \in Keys, Explain(e, k) PROVE SpecInv'
  <2>1. GetSpec(e, k)
        /\ UNCHANGED <<specs, world, queued, filing, rest, applied, applies, changes>>
    BY <1>3 DEF Explain
  <2> QED BY <1>0, <2>1, SpecIsRead, AssessKeeps
<1>4. ASSUME NEW g \in Assessors, Observe(g) PROVE SpecInv'
  <2>1. UNCHANGED <<specs, world, queued, filing, rest, applied, applies, changes>>
    BY <1>4 DEF Observe
  <2>2. /\ assess' \in [Assessors -> Assessment]
        /\ assess'[g].pc = "store" /\ assess[g].pc = "observe"
        /\ assess'[g].key = assess[g].key /\ assess'[g].desired = assess[g].desired
        /\ \A h \in Assessors : h # g => assess'[h] = assess[h]
    BY <1>0, <1>4, SpecIsObserved
  <2>3. assess[g].key \in Keys
    BY <1>0, <2>2 DEF RTypeOK
  <2>4. g = Reconciler => \E k \in Keys :
          /\ k = assess'[g].key /\ k \in rest
          /\ assess'[g].desired = specs[k].desired \/ TaskDue(k)
    BY <1>0, <2>2, <2>3 DEF WorkerReadsAhead
  <2> QED BY <2>1, <2>2, <2>3, <2>4, AssessKeeps
<1>5. ASSUME NEW e \in Explainers, StoreExplanation(e) PROVE SpecInv'
  <2>1. StoreAssessment(e, "")
        /\ UNCHANGED <<world, queued, filing, rest, applied, applies, changes>>
    BY <1>5 DEF StoreExplanation
  <2> QED BY <1>0, <2>1, StoreKeeps
<1>6. ASSUME NEW k \in Keys, StartTask(k) PROVE SpecInv'
  <2>1. /\ queued' \in [Keys -> Nat] /\ TaskDue(k)
        /\ \A j \in Keys : TaskDue(j)' => TaskDue(j)
    BY <1>0, <1>6, TaskIsTaken
  <2>2. UNCHANGED <<specs, world, filing, assess, applied, applies, changes>> /\ rest' = {k}
        /\ assess[Reconciler].pc = "idle"
    BY <1>6 DEF StartTask, WorkerIdle
  <2>3. Stored' = Stored
    BY <2>2 DEF Stored
  <2>4. k \in Stored
    BY <1>0, <2>1 DEF TasksAreOfSpecs
  <2>5. RTypeOK'
    BY <1>0, <2>1, <2>2, <2>3, <2>4 DEF RTypeOK
  <2>6. TasksAreOfSpecs'
    BY <1>0, <2>1, <2>3 DEF TasksAreOfSpecs
  <2>7. WorkerReadsAhead'
    BY <2>2 DEF WorkerReadsAhead
  <2> QED BY <2>5, <2>6, <2>7 DEF SpecInv
<1>7. ASSUME StartAll PROVE SpecInv'
  <2>1. UNCHANGED <<specs, world, queued, filing, assess, applied, applies, changes>>
        /\ rest' = Stored /\ assess[Reconciler].pc = "idle"
    BY <1>7 DEF StartAll, ListSpecs, WorkerIdle
  <2>2. Stored' = Stored /\ \A j \in Keys : TaskDue(j)' <=> TaskDue(j)
    BY <2>1 DEF Stored, TaskDue
  <2>3. RTypeOK'
    BY <1>0, <2>1, <2>2 DEF RTypeOK
  <2>4. TasksAreOfSpecs'
    BY <1>0, <2>2 DEF TasksAreOfSpecs
  <2>5. WorkerReadsAhead'
    BY <2>1 DEF WorkerReadsAhead
  <2> QED BY <2>3, <2>4, <2>5 DEF SpecInv
<1>8. ASSUME NEW k \in Keys, ReconcileSpec(k) PROVE SpecInv'
  <2>1. /\ k \in rest /\ GetSpec(Reconciler, k)
        /\ UNCHANGED <<specs, world, queued, filing, rest, applied, applies, changes>>
    BY <1>8 DEF ReconcileSpec
  <2> QED BY <1>0, <2>1, SpecIsRead, AssessKeeps
<1>9. ASSUME StoreReconciled PROVE SpecInv'
  <2>1. /\ StoreAssessment(Reconciler, "task") /\ rest' \subseteq rest
        /\ UNCHANGED <<world, queued, filing, applied, applies, changes>>
    BY <1>9 DEF StoreReconciled
  <2> QED BY <1>0, <2>1, StoreKeeps
<1>10. ASSUME (\E k \in Keys, v \in Values : Change(k, v)) \/ UNCHANGED rvars
       PROVE  SpecInv'
  <2>1. /\ UNCHANGED <<specs, queued, filing, assess, rest, applied, applies>>
        /\ world' \in [Keys -> Values] /\ changes' \in Nat
    BY <1>0, <1>10 DEF Change, rvars, RTypeOK
  <2>2. Stored' = Stored /\ \A j \in Keys : TaskDue(j)' <=> TaskDue(j)
    BY <2>1 DEF Stored, TaskDue
  <2>3. RTypeOK'
    BY <1>0, <2>1, <2>2 DEF RTypeOK
  <2>4. TasksAreOfSpecs'
    BY <1>0, <2>2 DEF TasksAreOfSpecs
  <2>5. assess[Reconciler].pc # "idle" => assess[Reconciler].key \in Keys
    BY <1>0 DEF RTypeOK
  <2>6. WorkerReadsAhead'
    BY <1>0, <2>1, <2>2, <2>5 DEF WorkerReadsAhead
  <2> QED BY <2>3, <2>4, <2>6 DEF SpecInv
<1> QED BY <1>0, <1>1, <1>2, <1>3, <1>4, <1>5, <1>6, <1>7, <1>8, <1>9, <1>10
        DEF RNext, ReconcilerStep

LEMMA NothingIsStored ==
  ASSUME RInit, NEW k \in Keys
  PROVE  specs[k].desired = Empty /\ specs[k].version = 0
<1> DEFINE r == [desired |-> Empty, observed |-> Empty, drift |-> "PENDING", job |-> "", version |-> 0]
<1>1. specs[k] = r
  BY DEF RInit
<1>2. r.desired = Empty /\ r.version = 0
  OBVIOUS
<1> HIDE DEF r
<1> QED BY <1>1, <1>2

LEMMA SpecInvHolds == RSpec => []SpecInv
<1>1. RInit => SpecInv
  <2> SUFFICES ASSUME RInit PROVE SpecInv
    OBVIOUS
  <2>1. Empty \in Values
    BY SpecAssumption
  <2>2. specs \in [Keys -> ResourceSpec] /\ assess \in [Assessors -> Assessment]
    BY <2>1 DEF RInit, ResourceSpec, Drifts, Assessment
  <2>3. /\ world \in [Keys -> Values] /\ queued \in [Keys -> Nat]
        /\ filing \in [Appliers -> Keys \cup {NoKey}] /\ rest \subseteq Stored
        /\ applied \in [Keys -> Values] /\ applies \in [Keys -> Nat] /\ changes \in Nat
        /\ \A g \in Assessors : assess[g].pc = "idle"
    BY <2>1 DEF RInit
  <2>4. \A k \in Keys : ~TaskDue(k)
    <3>1. /\ \A k \in Keys : queued[k] = 0
          /\ \A a \in Appliers : filing[a] = NoKey
      BY DEF RInit
    <3> QED BY <3>1, SpecAssumption DEF TaskDue
  <2>5. Reconciler \in Assessors
    BY DEF Assessors
  <2> QED BY <2>2, <2>3, <2>4, <2>5
          DEF SpecInv, RTypeOK, TasksAreOfSpecs, WorkerReadsAhead
<1>2. SpecInv /\ [RNext]_rvars => SpecInv'
  BY SpecInvStep
<1> QED BY <1>1, <1>2, PTL DEF RSpec

(* Every variable of SpecReconcile keeps its type: an assessment in        *)
(* progress has a key, and the worker assesses specs that there are        *)
(* (client.go:470-560).                                                    *)
THEOREM SpecTypeCorrect == RSpec => []RTypeOK
BY SpecInvHolds, PTL DEF SpecInv

(* An apply is never lost: an assessment of an older copy that is stored   *)
(* after it leaves what it desires and its version (client.go:719-725).    *)
THEOREM AppliesKept == RSpec => []AppliesAreKept
<1>1. RInit => AppliesAreKept
  <2> SUFFICES ASSUME RInit PROVE AppliesAreKept
    OBVIOUS
  <2>1. \A k \in Keys : applied[k] = Empty /\ applies[k] = 0
    BY DEF RInit
  <2> QED BY <2>1, NothingIsStored DEF AppliesAreKept
<1>2. SpecInv /\ AppliesAreKept /\ [RNext]_rvars => AppliesAreKept'
  <2> SUFFICES ASSUME RTypeOK, AppliesAreKept, [RNext]_rvars
               PROVE  AppliesAreKept'
    BY DEF SpecInv
  <2>1. ASSUME NEW a \in Appliers, NEW k \in Keys, NEW v \in Values, ApplySpec(a, k, v)
        PROVE  AppliesAreKept'
    <3>1. /\ specs'[k].desired = v /\ specs'[k].version = specs[k].version + 1
          /\ \A j \in Keys : j # k => specs'[j] = specs[j]
      BY <2>1, SpecIsApplied
    <3>2. /\ applied \in [Keys -> Values] /\ applies \in [Keys -> Nat]
          /\ applied' = [applied EXCEPT ![k] = v] /\ applies' = [applies EXCEPT ![k] = @ + 1]
      BY <2>1 DEF ApplySpec, RTypeOK
    <3>3. applied'[k] = v /\ applies'[k] = applies[k] + 1
          /\ \A j \in Keys : j # k => applied'[j] = applied[j] /\ applies'[j] = applies[j]
      BY <3>2
    <3> QED BY <3>1, <3>3 DEF AppliesAreKept
  <2>2. ASSUME NEW g \in Assessors, NEW job \in {"", "task"},
               StoreAssessment(g, job), UNCHANGED <<applied, applies>>
        PROVE  AppliesAreKept'
    <3>1. \A j \in Keys : specs'[j].desired = specs[j].desired /\ specs'[j].version = specs[j].version
      BY <2>2, AssessmentIsStored
    <3> QED BY <2>2, <3>1 DEF AppliesAreKept
  <2>3. ASSUME NEW e \in Explainers, StoreExplanation(e) PROVE AppliesAreKept'
    BY <2>2, <2>3 DEF StoreExplanation, Assessors
  <2>4. ASSUME StoreReconciled PROVE AppliesAreKept'
    BY <2>2, <2>4 DEF StoreReconciled, Assessors
  <2>5. ASSUME UNCHANGED <<specs, applied, applies>> PROVE AppliesAreKept'
    BY <2>5 DEF AppliesAreKept
  <2>6. CASE \/ \E a \in Appliers : FileSpecTask(a)
             \/ \E e \in Explainers : (\E k \in Keys : Explain(e, k)) \/ Observe(e)
             \/ \E k \in Keys : StartTask(k) \/ ReconcileSpec(k)
             \/ StartAll \/ Observe(Reconciler)
             \/ \E k \in Keys, v \in Values : Change(k, v)
             \/ UNCHANGED rvars
    BY <2>5, <2>6 DEF FileSpecTask, Explain, Observe, StartTask,
         ReconcileSpec, StartAll, Change, rvars
  <2> QED BY <2>1, <2>3, <2>4, <2>6 DEF RNext, ReconcilerStep
<1> QED BY <1>1, <1>2, SpecInvHolds, PTL DEF RSpec

(* A step that leaves a spec and does not take it from the worker. *)
Stale(k) == specs[k].drift # Drift(specs[k].desired, specs[k].observed)

InHand(k) == TaskDue(k) \/ k \in rest \/ specs[k].job = ""

LEMMA StaleMeans ==
  StaleIsQueued <=> \A k \in Stored : Stale(k) => InHand(k)
BY DEF StaleIsQueued, TaskDue, Stale, InHand

LEMMA StaleStep ==
  ASSUME SpecInv, [RNext]_rvars,
         \A k \in Stored : Stale(k) => InHand(k),
         NEW k \in Stored', Stale(k)'
  PROVE  InHand(k)'
<1>0. /\ RTypeOK /\ WorkerReadsAhead /\ k \in Keys
      /\ Reconciler \in Assessors /\ Explainers \subseteq Assessors
      /\ Empty \in Values
  BY SpecAssumption DEF SpecInv, Assessors, Stored
<1>1. ASSUME specs'[k] = specs[k], TaskDue(k) => TaskDue(k)',
             k \in rest => k \in rest'
      PROVE  InHand(k)'
  <2>1. k \in Stored /\ Stale(k)
    BY <1>0, <1>1 DEF Stored, Stale
  <2> QED BY <1>1, <2>1 DEF InHand
<1>2. ASSUME NEW a \in Appliers, NEW j \in Keys, NEW v \in Values, ApplySpec(a, j, v)
      PROVE  InHand(k)'
  <2>1. /\ \A i \in Keys : i # j => specs'[i] = specs[i]
        /\ \A i \in Keys : TaskDue(i)' <=> i = j \/ TaskDue(i)
    BY <1>0, <1>2, SpecIsApplied
  <2>2. rest' = rest
    BY <1>2 DEF ApplySpec
  <2>3. CASE k = j
    BY <1>0, <2>1, <2>3 DEF InHand
  <2>4. CASE k # j
    BY <1>0, <1>1, <2>1, <2>2, <2>4
  <2> QED BY <2>3, <2>4
<1>3. ASSUME NEW a \in Appliers, FileSpecTask(a) PROVE InHand(k)'
  <2>1. \A j \in Keys : TaskDue(j)' <=> TaskDue(j)
    BY <1>0, <1>3, TaskIsFiled
  <2>2. UNCHANGED <<specs, rest>>
    BY <1>3 DEF FileSpecTask
  <2> QED BY <1>0, <1>1, <2>1, <2>2
<1>4. ASSUME NEW e \in Explainers, StoreExplanation(e) PROVE InHand(k)'
  <2>1. PICK j \in Keys : specs'[j].job = "" /\ \A i \in Keys : i # j => specs'[i] = specs[i]
    BY <1>0, <1>4, AssessmentIsStored DEF StoreExplanation
  <2>2. UNCHANGED <<queued, filing, rest>>
    BY <1>4 DEF StoreExplanation
  <2>3. TaskDue(k)' <=> TaskDue(k)
    BY <2>2 DEF TaskDue
  <2>4. CASE k = j
    BY <2>1, <2>4 DEF InHand
  <2>5. CASE k # j
    BY <1>0, <1>1, <2>1, <2>2, <2>3, <2>5
  <2> QED BY <2>4, <2>5
<1>5. ASSUME NEW j \in Keys, StartTask(j) PROVE InHand(k)'
  <2>1. /\ \A i \in Keys : i # j => (TaskDue(i)' <=> TaskDue(i))
    BY <1>0, <1>5, TaskIsTaken
  <2>2. specs' = specs /\ rest = {} /\ rest' = {j}
    BY <1>5 DEF StartTask, WorkerIdle
  <2>3. CASE k = j
    BY <2>2, <2>3 DEF InHand
  <2>4. CASE k # j
    BY <1>0, <1>1, <2>1, <2>2, <2>4
  <2> QED BY <2>3, <2>4
<1>6. ASSUME StartAll PROVE InHand(k)'
  <2>1. UNCHANGED <<specs, queued, filing>> /\ rest = {}
    BY <1>6 DEF StartAll, WorkerIdle
  <2>2. TaskDue(k)' <=> TaskDue(k)
    BY <2>1 DEF TaskDue
  <2> QED BY <1>0, <1>1, <2>1, <2>2
<1>7. ASSUME StoreReconciled PROVE InHand(k)'
  <2>1. PICK j \in Keys :
          /\ j = assess[Reconciler].key /\ assess[Reconciler].pc = "store"
          /\ specs'[j].desired = specs[j].desired
          /\ specs'[j].observed = assess[Reconciler].observed
          /\ specs'[j].drift = Drift(assess[Reconciler].desired, assess[Reconciler].observed)
          /\ \A i \in Keys : i # j => specs'[i] = specs[i]
    BY <1>0, <1>7, AssessmentIsStored DEF StoreReconciled
  <2>2. UNCHANGED <<queued, filing>> /\ rest' = rest \ {j}
    BY <1>7, <2>1 DEF StoreReconciled
  <2>3. TaskDue(k)' <=> TaskDue(k)
    BY <2>2 DEF TaskDue
  <2>4. CASE k = j
    <3>1. assess[Reconciler].desired = specs[j].desired \/ TaskDue(j)
      BY <1>0, <2>1 DEF WorkerReadsAhead
    <3>2. assess[Reconciler].desired # specs[j].desired
      BY <2>1, <2>4 DEF Stale
    <3> QED BY <2>3, <2>4, <3>1, <3>2 DEF InHand
  <2>5. CASE k # j
    BY <1>0, <1>1, <2>1, <2>2, <2>3, <2>5
  <2> QED BY <2>4, <2>5
<1>8. ASSUME UNCHANGED <<specs, queued, filing, rest>> PROVE InHand(k)'
  <2>1. TaskDue(k)' <=> TaskDue(k)
    BY <1>8 DEF TaskDue
  <2> QED BY <1>0, <1>1, <1>8, <2>1
<1>9. ASSUME \/ \E e \in Explainers : (\E j \in Keys : Explain(e, j)) \/ Observe(e)
             \/ \E j \in Keys : ReconcileSpec(j)
             \/ Observe(Reconciler)
             \/ \E j \in Keys, v \in Values : Change(j, v)
             \/ UNCHANGED rvars
      PROVE  InHand(k)'
  BY <1>8, <1>9 DEF Explain, Observe, ReconcileSpec, Change, rvars
<1> QED BY <1>2, <1>3, <1>4, <1>5, <1>6, <1>7, <1>9 DEF RNext, ReconcilerStep

(* A spec whose drift is out of date has a task that will assess it again, *)
(* unless it was an explanation that assessed it last: what the worker     *)
(* stores is out of date only when an apply came between, and that one has *)
(* filed its task or is about to (client.go:493-500, 524).                 *)
THEOREM StaleQueued == RSpec => []StaleIsQueued
<1> DEFINE P == \A k \in Stored : Stale(k) => InHand(k)
<1>1. RInit => P
  BY NothingIsStored DEF Stored
<1>2. SpecInv /\ P /\ [RNext]_rvars => P'
  BY StaleStep
<1>3. P => StaleIsQueued
  BY StaleMeans
<1> HIDE DEF P
<1> QED BY <1>1, <1>2, <1>3, SpecInvHolds, PTL DEF RSpec

=============================================================================
