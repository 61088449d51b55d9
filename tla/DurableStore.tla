---------------------------- MODULE DurableStore ----------------------------
(***************************************************************************)
(* The store backed by PostgreSQL (store/postgres.go): every operation is  *)
(* made on the in-memory tables first and then, outside their mutex, on    *)
(* the rows of the database, by the goroutine that called it.  A database  *)
(* that does not answer is logged and otherwise ignored.  A restart begins *)
(* with empty tables and with IDs from 1 again; the rows stay.             *)
(*                                                                         *)
(* Jobs and the audit log are written by calls (mcp/service.go), tasks by  *)
(* the clients that file them and by the autonomy worker.  Incidents are   *)
(* written as audit events are.  IDs of all kinds come from one counter.   *)
(* An audit row holds, as an auxiliary, the job it is about.               *)
(***************************************************************************)
EXTENDS Naturals

CONSTANTS
  Callers,          \* goroutines inside HandleCall
  Filers,           \* goroutines that file tasks
  Keys, NoKey,      \* idempotency keys; NoKey is the empty key
  MaxSeq,           \* BOUND: IDs given in one run of the process
  MaxBorn,          \* BOUND: jobs and tasks ever created
  MaxRestarts,      \* BOUND: restarts
  MaxFailures       \* BOUND: writes to the database that fail

ASSUME StoreAssumption ==
  /\ NoKey \notin Keys
  /\ MaxSeq \in Nat
  /\ MaxBorn \in Nat
  /\ MaxRestarts \in Nat
  /\ MaxFailures \in Nat

VARIABLES
  seq,              \* the last ID given
  jobs, tasks,      \* the tables in memory: ID -> record
  jobRows, auditRows, taskRows,     \* the tables of the database: ID -> record
  calls, filers, worker,            \* where the goroutines are
  restarts, failures,     \* counted, for the bounds
  born,             \* auxiliary: jobs and tasks ever created; numbers them
  dropped,          \* auxiliary: jobs and tasks whose last write was not made
  audited,          \* auxiliary: jobs whose AddAudit has returned
  unlogged          \* auxiliary: those of them whose event was not written

memory == <<seq, jobs, tasks>>
rows   == <<jobRows, auditRows, taskRows>>
aux    == <<born, dropped, audited, unlogged>>
counts == <<restarts, failures>>
vars   == <<memory, rows, calls, filers, worker, counts, aux>>

-----------------------------------------------------------------------------
JobStatuses  == {"PLANNED", "APPROVED", "RUNNING", "VERIFIED",
                 "COMPLETED", "FAILED", "BLOCKED"}      \* BLOCKED: either held end
TaskStatuses == {"QUEUED", "RUNNING", "COMPLETED", "FAILED"}

Ids  == 1 .. MaxSeq

(* `uid': auxiliary, tells records apart that were given the same ID. *)
Job  == [uid : Nat, key : Keys \cup {NoKey}, status : JobStatuses]
Task == [uid : Nat, status : TaskStatuses]

(* A call: its key, the IDs of its job and of its audit event, and the job *)
(* it is to write to the database.                                         *)
Call == [pc : {"idle", "create", "persist", "audit", "persist audit", "update", "reread"},
         key : Keys \cup {NoKey}, id : {0} \cup Ids, event : {0} \cup Ids, copy : Job]

(* A goroutine that files or works off tasks. *)
Hand == [pc : {"idle", "persist", "complete"}, id : {0} \cup Ids, copy : Task]

IdleCall == [pc |-> "idle", key |-> NoKey, id |-> 0, event |-> 0,
             copy |-> [uid |-> 0, key |-> NoKey, status |-> "PLANNED"]]
IdleHand == [pc |-> "idle", id |-> 0, copy |-> [uid |-> 0, status |-> "QUEUED"]]

Put(table, id, record) ==
  [i \in DOMAIN table \cup {id} |-> IF i = id THEN record ELSE table[i]]

(* A write to the database fails. *)
Fails ==
  /\ failures < MaxFailures
  /\ failures' = failures + 1

CallGoes(c, pc) ==
  calls' = [calls EXCEPT ![c] = IF pc = "idle" THEN IdleCall ELSE [@ EXCEPT !.pc = pc]]

-----------------------------------------------------------------------------
(* Jobs and audit events: HandleCall (mcp/service.go) over this store.     *)

(* GetJobByIdempotencyKey asks the table in memory only. *)
LookupMiss(c, k) ==
  /\ calls[c].pc = "idle"
  /\ seq < MaxSeq /\ born < MaxBorn
  /\ \A id \in DOMAIN jobs : k # NoKey => jobs[id].key # k
  /\ calls' = [calls EXCEPT ![c] = [IdleCall EXCEPT !.pc = "create", !.key = k]]
  /\ UNCHANGED <<memory, rows, filers, worker, counts, aux>>

(* Deviation: the call holds the number the counter had before its ID.     *)
CreateJobBefore(c) ==
  LET job == [uid |-> born + 1, key |-> calls[c].key, status |-> "PLANNED"]
  IN  /\ calls[c].pc = "create"
      /\ seq < MaxSeq /\ born < MaxBorn
      /\ seq' = seq + 1
      /\ born' = born + 1
      /\ jobs' = Put(jobs, seq + 1, job)
      /\ calls' = [calls EXCEPT ![c] = [@ EXCEPT !.pc = "persist", !.id = seq,
                                                 !.copy = job]]
      /\ UNCHANGED <<tasks, rows, filers, worker, counts, dropped, audited, unlogged>>

CreateJob(c) ==
  LET job == [uid |-> born + 1, key |-> calls[c].key, status |-> "PLANNED"]
  IN  /\ calls[c].pc = "create"
      /\ seq < MaxSeq /\ born < MaxBorn
      /\ seq' = seq + 1
      /\ born' = born + 1
      /\ jobs' = Put(jobs, seq + 1, job)
      /\ calls' = [calls EXCEPT ![c] = [@ EXCEPT !.pc = "persist", !.id = seq + 1,
                                                 !.copy = job]]
      /\ UNCHANGED <<tasks, rows, filers, worker, counts, dropped, audited, unlogged>>

(* The key of a job is UNIQUE in the database, and NULL when it is empty.  *)
KeyTaken(id, job) ==
  job.key # NoKey /\ \E i \in DOMAIN jobRows \ {id} : jobRows[i].key = job.key

(* Deviations: of AfterPersist, the audit event comes after the approval;  *)
(* of PersistJob, a conflict on the ID does nothing.                       *)
AuditAfterApproval(status) ==
  CASE status = "PLANNED"  -> "update"
    [] status = "APPROVED" -> "audit"
    [] status \in {"RUNNING", "VERIFIED"} -> "update"
    [] OTHER -> "idle"

(* Where HandleCall goes once the job has been written in a status. *)
AfterPersist(status) ==
  CASE status = "PLANNED" -> "audit"
    [] status \in {"APPROVED", "RUNNING", "VERIFIED"} -> "update"
    [] OTHER -> "idle"

JobRowsKept(c) ==
  LET id == calls[c].id  job == calls[c].copy
  IN  /\ calls[c].pc = "persist"
      /\ jobRows' = IF id \in DOMAIN jobRows \/ KeyTaken(id, job) THEN jobRows
                    ELSE Put(jobRows, id, job)
      /\ dropped' = IF KeyTaken(id, job) THEN dropped \cup {job.uid} ELSE dropped \ {job.uid}
      /\ CallGoes(c, AfterPersist(job.status))
      /\ UNCHANGED <<memory, auditRows, taskRows, filers, worker, counts, born,
                     audited, unlogged>>

(* persistJob: INSERT ... ON CONFLICT (id) DO UPDATE, which fails when the *)
(* key belongs to a row with another ID.                                   *)
PersistJob(c) ==
  LET id == calls[c].id  job == calls[c].copy
  IN  /\ calls[c].pc = "persist"
      /\ \/ /\ ~KeyTaken(id, job)
            /\ jobRows' = Put(jobRows, id, job)
            /\ dropped' = dropped \ {job.uid}
            /\ UNCHANGED failures
         \/ /\ Fails \/ (KeyTaken(id, job) /\ UNCHANGED failures)
            /\ dropped' = dropped \cup {job.uid}
            /\ UNCHANGED jobRows
      /\ CallGoes(c, AfterPersist(job.status))
      /\ UNCHANGED <<memory, auditRows, taskRows, filers, worker, restarts, born,
                     audited, unlogged>>

AddAudit(c) ==
  /\ calls[c].pc = "audit"
  /\ seq < MaxSeq
  /\ seq' = seq + 1
  /\ calls' = [calls EXCEPT ![c] = [@ EXCEPT !.pc = "persist audit", !.event = seq + 1]]
  /\ UNCHANGED <<jobs, tasks, rows, filers, worker, counts, aux>>

(* Deviation: a conflict on the ID overwrites the event. *)
AuditOverwritten(c) ==
  /\ calls[c].pc = "persist audit"
  /\ auditRows' = Put(auditRows, calls[c].event, calls[c].copy.uid)
  /\ audited' = audited \cup {calls[c].copy.uid}
  /\ CallGoes(c, "update")
  /\ UNCHANGED <<memory, jobRows, taskRows, filers, worker, counts, born, dropped,
                 unlogged>>

(* persistAudit: INSERT ... ON CONFLICT (id) DO NOTHING. *)
PersistAudit(c) ==
  LET id == calls[c].event  uid == calls[c].copy.uid
  IN  /\ calls[c].pc = "persist audit"
      /\ \/ /\ id \notin DOMAIN auditRows
            /\ auditRows' = Put(auditRows, id, uid)
            /\ UNCHANGED <<unlogged, failures>>
         \/ /\ Fails \/ (id \in DOMAIN auditRows /\ UNCHANGED failures)
            /\ unlogged' = unlogged \cup {uid}
            /\ UNCHANGED auditRows
      /\ audited' = audited \cup {uid}
      /\ CallGoes(c, "update")
      /\ UNCHANGED <<memory, jobRows, taskRows, filers, worker, restarts, born, dropped>>

(* The statuses HandleCall may give a job after another one. *)
NextStatuses(status) ==
  CASE status = "PLANNED"  -> {"APPROVED", "BLOCKED"}
    [] status = "APPROVED" -> {"RUNNING"}
    [] status = "RUNNING"  -> {"VERIFIED", "FAILED"}
    [] status = "VERIFIED" -> {"COMPLETED"}
    [] OTHER               -> {}

UpdateJob(c) ==
  LET id == calls[c].id
  IN  /\ calls[c].pc = "update"
      /\ \E status \in NextStatuses(jobs[id].status) :
           jobs' = [jobs EXCEPT ![id] = [@ EXCEPT !.status = status]]
      /\ CallGoes(c, "reread")
      /\ UNCHANGED <<seq, tasks, rows, filers, worker, counts, aux>>

(* UpdateJob reads the job back before it is written to the database.      *)
GetJob(c) ==
  /\ calls[c].pc = "reread"
  /\ calls' = [calls EXCEPT ![c] = [@ EXCEPT !.pc = "persist", !.copy = jobs[calls[c].id]]]
  /\ UNCHANGED <<memory, rows, filers, worker, counts, aux>>

-----------------------------------------------------------------------------
(* Tasks.  Which of the queued tasks is claimed is AutonomyQueue's matter. *)

CreateAgentTask(f) ==
  LET task == [uid |-> born + 1, status |-> "QUEUED"]
  IN  /\ filers[f].pc = "idle"
      /\ seq < MaxSeq /\ born < MaxBorn
      /\ seq' = seq + 1
      /\ born' = born + 1
      /\ tasks' = Put(tasks, seq + 1, task)
      /\ filers' = [filers EXCEPT ![f] = [pc |-> "persist", id |-> seq + 1, copy |-> task]]
      /\ UNCHANGED <<jobs, rows, calls, worker, counts, dropped, audited, unlogged>>

ClaimNextAgentTask ==
  /\ worker.pc = "idle"
  /\ \E id \in {i \in DOMAIN tasks : tasks[i].status = "QUEUED"} :
       LET task == [tasks[id] EXCEPT !.status = "RUNNING"]
       IN  /\ tasks' = [tasks EXCEPT ![id] = task]
           /\ worker' = [pc |-> "persist", id |-> id, copy |-> task]
  /\ UNCHANGED <<seq, jobs, rows, calls, filers, counts, aux>>

(* Deviation: a completion is kept in memory only. *)
CompletionNotWritten ==
  /\ worker.pc = "complete"
  /\ tasks' = [tasks EXCEPT ![worker.id] = [@ EXCEPT !.status = "COMPLETED"]]
  /\ worker' = IdleHand
  /\ UNCHANGED <<seq, jobs, rows, calls, filers, counts, aux>>

CompleteAgentTask ==
  /\ worker.pc = "complete"
  /\ \E status \in {"COMPLETED", "FAILED"} :
       LET task == [tasks[worker.id] EXCEPT !.status = status]
       IN  /\ tasks' = [tasks EXCEPT ![worker.id] = task]
           /\ worker' = [worker EXCEPT !.pc = "persist", !.copy = task]
  /\ UNCHANGED <<seq, jobs, rows, calls, filers, counts, aux>>

(* persistAgentTask: INSERT ... ON CONFLICT (id) DO UPDATE. *)
PersistTask(hand) ==
  /\ hand.pc = "persist"
  /\ \/ /\ taskRows' = Put(taskRows, hand.id, hand.copy)
        /\ dropped' = dropped \ {hand.copy.uid}
        /\ UNCHANGED failures
     \/ /\ Fails
        /\ dropped' = dropped \cup {hand.copy.uid}
        /\ UNCHANGED taskRows
  /\ UNCHANGED <<memory, jobRows, auditRows, calls, restarts, born, audited, unlogged>>

PersistFiled(f) ==
  /\ PersistTask(filers[f])
  /\ filers' = [filers EXCEPT ![f] = IdleHand]
  /\ UNCHANGED worker

(* The worker goes on to the task it has claimed, or is done with it. *)
PersistWorked ==
  /\ PersistTask(worker)
  /\ worker' = IF worker.copy.status = "RUNNING" THEN [worker EXCEPT !.pc = "complete"]
               ELSE IdleHand
  /\ UNCHANGED filers

-----------------------------------------------------------------------------
(* The process ends, at any point, and NewPostgresStore begins again with  *)
(* NewMemoryStore.                                                         *)
Restart ==
  /\ restarts < MaxRestarts
  /\ restarts' = restarts + 1
  /\ seq' = 0
  /\ jobs' = <<>>
  /\ tasks' = <<>>
  /\ calls' = [c \in Callers |-> IdleCall]
  /\ filers' = [f \in Filers |-> IdleHand]
  /\ worker' = IdleHand
  /\ dropped' = {}
  /\ UNCHANGED <<rows, failures, born, audited, unlogged>>

-----------------------------------------------------------------------------
Init ==
  /\ seq = 0
  /\ jobs = <<>> /\ tasks = <<>>
  /\ jobRows = <<>> /\ auditRows = <<>> /\ taskRows = <<>>
  /\ calls = [c \in Callers |-> IdleCall]
  /\ filers = [f \in Filers |-> IdleHand]
  /\ worker = IdleHand
  /\ restarts = 0 /\ failures = 0
  /\ born = 0 /\ dropped = {} /\ audited = {} /\ unlogged = {}

Next ==
  \/ \E c \in Callers :
       \/ \E k \in Keys \cup {NoKey} : LookupMiss(c, k)
       \/ CreateJob(c) \/ PersistJob(c) \/ AddAudit(c) \/ PersistAudit(c)
       \/ UpdateJob(c) \/ GetJob(c)
  \/ \E f \in Filers : CreateAgentTask(f) \/ PersistFiled(f)
  \/ ClaimNextAgentTask \/ CompleteAgentTask \/ PersistWorked
  \/ Restart

Spec == Init /\ [][Next]_vars

-----------------------------------------------------------------------------
(* Properties.                                                             *)

IsTable(table, records) ==
  DOMAIN table \subseteq Ids /\ \A id \in DOMAIN table : table[id] \in records

(* Every variable keeps its type; a goroutine that is to write a record    *)
(* holds the ID it has in memory (postgres.go:262-274).                    *)
TypeOK ==
  /\ seq \in 0 .. MaxSeq
  /\ IsTable(jobs, Job) /\ IsTable(tasks, Task)
  /\ IsTable(jobRows, Job) /\ IsTable(auditRows, Nat) /\ IsTable(taskRows, Task)
  /\ calls \in [Callers -> Call]
  /\ filers \in [Filers -> Hand] /\ worker \in Hand
  /\ restarts \in 0 .. MaxRestarts
  /\ failures \in 0 .. MaxFailures
  /\ born \in Nat
  /\ dropped \cup audited \cup unlogged \subseteq 1 .. born
  /\ \A c \in Callers : calls[c].pc \notin {"idle", "create"} => calls[c].id \in DOMAIN jobs

(* A job in memory is in the database as it is in memory, unless its call  *)
(* is on the way to write it, or the database dropped the last write; rows *)
(* of an earlier run of the process that had its ID are gone               *)
(* (postgres.go:262-274).                                                  *)
JobRowsFollowMemory ==
  \A id \in DOMAIN jobs :
    \/ \E c \in Callers : calls[c].id = id /\ calls[c].pc \in {"persist", "reread"}
    \/ jobs[id].uid \in dropped
    \/ id \in DOMAIN jobRows /\ jobRows[id] = jobs[id]

(* A task's row is behind its table in one way only: the write of its      *)
(* creation came after those of its claim or its completion, and it shows  *)
(* the task queued (postgres.go:369-397).                                  *)
TaskRowsFallBackToQueued ==
  \A id \in DOMAIN tasks :
    \/ \E f \in Filers : filers[f].id = id /\ filers[f].pc = "persist"
    \/ worker.id = id /\ worker.pc = "persist"
    \/ tasks[id].uid \in dropped
    \/ /\ id \in DOMAIN taskRows
       /\ taskRows[id].uid = tasks[id].uid
       /\ taskRows[id].status \in {"QUEUED", tasks[id].status}

(* What survives a restart is justified: a row that shows a job approved,  *)
(* or anything later, has its audit event in the database, unless that one *)
(* write was dropped, whenever the process ended (mcp/service.go:88-127).  *)
SurvivingJobsAreAudited ==
  \A id \in DOMAIN jobRows : jobRows[id].status # "PLANNED" =>
    \/ jobRows[id].uid \in unlogged
    \/ \E e \in DOMAIN auditRows : auditRows[e] = jobRows[id].uid

(* An event in the database is never lost or changed, restarts that give   *)
(* its ID again included (postgres.go:161-171).                            *)
AuditRowsStay ==
  [][\A e \in DOMAIN auditRows : e \in DOMAIN auditRows' /\ auditRows'[e] = auditRows[e]]_vars

(* The audit log is durable: while the database answers, an event whose    *)
(* AddAudit has returned is in it.                                         *)
AuditIsDurable ==
  \A uid \in audited : \E e \in DOMAIN auditRows : auditRows[e] = uid

-----------------------------------------------------------------------------
(* The inductive invariant behind the properties of the job and audit rows.*)

Active(c) == calls[c].pc \notin {"idle", "create"}

(* IDs in use have been given by this run of the process. *)
IdsAreGiven == DOMAIN jobs \cup DOMAIN tasks \subseteq 1 .. seq

EventIsGiven(c) == calls[c].pc = "persist audit" => calls[c].event \in 1 .. seq
EventsAreGiven  == \A c \in Callers : EventIsGiven(c)

(* A call writes its own job, the one its copy is of. *)
CallsOwnJobs ==
  /\ \A c \in Callers : Active(c) =>
       /\ calls[c].id \in DOMAIN jobs
       /\ calls[c].copy.uid = jobs[calls[c].id].uid
       /\ calls[c].pc = "persist" => calls[c].copy = jobs[calls[c].id]
  /\ \A c, d \in Callers :
       Active(c) /\ Active(d) /\ calls[c].id = calls[d].id => c = d

Holds(hand) ==
  hand.pc # "idle" => hand.id \in DOMAIN tasks /\ hand.copy.uid = tasks[hand.id].uid

HandsHoldTasks == Holds(worker) /\ \A f \in Filers : Holds(filers[f])

(* No two records in memory are of one job or task. *)
UidsApart ==
  /\ \A i \in DOMAIN jobs : jobs[i].uid \in 1 .. born
  /\ \A i \in DOMAIN tasks : tasks[i].uid \in 1 .. born
  /\ \A i, j \in DOMAIN jobs : jobs[i].uid = jobs[j].uid => i = j
  /\ \A i \in DOMAIN jobs, j \in DOMAIN tasks : jobs[i].uid # tasks[j].uid

(* Who writes a task's row writes the task as it is in memory, or as it    *)
(* was filed; and no two tasks in memory are one.                          *)
HandsWriteTasks ==
  /\ worker.pc = "persist" => worker.copy = tasks[worker.id]
  /\ \A f \in Filers : filers[f].pc # "complete" /\ filers[f].copy.status = "QUEUED"
  /\ \A i, j \in DOMAIN tasks : tasks[i].uid = tasks[j].uid => i = j

Audited(uid) == uid \in unlogged \/ \E e \in DOMAIN auditRows : auditRows[e] = uid

(* A call that is past AddAudit has its event, or lost it. *)
AuditComesFirst ==
  \A c \in Callers :
    \/ calls[c].pc \in {"update", "reread"}
    \/ calls[c].pc = "persist" /\ calls[c].copy.status # "PLANNED"
    => Audited(calls[c].copy.uid)

=============================================================================
