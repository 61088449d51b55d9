------------------------- MODULE DurableStoreProofs -------------------------
(***************************************************************************)
(* Theorems of DurableStore, for any number of calls, clients and keys,    *)
(* any number of restarts and any number of writes that fail.              *)
(***************************************************************************)
EXTENDS DurableStore, TLAPS

-----------------------------------------------------------------------------
(* Tables.                                                                 *)

(* What Put does to a table. *)
LEMMA PutTable ==
  ASSUME NEW table, NEW S, IsTable(table, S), NEW id \in Ids, NEW record \in S
  PROVE  /\ IsTable(Put(table, id, record), S)
         /\ DOMAIN Put(table, id, record) = DOMAIN table \cup {id}
         /\ Put(table, id, record)[id] = record
         /\ \A i \in DOMAIN table : i # id => Put(table, id, record)[i] = table[i]
BY DEF IsTable, Put

(* What overwriting a record does to a table. *)
LEMMA ExceptTable ==
  ASSUME NEW table, NEW S, IsTable(table, S), NEW id \in DOMAIN table, NEW record \in S,
         NEW new, new = [table EXCEPT ![id] = record]
  PROVE  /\ IsTable(new, S)
         /\ DOMAIN new = DOMAIN table
         /\ new[id] = record
         /\ \A i \in DOMAIN table : i # id => new[i] = table[i]
BY DEF IsTable

LEMMA EmptyTable == ASSUME NEW S PROVE IsTable(<<>>, S) /\ DOMAIN <<>> = {}
BY DEF IsTable

LEMMA IdleTyped == IdleCall \in Call /\ IdleHand \in Hand
BY StoreAssumption DEF IdleCall, IdleHand, Call, Hand, Job, Task, JobStatuses, TaskStatuses

LEMMA IdsGrow ==
  ASSUME NEW m \in Nat, NEW n \in Nat, m <= n, NEW e \in 1 .. m
  PROVE  e \in 1 .. n
OBVIOUS

(* An event whose ID has been given keeps it. *)
LEMMA EventStaysGiven ==
  ASSUME NEW c \in Callers, EventIsGiven(c), seq \in Nat, seq' \in Nat, seq <= seq',
         calls'[c] = calls[c]
  PROVE  EventIsGiven(c)'
BY IdsGrow DEF EventIsGiven

(* Another place of a call. *)
LEMMA CallGoesEffect ==
  ASSUME TypeOK, NEW c \in Callers, NEW pc, CallGoes(c, pc),
         pc \in {"idle", "create", "persist", "audit", "persist audit", "update", "reread"}
  PROVE  /\ calls' \in [Callers -> Call]
         /\ \A d \in Callers \ {c} : calls'[d] = calls[d]
         /\ calls'[c].pc = pc
         /\ pc # "idle" => calls'[c].id = calls[c].id /\ calls'[c].copy = calls[c].copy
<1>1. CASE pc = "idle"
  BY <1>1, IdleTyped DEF CallGoes, TypeOK, IdleCall
<1>2. CASE pc # "idle"
  <2>1. calls[c] \in Call
    BY DEF TypeOK
  <2>2. calls' = [calls EXCEPT ![c] = [calls[c] EXCEPT !.pc = pc]]
    BY <1>2 DEF CallGoes
  <2>3. [calls[c] EXCEPT !.pc = pc] \in Call
    BY <2>1 DEF Call
  <2> QED BY <2>1, <2>2, <2>3, <1>2 DEF TypeOK, Call
<1> QED BY <1>1, <1>2

-----------------------------------------------------------------------------
(* Who holds what.                                                         *)

Ownership == TypeOK /\ IdsAreGiven /\ EventsAreGiven /\ CallsOwnJobs /\ HandsHoldTasks /\ UidsApart

LEMMA OwnershipInit == ASSUME Init PROVE Ownership
<1>1. TypeOK
  BY StoreAssumption, IdleTyped, EmptyTable DEF Init, TypeOK, IdleCall
<1>2. /\ DOMAIN jobs = {} /\ DOMAIN tasks = {} /\ worker.pc = "idle"
      /\ \A c \in Callers : calls[c].pc = "idle"
      /\ \A f \in Filers : filers[f].pc = "idle"
  BY EmptyTable DEF Init, IdleCall, IdleHand
<1>3. IdsAreGiven /\ EventsAreGiven /\ CallsOwnJobs /\ HandsHoldTasks /\ UidsApart
  BY <1>2 DEF IdsAreGiven, EventsAreGiven, CallsOwnJobs, HandsHoldTasks, Holds, UidsApart,
            Active, EventIsGiven
<1> QED BY <1>1, <1>3 DEF Ownership

(* What the facts about a call give of its copy. *)
LEMMA CopyBorn ==
  ASSUME Ownership, NEW c \in Callers, Active(c)
  PROVE  /\ calls[c].id \in Ids
         /\ calls[c].id \in DOMAIN jobs
         /\ calls[c].copy \in Job
         /\ calls[c].copy.uid \in 1 .. born
BY DEF Ownership, CallsOwnJobs, UidsApart, TypeOK, Call, IsTable

LEMMA CreateJobOwns ==
  ASSUME Ownership, NEW c \in Callers, CreateJob(c)
  PROVE  Ownership'
<1>0. /\ seq \in Nat /\ seq < MaxSeq /\ born \in Nat /\ born + 1 \in Nat
      /\ calls[c] \in Call /\ DOMAIN jobs \subseteq 1 .. seq
  BY StoreAssumption DEF Ownership, CreateJob, TypeOK, IdsAreGiven
<1>key. calls[c].key \in Keys \cup {NoKey}
  BY <1>0 DEF Call
<1> DEFINE job == [uid |-> born + 1, key |-> calls[c].key, status |-> "PLANNED"]
<1> DEFINE new == [calls[c] EXCEPT !.pc = "persist", !.id = seq + 1, !.copy = job]
<1>1. /\ job \in Job /\ job.uid = born + 1
      /\ new \in Call /\ new.pc = "persist" /\ new.id = seq + 1 /\ new.copy = job
      /\ seq + 1 \in Ids /\ seq + 1 \notin DOMAIN jobs
  <2>2. seq + 1 \in Ids /\ seq + 1 \notin DOMAIN jobs
    BY <1>0, StoreAssumption DEF Ids
  <2>3. job \in Job /\ job.uid = born + 1
    BY <1>0, <1>key DEF Job, JobStatuses
  <2> HIDE DEF job
  <2>4. ASSUME NEW i \in Ids, NEW call \in Call
        PROVE  LET new1 == [call EXCEPT !.pc = "persist", !.id = i, !.copy = job]
               IN  new1 \in Call /\ new1.pc = "persist" /\ new1.id = i /\ new1.copy = job
    BY <2>3 DEF Call
  <2>5. /\ new \in Call /\ new.pc = "persist" /\ new.id = seq + 1 /\ new.copy = job
    BY <1>0, <2>2, <2>4
  <2> QED BY <2>2, <2>3, <2>5
<1>2. jobs' = Put(jobs, seq + 1, job) /\ calls' = [calls EXCEPT ![c] = new]
  BY DEF CreateJob
<1> HIDE DEF job, new
<1>3. /\ IsTable(jobs', Job) /\ DOMAIN jobs' = DOMAIN jobs \cup {seq + 1}
      /\ jobs'[seq + 1] = job
      /\ \A i \in DOMAIN jobs : jobs'[i] = jobs[i]
  <2>1. IsTable(jobs, Job)
    BY DEF Ownership, TypeOK
  <2> QED BY <1>1, <1>2, <2>1, PutTable
<1>4. /\ calls' \in [Callers -> Call] /\ calls'[c] = new
      /\ \A d \in Callers \ {c} : calls'[d] = calls[d]
  BY <1>1, <1>2 DEF Ownership, TypeOK
<1>5. TypeOK'
  <2>1. /\ seq \in Nat /\ seq < MaxSeq /\ seq' = seq + 1 /\ MaxSeq \in Nat
        /\ born \in Nat /\ born' = born + 1
        /\ dropped \cup audited \cup unlogged \subseteq 1 .. born
        /\ UNCHANGED <<tasks, rows, filers, worker, counts, dropped, audited, unlogged>>
    BY StoreAssumption DEF Ownership, TypeOK, CreateJob
  <2>2. seq' \in 0 .. MaxSeq /\ born' \in Nat
        /\ (dropped \cup audited \cup unlogged)' \subseteq 1 .. born'
    BY <2>1
  <2>3. \A d \in Callers : calls'[d].pc \notin {"idle", "create"} => calls'[d].id \in DOMAIN jobs'
    BY <1>1, <1>3, <1>4 DEF Ownership, TypeOK
  <2> QED BY <1>3, <1>4, <2>1, <2>2, <2>3 DEF Ownership, TypeOK, IsTable, rows, counts
<1>6. IdsAreGiven' /\ EventsAreGiven'
  <2>1. IdsAreGiven'
    BY <1>3 DEF Ownership, TypeOK, CreateJob, IdsAreGiven
  <2>2. EventsAreGiven'
    <3>1. seq' = seq + 1
      BY DEF CreateJob
    <3>2. EventIsGiven(c)'
      BY <1>1, <1>4 DEF EventIsGiven
    <3>3. ASSUME NEW d \in Callers \ {c} PROVE EventIsGiven(d)'
      <4>1. EventIsGiven(d) /\ calls'[d] = calls[d]
        BY <1>4 DEF Ownership, EventsAreGiven
      <4> QED BY <1>0, <3>1, <4>1, EventStaysGiven
    <3> QED BY <3>2, <3>3 DEF EventsAreGiven
  <2> QED BY <2>1, <2>2
<1>7. CallsOwnJobs'
  BY <1>1, <1>3, <1>4 DEF Ownership, CallsOwnJobs, Active
<1>8. HandsHoldTasks' /\ UidsApart'
  BY <1>1, <1>3 DEF Ownership, CreateJob, HandsHoldTasks, Holds, UidsApart, TypeOK
<1> QED BY <1>5, <1>6, <1>7, <1>8 DEF Ownership

LEMMA UpdateJobOwns ==
  ASSUME Ownership, NEW c \in Callers, UpdateJob(c)
  PROVE  Ownership'
<1> DEFINE id == calls[c].id
<1>1. PICK status \in NextStatuses(jobs[id].status) :
        jobs' = [jobs EXCEPT ![id] = [jobs[id] EXCEPT !.status = status]]
  BY DEF UpdateJob
<1> DEFINE job == [jobs[id] EXCEPT !.status = status]
<1>2. id \in DOMAIN jobs /\ jobs[id] \in Job
  BY DEF Ownership, CallsOwnJobs, Active, UpdateJob, TypeOK, IsTable
<1>3. job \in Job /\ job.uid = jobs[id].uid
  BY <1>1, <1>2 DEF Job, NextStatuses, JobStatuses
<1> HIDE DEF job
<1>4. /\ IsTable(jobs', Job) /\ DOMAIN jobs' = DOMAIN jobs
      /\ jobs'[id].uid = jobs[id].uid
      /\ \A i \in DOMAIN jobs : i # id => jobs'[i] = jobs[i]
  <2>1. IsTable(jobs, Job) /\ jobs' = [jobs EXCEPT ![id] = job]
    BY <1>1 DEF Ownership, TypeOK, job
  <2> QED BY <1>2, <1>3, <2>1 DEF IsTable
<1>5. /\ calls' \in [Callers -> Call] /\ calls'[c].pc = "reread"
      /\ calls'[c].id = id /\ calls'[c].copy = calls[c].copy
      /\ \A d \in Callers \ {c} : calls'[d] = calls[d]
  <2>1. TypeOK /\ CallGoes(c, "reread")
    BY DEF UpdateJob, Ownership
  <2> QED BY <2>1, CallGoesEffect
<1>6. TypeOK'
  BY <1>2, <1>4, <1>5 DEF Ownership, TypeOK, UpdateJob, rows, counts, aux
<1>7. IdsAreGiven' /\ EventsAreGiven' /\ HandsHoldTasks'
  <2>1. IdsAreGiven' /\ HandsHoldTasks'
    BY <1>4 DEF Ownership, UpdateJob, IdsAreGiven, HandsHoldTasks, Holds
  <2>2. EventsAreGiven'
    <3>1. UNCHANGED seq
      BY DEF UpdateJob
    <3> QED BY <1>5, <3>1 DEF Ownership, EventsAreGiven, EventIsGiven
  <2> QED BY <2>1, <2>2
<1>8. CallsOwnJobs'
  <2> SUFFICES ASSUME NEW d \in Callers, Active(d)'
               PROVE  /\ calls'[d].id \in DOMAIN jobs'
                      /\ calls'[d].copy.uid = jobs'[calls'[d].id].uid
                      /\ calls'[d].pc = "persist" => calls'[d].copy = jobs'[calls'[d].id]
                      /\ \A e \in Callers : Active(e)' /\ calls'[d].id = calls'[e].id => d = e
    BY DEF CallsOwnJobs
  <2>1. Active(c) /\ \A e \in Callers : Active(e)' => Active(e) /\ calls'[e].id = calls[e].id
    BY <1>5 DEF Active, UpdateJob
  <2>2. CASE d = c
    BY <1>2, <1>4, <1>5, <2>1, <2>2 DEF Ownership, CallsOwnJobs
  <2>3. CASE d # c
    <3>1. calls[d].id # id
      BY <2>1, <2>3 DEF Ownership, CallsOwnJobs
    <3> QED BY <1>4, <1>5, <2>1, <2>3, <3>1 DEF Ownership, CallsOwnJobs
  <2> QED BY <2>2, <2>3
<1>9. UidsApart'
  BY <1>2, <1>4 DEF Ownership, UpdateJob, UidsApart, aux
<1> QED BY <1>6, <1>7, <1>8, <1>9 DEF Ownership

(* A step that writes no job or task and moves one call at most, which     *)
(* keeps its copy or takes a fresh one.                                    *)
LEMMA CallMoves ==
  ASSUME Ownership, NEW c \in Callers,
         UNCHANGED <<jobs, tasks, filers, worker, born>>,
         seq' \in seq .. MaxSeq,
         calls' \in [Callers -> Call],
         \A d \in Callers \ {c} : calls'[d] = calls[d],
         \/ ~Active(c)'
         \/ /\ Active(c) /\ calls'[c].id = calls[c].id
            /\ \/ calls'[c].copy = calls[c].copy /\ calls'[c].pc # "persist"
               \/ calls'[c].copy = jobs[calls[c].id],
         IsTable(jobRows', Job) /\ IsTable(auditRows', Nat) /\ IsTable(taskRows', Task),
         EventIsGiven(c)',
         restarts' = restarts /\ failures' \in 0 .. MaxFailures,
         (dropped \cup audited \cup unlogged)' \subseteq 1 .. born
  PROVE  Ownership'
<1>0. seq \in Nat /\ seq' \in Nat /\ seq <= seq' /\ seq' <= MaxSeq
  BY StoreAssumption DEF Ownership, TypeOK
<1>1. IdsAreGiven' /\ EventsAreGiven'
  <2>1. IdsAreGiven'
    BY <1>0 DEF Ownership, IdsAreGiven
  <2>2. ASSUME NEW d \in Callers \ {c} PROVE EventIsGiven(d)'
    <3>1. EventIsGiven(d) /\ calls'[d] = calls[d]
      BY DEF Ownership, EventsAreGiven
    <3> QED BY <1>0, <3>1, EventStaysGiven
  <2> QED BY <2>1, <2>2 DEF EventsAreGiven
<1>2. HandsHoldTasks' /\ UidsApart'
  BY DEF Ownership, HandsHoldTasks, Holds, UidsApart
<1>3. CallsOwnJobs'
  BY DEF Ownership, CallsOwnJobs, Active
<1>4. TypeOK'
  <2>1. \A d \in Callers : calls'[d].pc \notin {"idle", "create"} => calls'[d].id \in DOMAIN jobs'
    BY <1>3 DEF CallsOwnJobs, Active
  <2>2. seq' \in 0 .. MaxSeq
    BY <1>0, StoreAssumption
  <2> QED BY <2>1, <2>2 DEF Ownership, TypeOK
<1> QED BY <1>1, <1>2, <1>3, <1>4 DEF Ownership

(* A write that fails. *)
LEMMA FailsEffect == TypeOK /\ Fails => failures' \in 0 .. MaxFailures
BY StoreAssumption DEF TypeOK, Fails

LEMMA LookupMissOwns ==
  ASSUME Ownership, NEW c \in Callers, NEW k \in Keys \cup {NoKey}, LookupMiss(c, k)
  PROVE  Ownership'
<1> DEFINE new == [IdleCall EXCEPT !.pc = "create", !.key = k]
<1>1. new \in Call /\ new.pc = "create"
  BY IdleTyped DEF Call
<1>2. calls' = [calls EXCEPT ![c] = new]
  BY DEF LookupMiss
<1> HIDE DEF new
<1>3. /\ calls' \in [Callers -> Call] /\ calls'[c] = new
      /\ \A d \in Callers \ {c} : calls'[d] = calls[d]
  BY <1>1, <1>2 DEF Ownership, TypeOK
<1>4. ~Active(c)' /\ EventIsGiven(c)'
  BY <1>1, <1>3 DEF Active, EventIsGiven
<1>5. /\ seq' \in seq .. MaxSeq /\ restarts' = restarts /\ failures' \in 0 .. MaxFailures
      /\ (dropped \cup audited \cup unlogged)' \subseteq 1 .. born
      /\ IsTable(jobRows', Job) /\ IsTable(auditRows', Nat) /\ IsTable(taskRows', Task)
      /\ UNCHANGED <<jobs, tasks, filers, worker, born>>
  BY StoreAssumption
  DEF Ownership, TypeOK, IsTable, LookupMiss, memory, rows, counts, aux
<1> QED BY <1>1, <1>3, <1>4, <1>5, CallMoves

LEMMA PersistJobOwns ==
  ASSUME Ownership, NEW c \in Callers, PersistJob(c)
  PROVE  Ownership'
<1>1. /\ Active(c) /\ calls[c].id \in Ids /\ calls[c].copy \in Job
      /\ calls[c].copy.uid \in 1 .. born
      /\ calls[c].copy = jobs[calls[c].id]
  <2>1. Active(c)
    BY DEF PersistJob, Active
  <2> QED BY <2>1, CopyBorn DEF Ownership, CallsOwnJobs, PersistJob
<1>2. AfterPersist(calls[c].copy.status) \in {"audit", "update", "idle"}
  BY DEF AfterPersist
<1>3. /\ calls' \in [Callers -> Call]
      /\ \A d \in Callers \ {c} : calls'[d] = calls[d]
      /\ calls'[c].pc = AfterPersist(calls[c].copy.status)
      /\ calls'[c].pc # "idle" => calls'[c].id = calls[c].id /\ calls'[c].copy = calls[c].copy
  BY <1>2, CallGoesEffect DEF PersistJob, Ownership
<1>4. IsTable(jobRows', Job) /\ failures' \in 0 .. MaxFailures
  <2>1. CASE jobRows' = Put(jobRows, calls[c].id, calls[c].copy) /\ UNCHANGED failures
    <3>1. IsTable(jobRows, Job)
      BY DEF Ownership, TypeOK
    <3> QED BY <1>1, <2>1, <3>1, PutTable DEF Ownership, TypeOK
  <2>2. CASE UNCHANGED jobRows /\ (Fails \/ UNCHANGED failures)
    BY <2>2, FailsEffect DEF Ownership, TypeOK, IsTable
  <2> QED BY <2>1, <2>2 DEF PersistJob
<1>5. /\ dropped' \subseteq dropped \cup {calls[c].copy.uid}
      /\ UNCHANGED <<memory, auditRows, taskRows, filers, worker, restarts, born, audited,
                     unlogged>>
  BY DEF PersistJob
<1>6. /\ seq' \in seq .. MaxSeq
      /\ (dropped \cup audited \cup unlogged)' \subseteq 1 .. born
      /\ IsTable(auditRows', Nat) /\ IsTable(taskRows', Task)
  BY <1>1, <1>5, StoreAssumption DEF Ownership, TypeOK, IsTable, memory
<1>7. EventIsGiven(c)'
  BY <1>2, <1>3 DEF EventIsGiven
<1>8. \/ ~Active(c)'
      \/ calls'[c].id = calls[c].id /\ calls'[c].copy = calls[c].copy /\ calls'[c].pc # "persist"
  BY <1>2, <1>3 DEF Active
<1>9. UNCHANGED <<jobs, tasks, filers, worker, born, restarts>>
  BY <1>5 DEF memory
<1> QED BY <1>1, <1>3, <1>4, <1>6, <1>7, <1>9, <1>8, CallMoves

LEMMA AddAuditOwns ==
  ASSUME Ownership, NEW c \in Callers, AddAudit(c)
  PROVE  Ownership'
<1>1. /\ Active(c) /\ calls[c] \in Call /\ seq \in Nat /\ seq < MaxSeq /\ seq' = seq + 1
      /\ seq + 1 \in Ids
  BY StoreAssumption DEF Ownership, TypeOK, AddAudit, Active, Ids
<1> DEFINE new == [calls[c] EXCEPT !.pc = "persist audit", !.event = seq + 1]
<1>2. ASSUME NEW i \in Ids, NEW call \in Call
      PROVE  LET new1 == [call EXCEPT !.pc = "persist audit", !.event = i]
             IN  /\ new1 \in Call /\ new1.pc = "persist audit" /\ new1.event = i
                 /\ new1.id = call.id /\ new1.copy = call.copy
  BY DEF Call
<1>3. /\ new \in Call /\ new.pc = "persist audit" /\ new.event = seq + 1
      /\ new.id = calls[c].id /\ new.copy = calls[c].copy
  BY <1>1, <1>2
<1>4. calls' = [calls EXCEPT ![c] = new]
  BY DEF AddAudit
<1> HIDE DEF new
<1>5. /\ calls' \in [Callers -> Call] /\ calls'[c] = new
      /\ \A d \in Callers \ {c} : calls'[d] = calls[d]
  BY <1>3, <1>4 DEF Ownership, TypeOK
<1>6. /\ restarts' = restarts /\ failures' \in 0 .. MaxFailures
      /\ (dropped \cup audited \cup unlogged)' \subseteq 1 .. born
      /\ IsTable(jobRows', Job) /\ IsTable(auditRows', Nat) /\ IsTable(taskRows', Task)
      /\ UNCHANGED <<jobs, tasks, filers, worker, born>>
  BY DEF Ownership, TypeOK, IsTable, AddAudit, rows, counts, aux
<1>7. seq' \in seq .. MaxSeq /\ seq + 1 \in 1 .. seq'
  BY <1>1, StoreAssumption
<1>8. EventIsGiven(c)'
  BY <1>3, <1>5, <1>7 DEF EventIsGiven
<1> QED BY <1>1, <1>3, <1>5, <1>6, <1>7, <1>8, CallMoves

LEMMA PersistAuditOwns ==
  ASSUME Ownership, NEW c \in Callers, PersistAudit(c)
  PROVE  Ownership'
<1>1. /\ Active(c) /\ calls[c].event \in {0} \cup Ids /\ calls[c].copy.uid \in 1 .. born
  <2>1. Active(c) /\ calls[c] \in Call
    BY DEF PersistAudit, Active, Ownership, TypeOK
  <2> QED BY <2>1, CopyBorn DEF Call
<1>2. /\ calls' \in [Callers -> Call]
      /\ \A d \in Callers \ {c} : calls'[d] = calls[d]
      /\ calls'[c].pc = "update"
      /\ calls'[c].id = calls[c].id /\ calls'[c].copy = calls[c].copy
  BY CallGoesEffect DEF PersistAudit, Ownership
<1>3. IsTable(auditRows', Nat) /\ failures' \in 0 .. MaxFailures
  <2>1. CASE auditRows' = Put(auditRows, calls[c].event, calls[c].copy.uid) /\ UNCHANGED failures
    <3>1. IsTable(auditRows, Nat) /\ calls[c].copy.uid \in Nat
      BY <1>1 DEF Ownership, TypeOK
    <3>2. calls[c].event \in Ids
      <4>1. /\ seq \in Nat /\ seq <= MaxSeq
        BY StoreAssumption DEF Ownership, TypeOK
      <4>2. calls[c].pc = "persist audit" /\ EventIsGiven(c)
        BY DEF Ownership, EventsAreGiven, PersistAudit
      <4>3. calls[c].event \in 1 .. seq
        BY <4>2 DEF EventIsGiven
      <4> QED BY <4>1, <4>3, StoreAssumption, IdsGrow DEF Ids
    <3> QED BY <1>1, <2>1, <3>1, <3>2, PutTable DEF Ownership, TypeOK
  <2>2. CASE UNCHANGED auditRows /\ (Fails \/ UNCHANGED failures)
    BY <2>2, FailsEffect DEF Ownership, TypeOK, IsTable
  <2> QED BY <2>1, <2>2 DEF PersistAudit
<1>4. /\ (audited \cup unlogged)' \subseteq audited \cup unlogged \cup {calls[c].copy.uid}
      /\ UNCHANGED <<memory, jobRows, taskRows, filers, worker, restarts, born, dropped>>
  BY DEF PersistAudit
<1>5. /\ seq' \in seq .. MaxSeq
      /\ (dropped \cup audited \cup unlogged)' \subseteq 1 .. born
      /\ IsTable(jobRows', Job) /\ IsTable(taskRows', Task)
  BY <1>1, <1>4, StoreAssumption DEF Ownership, TypeOK, IsTable, memory
<1>6. UNCHANGED <<jobs, tasks, filers, worker, born, restarts>>
  BY <1>4 DEF memory
<1>7. EventIsGiven(c)'
  BY <1>2 DEF EventIsGiven
<1> QED BY <1>1, <1>2, <1>3, <1>5, <1>6, <1>7, CallMoves

LEMMA GetJobOwns ==
  ASSUME Ownership, NEW c \in Callers, GetJob(c)
  PROVE  Ownership'
<1>1. /\ Active(c) /\ calls[c] \in Call /\ jobs[calls[c].id] \in Job
  <2>1. Active(c) /\ calls[c] \in Call
    BY DEF GetJob, Active, Ownership, TypeOK
  <2> QED BY <2>1, CopyBorn DEF Ownership, TypeOK, IsTable
<1> DEFINE new == [calls[c] EXCEPT !.pc = "persist", !.copy = jobs[calls[c].id]]
<1>2. ASSUME NEW job \in Job, NEW call \in Call
      PROVE  LET new1 == [call EXCEPT !.pc = "persist", !.copy = job]
             IN  /\ new1 \in Call /\ new1.pc = "persist"
                 /\ new1.id = call.id /\ new1.copy = job
  BY DEF Call
<1>3. /\ new \in Call /\ new.pc = "persist"
      /\ new.id = calls[c].id /\ new.copy = jobs[calls[c].id]
  BY <1>1, <1>2
<1>4. calls' = [calls EXCEPT ![c] = new]
  BY DEF GetJob
<1> HIDE DEF new
<1>5. /\ calls' \in [Callers -> Call] /\ calls'[c] = new
      /\ \A d \in Callers \ {c} : calls'[d] = calls[d]
  BY <1>3, <1>4 DEF Ownership, TypeOK
<1>6. /\ restarts' = restarts /\ failures' \in 0 .. MaxFailures
      /\ (dropped \cup audited \cup unlogged)' \subseteq 1 .. born
      /\ IsTable(jobRows', Job) /\ IsTable(auditRows', Nat) /\ IsTable(taskRows', Task)
      /\ UNCHANGED <<jobs, tasks, filers, worker, born>>
      /\ seq' \in seq .. MaxSeq
  BY StoreAssumption DEF Ownership, TypeOK, IsTable, GetJob, memory, rows, counts, aux
<1>7. EventIsGiven(c)'
  BY <1>3, <1>5 DEF EventIsGiven
<1> QED BY <1>1, <1>3, <1>5, <1>6, <1>7, CallMoves

(* A step that leaves jobs and calls alone. *)
LEMMA HandsMove ==
  ASSUME Ownership,
         UNCHANGED <<jobs, jobRows, auditRows, calls, restarts, audited, unlogged>>,
         IsTable(tasks', Task) /\ IsTable(taskRows', Task),
         seq' \in seq .. MaxSeq, born \in 0 .. born' /\ born' \in Nat,
         DOMAIN tasks' \subseteq 1 .. seq',
         \A i \in DOMAIN tasks' :
           \/ i \in DOMAIN tasks /\ tasks'[i].uid = tasks[i].uid
           \/ tasks'[i].uid \in (born + 1) .. born',
         filers' \in [Filers -> Hand] /\ worker' \in Hand,
         HandsHoldTasks',
         failures' \in 0 .. MaxFailures, dropped' \subseteq 1 .. born'
  PROVE  Ownership'
<1>0. /\ seq \in Nat /\ seq' \in Nat /\ seq <= seq' /\ seq' <= MaxSeq
      /\ born \in Nat /\ born' \in Nat /\ born <= born'
  BY StoreAssumption DEF Ownership, TypeOK
<1>1. IdsAreGiven'
  BY <1>0 DEF Ownership, IdsAreGiven
<1>2. EventsAreGiven'
  BY <1>0, EventStaysGiven DEF Ownership, EventsAreGiven
<1>3. CallsOwnJobs'
  BY DEF Ownership, CallsOwnJobs, Active
<1>5. UidsApart'
  <2>1. /\ \A i \in DOMAIN jobs : jobs[i].uid \in 1 .. born'
        /\ \A i, j \in DOMAIN jobs : jobs[i].uid = jobs[j].uid => i = j
    BY <1>0 DEF Ownership, UidsApart
  <2>2. ASSUME NEW i \in DOMAIN tasks'
        PROVE  tasks'[i].uid \in 1 .. born' /\ \A j \in DOMAIN jobs : jobs[j].uid # tasks'[i].uid
    <3>1. CASE i \in DOMAIN tasks /\ tasks'[i].uid = tasks[i].uid
      BY <1>0, <3>1 DEF Ownership, UidsApart
    <3>2. CASE tasks'[i].uid \in (born + 1) .. born'
      BY <1>0, <3>2 DEF Ownership, UidsApart
    <3> QED BY <3>1, <3>2
  <2> QED BY <2>1, <2>2 DEF UidsApart
<1>6. TypeOK'
  <2>1. seq' \in 0 .. MaxSeq
    BY <1>0
  <2>2. (dropped \cup audited \cup unlogged)' \subseteq 1 .. born'
    <3>1. audited \cup unlogged \subseteq 1 .. born /\ UNCHANGED <<audited, unlogged>>
      BY DEF Ownership, TypeOK
    <3>2. 1 .. born \subseteq 1 .. born'
      BY <1>0
    <3> QED BY <3>1, <3>2
  <2> QED BY <1>0, <2>1, <2>2 DEF Ownership, TypeOK, IsTable
<1> QED BY <1>1, <1>2, <1>3, <1>5, <1>6 DEF Ownership

LEMMA CreateAgentTaskOwns ==
  ASSUME Ownership, NEW f \in Filers, CreateAgentTask(f)
  PROVE  Ownership'
<1>0. /\ seq \in Nat /\ seq < MaxSeq /\ seq' = seq + 1 /\ born \in Nat /\ born' = born + 1
      /\ DOMAIN tasks \subseteq 1 .. seq /\ MaxSeq \in Nat
  BY StoreAssumption DEF Ownership, TypeOK, CreateAgentTask, IdsAreGiven
<1>1. /\ seq + 1 \in Ids /\ seq + 1 \notin DOMAIN tasks /\ seq' \in seq .. MaxSeq
      /\ born \in 0 .. born' /\ born' \in Nat /\ born + 1 \in (born + 1) .. born'
      /\ DOMAIN tasks \cup {seq + 1} \subseteq 1 .. seq'
  BY <1>0 DEF Ids
<1> DEFINE task == [uid |-> born + 1, status |-> "QUEUED"]
<1> DEFINE hand == [pc |-> "persist", id |-> seq + 1, copy |-> task]
<1>2. task \in Task /\ task.uid = born + 1
  BY <1>0 DEF Task, TaskStatuses
<1>3. tasks' = Put(tasks, seq + 1, task) /\ filers' = [filers EXCEPT ![f] = hand]
  BY DEF CreateAgentTask
<1> HIDE DEF task
<1>4. hand \in Hand /\ hand.id = seq + 1 /\ hand.copy = task
  BY <1>1, <1>2 DEF Hand
<1> HIDE DEF hand
<1>5. /\ IsTable(tasks', Task) /\ DOMAIN tasks' = DOMAIN tasks \cup {seq + 1}
      /\ tasks'[seq + 1] = task /\ \A i \in DOMAIN tasks : tasks'[i] = tasks[i]
  <2>1. IsTable(tasks, Task)
    BY DEF Ownership, TypeOK
  <2> QED BY <1>1, <1>2, <1>3, <2>1, PutTable
<1>6. /\ filers' \in [Filers -> Hand] /\ filers'[f] = hand
      /\ \A g \in Filers \ {f} : filers'[g] = filers[g]
  BY <1>3, <1>4 DEF Ownership, TypeOK
<1>7. HandsHoldTasks'
  <2>1. Holds(filers[f])'
    BY <1>2, <1>4, <1>5, <1>6 DEF Holds
  <2>2. ASSUME NEW g \in Filers \ {f} PROVE Holds(filers[g])'
    <3>1. Holds(filers[g])
      BY DEF Ownership, HandsHoldTasks
    <3> QED BY <1>5, <1>6, <1>0, <3>1 DEF Holds
  <2>3. Holds(worker)'
    <3>1. Holds(worker) /\ worker' = worker
      BY DEF Ownership, HandsHoldTasks, CreateAgentTask
    <3> QED BY <1>5, <1>0, <3>1 DEF Holds
  <2> QED BY <2>1, <2>2, <2>3 DEF HandsHoldTasks
<1>8. UNCHANGED <<jobs, jobRows, auditRows, taskRows, calls, restarts, failures, worker,
                   dropped, audited, unlogged>>
  BY DEF CreateAgentTask, rows, counts
<1>9. IsTable(taskRows', Task) /\ worker' \in Hand /\ failures' \in 0 .. MaxFailures
      /\ dropped' \subseteq 1 .. born'
  BY <1>0, <1>8 DEF Ownership, TypeOK, IsTable
<1>10. \A i \in DOMAIN tasks' :
         \/ i \in DOMAIN tasks /\ tasks'[i].uid = tasks[i].uid
         \/ tasks'[i].uid \in (born + 1) .. born'
  BY <1>1, <1>2, <1>5
<1>11. DOMAIN tasks' \subseteq 1 .. seq'
  BY <1>1, <1>5
<1> QED BY <1>1, <1>5, <1>6, <1>7, <1>8, <1>9, <1>10, <1>11, HandsMove

(* The worker gives a task another status and is to write it. *)
LEMMA WorkerUpdates ==
  ASSUME Ownership, NEW id \in DOMAIN tasks, NEW task \in Task, task.uid = tasks[id].uid,
         tasks' = [tasks EXCEPT ![id] = task],
         worker' \in Hand, worker'.id = id, worker'.copy = task,
         UNCHANGED <<seq, jobs, rows, calls, filers, counts, aux>>
  PROVE  Ownership'
<1>0. seq \in Nat /\ seq <= MaxSeq /\ born \in Nat
  BY StoreAssumption DEF Ownership, TypeOK
<1>1. /\ IsTable(tasks', Task) /\ DOMAIN tasks' = DOMAIN tasks
      /\ \A i \in DOMAIN tasks : tasks'[i].uid = tasks[i].uid
  <2>1. IsTable(tasks, Task)
    BY DEF Ownership, TypeOK
  <2> QED BY <2>1, ExceptTable
<1>2. HandsHoldTasks'
  <2>1. Holds(worker)'
    BY <1>1 DEF Holds
  <2>2. ASSUME NEW f \in Filers PROVE Holds(filers[f])'
    <3>1. Holds(filers[f])
      BY DEF Ownership, HandsHoldTasks
    <3> QED BY <1>1, <3>1 DEF Holds
  <2> QED BY <2>1, <2>2 DEF HandsHoldTasks
<1>3. seq' \in seq .. MaxSeq /\ born \in 0 .. born' /\ born' \in Nat
  BY <1>0, StoreAssumption DEF aux
<1>4. DOMAIN tasks' \subseteq 1 .. seq'
  BY <1>1 DEF Ownership, IdsAreGiven
<1>5. /\ UNCHANGED <<jobs, jobRows, auditRows, calls, restarts, audited, unlogged>>
      /\ IsTable(taskRows', Task) /\ filers' \in [Filers -> Hand]
      /\ failures' \in 0 .. MaxFailures /\ dropped' \subseteq 1 .. born'
  BY DEF Ownership, TypeOK, IsTable, rows, counts, aux
<1> QED BY <1>1, <1>2, <1>3, <1>4, <1>5, HandsMove

LEMMA ClaimOwns ==
  ASSUME Ownership, ClaimNextAgentTask
  PROVE  Ownership'
<1>1. PICK id \in {i \in DOMAIN tasks : tasks[i].status = "QUEUED"} :
        LET task == [tasks[id] EXCEPT !.status = "RUNNING"]
        IN  /\ tasks' = [tasks EXCEPT ![id] = task]
            /\ worker' = [pc |-> "persist", id |-> id, copy |-> task]
  BY DEF ClaimNextAgentTask
<1> DEFINE task == [tasks[id] EXCEPT !.status = "RUNNING"]
<1>2. id \in Ids /\ tasks[id] \in Task
  BY DEF Ownership, TypeOK, IsTable
<1>3. task \in Task /\ task.uid = tasks[id].uid
  BY <1>2 DEF Task, TaskStatuses
<1>4. tasks' = [tasks EXCEPT ![id] = task] /\ worker' = [pc |-> "persist", id |-> id, copy |-> task]
  BY <1>1
<1> HIDE DEF task
<1>5. worker' \in Hand /\ worker'.id = id /\ worker'.copy = task
  BY <1>2, <1>3, <1>4 DEF Hand
<1>6. UNCHANGED <<seq, jobs, rows, calls, filers, counts, aux>>
  BY DEF ClaimNextAgentTask
<1> QED BY <1>3, <1>4, <1>5, <1>6, WorkerUpdates

LEMMA CompleteOwns ==
  ASSUME Ownership, CompleteAgentTask
  PROVE  Ownership'
<1>1. PICK status \in {"COMPLETED", "FAILED"} :
        LET task == [tasks[worker.id] EXCEPT !.status = status]
        IN  /\ tasks' = [tasks EXCEPT ![worker.id] = task]
            /\ worker' = [worker EXCEPT !.pc = "persist", !.copy = task]
  BY DEF CompleteAgentTask
<1> DEFINE task == [tasks[worker.id] EXCEPT !.status = status]
<1>2. worker \in Hand /\ worker.id \in DOMAIN tasks /\ tasks[worker.id] \in Task
  BY DEF Ownership, HandsHoldTasks, Holds, CompleteAgentTask, TypeOK, IsTable
<1>3. task \in Task /\ task.uid = tasks[worker.id].uid
  BY <1>2 DEF Task, TaskStatuses
<1>4. /\ tasks' = [tasks EXCEPT ![worker.id] = task]
      /\ worker' = [worker EXCEPT !.pc = "persist", !.copy = task]
  BY <1>1
<1> HIDE DEF task
<1>5. worker' \in Hand /\ worker'.id = worker.id /\ worker'.copy = task
  BY <1>2, <1>3, <1>4 DEF Hand
<1>6. UNCHANGED <<seq, jobs, rows, calls, filers, counts, aux>>
  BY DEF CompleteAgentTask
<1> QED BY <1>2, <1>3, <1>4, <1>5, <1>6, WorkerUpdates

(* The write of a task, whatever becomes of the goroutine that makes it. *)
LEMMA PersistTaskOwns ==
  ASSUME Ownership, NEW hand \in Hand, Holds(hand), PersistTask(hand),
         worker' \in Hand, filers' \in [Filers -> Hand], HandsHoldTasks'
  PROVE  Ownership'
<1>1. /\ hand.id \in Ids /\ hand.id \in DOMAIN tasks /\ hand.copy \in Task
      /\ hand.copy.uid \in 1 .. born
  <2>1. hand.id \in DOMAIN tasks /\ hand.copy.uid = tasks[hand.id].uid
    BY DEF PersistTask, Holds
  <2>2. hand.copy \in Task
    BY DEF Hand
  <2> QED BY <2>1, <2>2 DEF Ownership, TypeOK, IsTable, UidsApart
<1>2. IsTable(taskRows', Task) /\ failures' \in 0 .. MaxFailures
  <2>1. CASE taskRows' = Put(taskRows, hand.id, hand.copy) /\ UNCHANGED failures
    <3>1. IsTable(taskRows, Task)
      BY DEF Ownership, TypeOK
    <3> QED BY <1>1, <2>1, <3>1, PutTable DEF Ownership, TypeOK
  <2>2. CASE UNCHANGED taskRows /\ Fails
    BY <2>2, FailsEffect DEF Ownership, TypeOK, IsTable
  <2> QED BY <2>1, <2>2 DEF PersistTask
<1>3. /\ dropped' \subseteq dropped \cup {hand.copy.uid}
      /\ UNCHANGED <<memory, jobRows, auditRows, calls, restarts, born, audited, unlogged>>
  BY DEF PersistTask
<1>4. seq \in Nat /\ seq <= MaxSeq /\ born \in Nat /\ dropped \subseteq 1 .. born
  BY StoreAssumption DEF Ownership, TypeOK
<1>5. /\ UNCHANGED <<seq, jobs, tasks, jobRows, auditRows, calls, restarts, born, audited,
                     unlogged>>
      /\ dropped' \subseteq 1 .. born'
  BY <1>1, <1>3, <1>4 DEF memory
<1>6. seq' \in seq .. MaxSeq /\ born \in 0 .. born' /\ born' \in Nat
  BY <1>4, <1>5, StoreAssumption
<1>7. IsTable(tasks', Task) /\ DOMAIN tasks' \subseteq 1 .. seq'
  BY <1>5 DEF Ownership, TypeOK, IsTable, IdsAreGiven
<1> QED BY <1>2, <1>5, <1>6, <1>7, HandsMove

LEMMA PersistFiledOwns ==
  ASSUME Ownership, NEW f \in Filers, PersistFiled(f)
  PROVE  Ownership'
<1>1. filers[f] \in Hand /\ Holds(filers[f]) /\ PersistTask(filers[f])
  BY DEF PersistFiled, Ownership, TypeOK, HandsHoldTasks
<1>2. /\ worker' \in Hand /\ filers' \in [Filers -> Hand] /\ filers'[f].pc = "idle"
      /\ \A g \in Filers \ {f} : filers'[g] = filers[g]
      /\ UNCHANGED <<tasks, worker>>
  BY IdleTyped DEF PersistFiled, PersistTask, Ownership, TypeOK, memory, IdleHand
<1>3. HandsHoldTasks'
  BY <1>2 DEF Ownership, HandsHoldTasks, Holds
<1> QED BY <1>1, <1>2, <1>3, PersistTaskOwns

LEMMA PersistWorkedOwns ==
  ASSUME Ownership, PersistWorked
  PROVE  Ownership'
<1>1. worker \in Hand /\ Holds(worker) /\ PersistTask(worker)
  BY DEF PersistWorked, Ownership, TypeOK, HandsHoldTasks
<1>2. UNCHANGED <<tasks, filers>> /\ worker.pc = "persist"
  BY DEF PersistWorked, PersistTask, memory
<1>3. /\ worker' \in Hand
      /\ \/ worker'.pc = "idle"
         \/ worker'.id = worker.id /\ worker'.copy = worker.copy
  <2>1. CASE worker' = [worker EXCEPT !.pc = "complete"]
    BY <1>1, <2>1 DEF Hand
  <2>2. CASE worker' = IdleHand
    BY <2>2, IdleTyped DEF IdleHand
  <2> QED BY <2>1, <2>2 DEF PersistWorked
<1>4. HandsHoldTasks' /\ filers' \in [Filers -> Hand]
  BY <1>1, <1>2, <1>3 DEF Ownership, HandsHoldTasks, Holds, TypeOK
<1> QED BY <1>1, <1>3, <1>4, PersistTaskOwns

LEMMA RestartOwns ==
  ASSUME Ownership, Restart
  PROVE  Ownership'
<1>1. /\ jobs' = <<>> /\ tasks' = <<>> /\ worker'.pc = "idle" /\ seq' = 0
      /\ \A c \in Callers : calls'[c].pc = "idle"
      /\ \A f \in Filers : filers'[f].pc = "idle"
      /\ calls' \in [Callers -> Call] /\ filers' \in [Filers -> Hand] /\ worker' \in Hand
  BY IdleTyped DEF Restart, IdleCall, IdleHand
<1>2. DOMAIN jobs' = {} /\ DOMAIN tasks' = {} /\ IsTable(jobs', Job) /\ IsTable(tasks', Task)
  BY <1>1, EmptyTable
<1>3. IdsAreGiven' /\ EventsAreGiven' /\ CallsOwnJobs' /\ HandsHoldTasks' /\ UidsApart'
  BY <1>1, <1>2 DEF IdsAreGiven, EventsAreGiven, CallsOwnJobs, HandsHoldTasks, Holds, UidsApart,
     Active, EventIsGiven
<1>4. TypeOK'
  <2>1. seq' \in 0 .. MaxSeq /\ restarts' \in 0 .. MaxRestarts
    BY <1>1, StoreAssumption DEF Restart, Ownership, TypeOK
  <2>2. /\ dropped' = {}
        /\ UNCHANGED <<jobRows, auditRows, taskRows, failures, born, audited, unlogged>>
    BY DEF Restart, rows
  <2> QED BY <1>1, <1>2, <2>1, <2>2 DEF Ownership, TypeOK, IsTable
<1> QED BY <1>3, <1>4 DEF Ownership

LEMMA OwnershipStep ==
  ASSUME Ownership, [Next]_vars
  PROVE  Ownership'
<1>1. ASSUME NEW c \in Callers, NEW k \in Keys \cup {NoKey}, LookupMiss(c, k)
      PROVE  Ownership'
  BY <1>1, LookupMissOwns
<1>2. ASSUME NEW c \in Callers, CreateJob(c) \/ UpdateJob(c) PROVE Ownership'
  BY <1>2, CreateJobOwns, UpdateJobOwns
<1>3. ASSUME NEW c \in Callers,
             PersistJob(c) \/ AddAudit(c) \/ PersistAudit(c) \/ GetJob(c)
      PROVE  Ownership'
  BY <1>3, PersistJobOwns, AddAuditOwns, PersistAuditOwns, GetJobOwns
<1>4. ASSUME NEW f \in Filers, CreateAgentTask(f) \/ PersistFiled(f) PROVE Ownership'
  BY <1>4, CreateAgentTaskOwns, PersistFiledOwns
<1>5. CASE ClaimNextAgentTask \/ CompleteAgentTask \/ PersistWorked
  BY <1>5, ClaimOwns, CompleteOwns, PersistWorkedOwns
<1>6. CASE Restart
  BY <1>6, RestartOwns
<1>7. CASE UNCHANGED vars
  BY <1>7
  DEF vars, memory, rows, counts, aux, Ownership, TypeOK, IsTable, IdsAreGiven, EventsAreGiven,
      EventIsGiven, CallsOwnJobs, HandsHoldTasks, Holds, UidsApart, Active
<1> QED BY <1>1, <1>2, <1>3, <1>4, <1>5, <1>6, <1>7 DEF Next

LEMMA OwnershipHolds == Spec => []Ownership
<1>1. Init => Ownership
  BY OwnershipInit
<1>2. Ownership /\ [Next]_vars => Ownership'
  BY OwnershipStep
<1> QED BY <1>1, <1>2, PTL DEF Spec

(* Every variable keeps its type, and no goroutine ever writes a job that  *)
(* the tables in memory do not have (postgres.go:262-274).                 *)
THEOREM TypeCorrect == Spec => []TypeOK
<1>1. Ownership => TypeOK
  BY DEF Ownership
<1> QED BY <1>1, OwnershipHolds, PTL

-----------------------------------------------------------------------------
(* The audit log.                                                          *)

(* An event in the database stays as it is: PersistAudit alone writes the  *)
(* table, and never at an ID that is taken.                                *)
LEMMA AuditRowsStep ==
  ASSUME Ownership, [Next]_vars
  PROVE  /\ \A e \in DOMAIN auditRows : e \in DOMAIN auditRows' /\ auditRows'[e] = auditRows[e]
         /\ unlogged \subseteq unlogged'
<1>1. CASE UNCHANGED <<auditRows, unlogged>>
  BY <1>1
<1>2. ASSUME NEW c \in Callers, PersistAudit(c)
      PROVE  /\ \A e \in DOMAIN auditRows :
                  e \in DOMAIN auditRows' /\ auditRows'[e] = auditRows[e]
             /\ unlogged \subseteq unlogged'
  BY <1>2 DEF PersistAudit, Put
<1>3. (\E c \in Callers : PersistAudit(c)) \/ UNCHANGED <<auditRows, unlogged>>
  BY DEF Next, vars, rows, aux, LookupMiss, CreateJob, PersistJob, AddAudit, UpdateJob, GetJob,
         CreateAgentTask, PersistFiled, PersistWorked, PersistTask, ClaimNextAgentTask,
         CompleteAgentTask, Restart
<1> QED BY <1>1, <1>2, <1>3

(* Nothing takes an event of the audit log back, restarts that give its ID *)
(* again included (postgres.go:161-171).                                   *)
THEOREM EventsStay == Spec => AuditRowsStay
<1>1. Ownership /\ [Next]_vars =>
        [\A e \in DOMAIN auditRows : e \in DOMAIN auditRows' /\ auditRows'[e] = auditRows[e]]_vars
  BY AuditRowsStep
<1> QED BY <1>1, OwnershipHolds, PTL DEF Spec, AuditRowsStay

(* Audited, of the next state. *)
AuditedThen(uid) == uid \in unlogged' \/ \E e \in DOMAIN auditRows' : auditRows'[e] = uid

LEMMA AuditedStays ==
  ASSUME Ownership, [Next]_vars, NEW uid, Audited(uid)
  PROVE  AuditedThen(uid)
BY AuditRowsStep DEF Audited, AuditedThen

(* How a call gets from one place to another. *)
CallStep(c) ==
  \/ calls'[c] = calls[c]
  \/ /\ calls'[c].pc \in {"idle", "create"}
     /\ Restart \/ PersistJob(c) \/ calls[c].pc = "idle"
  \/ /\ calls[c].pc = "create"
     /\ calls'[c].pc = "persist" /\ calls'[c].copy.status = "PLANNED"
  \/ /\ calls'[c].id = calls[c].id
     /\ calls'[c].copy.uid = calls[c].copy.uid
     /\ \/ PersistJob(c) /\ calls[c].copy.status = "PLANNED" /\ calls'[c].pc = "audit"
        \/ PersistJob(c) /\ calls[c].copy.status # "PLANNED" /\ calls'[c].pc = "update"
        \/ calls[c].pc = "audit" /\ calls'[c].pc = "persist audit"
        \/ PersistAudit(c) /\ calls'[c].pc = "update"
        \/ calls[c].pc = "update" /\ calls'[c].pc = "reread"
        \/ calls[c].pc = "reread" /\ calls'[c].pc = "persist"

LEMMA CallSteps ==
  ASSUME Ownership, [Next]_vars, NEW c \in Callers
  PROVE  CallStep(c)
<1>0. TypeOK /\ calls \in [Callers -> Call] /\ calls[c] \in Call
  BY DEF Ownership, TypeOK
<1>1. CASE UNCHANGED calls
  BY <1>1 DEF CallStep
<1>2. CASE Restart
  BY <1>2 DEF Restart, CallStep, IdleCall
<1>3. ASSUME NEW d \in Callers, NEW k \in Keys \cup {NoKey}, LookupMiss(d, k)
      PROVE  CallStep(c)
  <2> DEFINE new == [IdleCall EXCEPT !.pc = "create", !.key = k]
  <2>1. new.pc = "create"
    BY DEF IdleCall
  <2>2. calls' = [calls EXCEPT ![d] = new] /\ calls[d].pc = "idle"
    BY <1>3 DEF LookupMiss
  <2> HIDE DEF new
  <2> QED BY <1>0, <2>1, <2>2 DEF CallStep
<1>4. ASSUME NEW d \in Callers, CreateJob(d)
      PROVE  CallStep(c)
  <2> DEFINE job == [uid |-> born + 1, key |-> calls[d].key, status |-> "PLANNED"]
  <2> DEFINE new == [calls[d] EXCEPT !.pc = "persist", !.id = seq + 1, !.copy = job]
  <2>1. job.status = "PLANNED"
    OBVIOUS
  <2>2. calls' = [calls EXCEPT ![d] = new] /\ calls[d].pc = "create"
    BY <1>4 DEF CreateJob
  <2> HIDE DEF job
  <2>3. new.pc = "persist" /\ new.copy = job
    BY <1>0 DEF Call
  <2> HIDE DEF new
  <2> QED BY <1>0, <2>1, <2>2, <2>3 DEF CallStep
<1>5. ASSUME NEW d \in Callers, PersistJob(d)
      PROVE  CallStep(c)
  <2> DEFINE pc == AfterPersist(calls[d].copy.status)
  <2>1. /\ pc \in {"audit", "update", "idle"}
        /\ calls[d].copy.status = "PLANNED" => pc = "audit"
        /\ calls[d].copy.status # "PLANNED" => pc \in {"update", "idle"}
    BY DEF AfterPersist
  <2>2. CallGoes(d, pc) /\ calls[d].pc = "persist"
    BY <1>5 DEF PersistJob
  <2> HIDE DEF pc
  <2>3. /\ \A e \in Callers \ {d} : calls'[e] = calls[e]
        /\ calls'[d].pc = pc
        /\ pc # "idle" => calls'[d].id = calls[d].id /\ calls'[d].copy = calls[d].copy
    BY <1>0, <2>1, <2>2, CallGoesEffect
  <2> QED BY <1>5, <2>1, <2>3 DEF CallStep
<1>6. ASSUME NEW d \in Callers, AddAudit(d)
      PROVE  CallStep(c)
  <2> DEFINE new == [calls[d] EXCEPT !.pc = "persist audit", !.event = seq + 1]
  <2>1. calls' = [calls EXCEPT ![d] = new] /\ calls[d].pc = "audit"
    BY <1>6 DEF AddAudit
  <2>2. new.pc = "persist audit" /\ new.id = calls[d].id /\ new.copy = calls[d].copy
    BY <1>0 DEF Call
  <2> HIDE DEF new
  <2> QED BY <1>0, <2>1, <2>2 DEF CallStep
<1>7. ASSUME NEW d \in Callers, PersistAudit(d)
      PROVE  CallStep(c)
  <2>1. CallGoes(d, "update")
    BY <1>7 DEF PersistAudit
  <2>2. /\ \A e \in Callers \ {d} : calls'[e] = calls[e]
        /\ calls'[d].pc = "update"
        /\ calls'[d].id = calls[d].id /\ calls'[d].copy = calls[d].copy
    BY <1>0, <2>1, CallGoesEffect
  <2> QED BY <1>7, <2>2 DEF CallStep
<1>8. ASSUME NEW d \in Callers, UpdateJob(d)
      PROVE  CallStep(c)
  <2>1. CallGoes(d, "reread") /\ calls[d].pc = "update"
    BY <1>8 DEF UpdateJob
  <2>2. /\ \A e \in Callers \ {d} : calls'[e] = calls[e]
        /\ calls'[d].pc = "reread"
        /\ calls'[d].id = calls[d].id /\ calls'[d].copy = calls[d].copy
    BY <1>0, <2>1, CallGoesEffect
  <2> QED BY <2>1, <2>2 DEF CallStep
<1>9. ASSUME NEW d \in Callers, GetJob(d)
      PROVE  CallStep(c)
  <2> DEFINE new == [calls[d] EXCEPT !.pc = "persist", !.copy = jobs[calls[d].id]]
  <2>1. calls' = [calls EXCEPT ![d] = new] /\ calls[d].pc = "reread"
    BY <1>9 DEF GetJob
  <2>2. new.pc = "persist" /\ new.id = calls[d].id /\ new.copy = jobs[calls[d].id]
    BY <1>0 DEF Call
  <2>3. calls[d].copy.uid = jobs[calls[d].id].uid
    BY <2>1 DEF Ownership, CallsOwnJobs, Active
  <2> HIDE DEF new
  <2> QED BY <1>0, <2>1, <2>2, <2>3 DEF CallStep
<1>10. CASE (\E f \in Filers : CreateAgentTask(f) \/ PersistFiled(f))
            \/ ClaimNextAgentTask \/ CompleteAgentTask \/ PersistWorked \/ UNCHANGED vars
  BY <1>1, <1>10
  DEF vars, CreateAgentTask, PersistFiled, PersistWorked, PersistTask, ClaimNextAgentTask,
      CompleteAgentTask
<1> QED BY <1>2, <1>3, <1>4, <1>5, <1>6, <1>7, <1>8, <1>9, <1>10 DEF Next

(* A call that writes its job in any status but the first. *)
PastAudit(c) ==
  \/ calls[c].pc \in {"update", "reread"}
  \/ calls[c].pc = "persist" /\ calls[c].copy.status # "PLANNED"

LEMMA AuditComesFirstStep ==
  ASSUME Ownership, AuditComesFirst, [Next]_vars
  PROVE  AuditComesFirst'
<1> SUFFICES ASSUME NEW c \in Callers, PastAudit(c)'
             PROVE  AuditedThen(calls'[c].copy.uid)
  BY DEF AuditComesFirst, PastAudit, Audited, AuditedThen
<1> DEFINE uid == calls[c].copy.uid
<1>1. calls'[c].copy.uid = uid /\ (PastAudit(c) \/ PersistAudit(c))
  BY CallSteps DEF CallStep, PastAudit, PersistJob, Restart, IdleCall
<1>2. CASE PastAudit(c)
  <2>1. Audited(calls[c].copy.uid)
    BY <1>2 DEF AuditComesFirst, PastAudit
  <2> QED BY <1>1, <2>1, AuditedStays
<1>3. CASE PersistAudit(c)
  <2>1. \/ uid \in unlogged'
        \/ auditRows' = Put(auditRows, calls[c].event, uid)
    BY <1>3 DEF PersistAudit
  <2>2. auditRows' = Put(auditRows, calls[c].event, uid) =>
          calls[c].event \in DOMAIN auditRows' /\ auditRows'[calls[c].event] = uid
    BY DEF Put
  <2> HIDE DEF uid
  <2> QED BY <1>1, <2>1, <2>2 DEF AuditedThen
<1> QED BY <1>1, <1>2, <1>3

LEMMA AuditComesFirstHolds == Spec => []AuditComesFirst
<1>1. Init => AuditComesFirst
  BY DEF Init, AuditComesFirst, IdleCall
<1>2. Ownership /\ AuditComesFirst /\ [Next]_vars => AuditComesFirst'
  BY AuditComesFirstStep
<1> QED BY <1>1, <1>2, OwnershipHolds, PTL DEF Spec

(* A row that shows a job approved, or anything later, has its event in    *)
(* the database or lost it in one write that failed, whenever the process  *)
(* ended (mcp/service.go:88-127).                                          *)
THEOREM SurvivorsAreAudited == Spec => []SurvivingJobsAreAudited
<1>1. Init => SurvivingJobsAreAudited
  BY EmptyTable DEF Init, SurvivingJobsAreAudited
<1>2. ASSUME Ownership, AuditComesFirst, SurvivingJobsAreAudited, [Next]_vars
      PROVE  SurvivingJobsAreAudited'
  <2> SUFFICES ASSUME NEW id \in DOMAIN jobRows', jobRows'[id].status # "PLANNED"
               PROVE  AuditedThen(jobRows'[id].uid)
    BY DEF SurvivingJobsAreAudited, AuditedThen
  <2>1. CASE id \in DOMAIN jobRows /\ jobRows'[id] = jobRows[id]
    <3>1. Audited(jobRows[id].uid)
      BY <1>2, <2>1 DEF SurvivingJobsAreAudited, Audited
    <3> QED BY <1>2, <2>1, <3>1, AuditedStays
  <2>2. ASSUME NEW c \in Callers, PersistJob(c), jobRows'[id] = calls[c].copy
        PROVE  AuditedThen(jobRows'[id].uid)
    <3>1. Audited(calls[c].copy.uid)
      BY <1>2, <2>2 DEF PersistJob, AuditComesFirst
    <3> QED BY <1>2, <2>2, <3>1, AuditedStays
  <2>3. \/ id \in DOMAIN jobRows /\ jobRows'[id] = jobRows[id]
        \/ \E c \in Callers : PersistJob(c) /\ jobRows'[id] = calls[c].copy
    <3>1. ASSUME NEW c \in Callers, PersistJob(c)
          PROVE  \/ id \in DOMAIN jobRows /\ jobRows'[id] = jobRows[id]
                 \/ jobRows'[id] = calls[c].copy
      BY <3>1 DEF PersistJob, Put
    <3>2. (\E c \in Callers : PersistJob(c)) \/ UNCHANGED jobRows
      BY <1>2
      DEF Next, vars, rows, LookupMiss, CreateJob, AddAudit, PersistAudit, UpdateJob, GetJob,
          CreateAgentTask, PersistFiled, PersistWorked, PersistTask, ClaimNextAgentTask,
          CompleteAgentTask, Restart
    <3> QED BY <3>1, <3>2
  <2> QED BY <2>1, <2>2, <2>3
<1> QED BY <1>1, <1>2, OwnershipHolds, AuditComesFirstHolds, PTL DEF Spec

-----------------------------------------------------------------------------
(* The rows of jobs.                                                       *)

OnTheWay(id)   == \E c \in Callers : calls[c].id = id /\ calls[c].pc \in {"persist", "reread"}
RowFollows(id) ==
  jobs[id].uid \in dropped \/ (id \in DOMAIN jobRows /\ jobRows[id] = jobs[id])

(* RowFollows, of the next state. *)
RowFollowsThen(id) ==
  jobs'[id].uid \in dropped' \/ (id \in DOMAIN jobRows' /\ jobRows'[id] = jobs'[id])

(* A write on its way stays on its way until it is made or the process     *)
(* ends.                                                                   *)
LEMMA WayEnds ==
  ASSUME Ownership, [Next]_vars, NEW id, OnTheWay(id),
         ~Restart, \A c \in Callers : PersistJob(c) => calls[c].id # id
  PROVE  OnTheWay(id)'
<1>1. PICK c \in Callers : calls[c].id = id /\ calls[c].pc \in {"persist", "reread"}
  BY DEF OnTheWay
<1>2. calls'[c].id = id /\ calls'[c].pc \in {"persist", "reread"}
  BY <1>1, CallSteps DEF CallStep, PersistAudit
<1> QED BY <1>2 DEF OnTheWay

(* What a step does to a job's row, its job and the note of its last write. *)
LEMMA RowSteps ==
  ASSUME Ownership, [Next]_vars, ~Restart, NEW id \in DOMAIN jobs',
         \A c \in Callers : PersistJob(c) => calls[c].id # id
  PROVE  \/ OnTheWay(id)'
         \/ /\ id \in DOMAIN jobs /\ jobs'[id] = jobs[id]
            /\ jobs[id].uid \in dropped => jobs[id].uid \in dropped'
            /\ id \in DOMAIN jobRows => id \in DOMAIN jobRows' /\ jobRows'[id] = jobRows[id]
<1> DEFINE Kept ==
      /\ id \in DOMAIN jobs /\ jobs'[id] = jobs[id]
      /\ jobs[id].uid \in dropped => jobs[id].uid \in dropped'
      /\ id \in DOMAIN jobRows => id \in DOMAIN jobRows' /\ jobRows'[id] = jobRows[id]
<1>1. CASE UNCHANGED <<jobs, jobRows, dropped>>
  BY <1>1
<1>2. ASSUME NEW c \in Callers, CreateJob(c)
      PROVE  OnTheWay(id)' \/ Kept
  <2>1. UNCHANGED <<jobRows, dropped>>
    BY <1>2 DEF CreateJob, rows
  <2>2. calls'[c].id = seq + 1 /\ calls'[c].pc = "persist"
    <3> DEFINE job == [uid |-> born + 1, key |-> calls[c].key, status |-> "PLANNED"]
    <3>1. calls' = [calls EXCEPT ![c] = [calls[c] EXCEPT !.pc = "persist", !.id = seq + 1,
                                                         !.copy = job]]
      BY <1>2 DEF CreateJob
    <3> HIDE DEF job
    <3>2. calls \in [Callers -> Call] /\ calls[c] \in Call
      BY DEF Ownership, TypeOK
    <3> QED BY <3>1, <3>2 DEF Call
  <2>3. id = seq + 1 \/ (id \in DOMAIN jobs /\ jobs'[id] = jobs[id])
    BY <1>2 DEF CreateJob, Put
  <2> QED BY <2>1, <2>2, <2>3 DEF OnTheWay
<1>3. ASSUME NEW c \in Callers, UpdateJob(c)
      PROVE  OnTheWay(id)' \/ Kept
  <2>1. UNCHANGED <<jobRows, dropped>>
    BY <1>3 DEF UpdateJob, rows, aux
  <2>2. calls'[c].id = calls[c].id /\ calls'[c].pc = "reread"
    <3>1. TypeOK /\ CallGoes(c, "reread")
      BY <1>3 DEF UpdateJob, Ownership
    <3>2. /\ calls'[c].pc = "reread"
          /\ "reread" # "idle" => calls'[c].id = calls[c].id /\ calls'[c].copy = calls[c].copy
      BY <3>1, CallGoesEffect
    <3> QED BY <3>2
  <2>3. DOMAIN jobs' = DOMAIN jobs /\ (id # calls[c].id => jobs'[id] = jobs[id])
    <3>1. PICK status \in NextStatuses(jobs[calls[c].id].status) :
            jobs' = [jobs EXCEPT ![calls[c].id] = [jobs[calls[c].id] EXCEPT !.status = status]]
      BY <1>3 DEF UpdateJob
    <3> DEFINE job == [jobs[calls[c].id] EXCEPT !.status = status]
    <3>2. jobs' = [jobs EXCEPT ![calls[c].id] = job]
      BY <3>1
    <3> HIDE DEF job
    <3> QED BY <3>2
  <2> QED BY <2>1, <2>2, <2>3 DEF OnTheWay
<1>4. ASSUME NEW c \in Callers, PersistJob(c)
      PROVE  Kept
  <2>1. id # calls[c].id /\ UNCHANGED jobs
    BY <1>4 DEF PersistJob, memory
  <2>2. calls[c].copy.uid # jobs[id].uid
    BY <1>4, <2>1 DEF Ownership, CallsOwnJobs, Active, UidsApart, PersistJob
  <2>3. jobs[id].uid \in dropped => jobs[id].uid \in dropped'
    BY <1>4, <2>2 DEF PersistJob
  <2>4. id \in DOMAIN jobRows => id \in DOMAIN jobRows' /\ jobRows'[id] = jobRows[id]
    BY <1>4, <2>1 DEF PersistJob, Put
  <2> QED BY <2>1, <2>3, <2>4
<1>5. ASSUME NEW hand, Holds(hand), PersistTask(hand)
      PROVE  Kept
  <2>1. UNCHANGED <<jobs, jobRows>> /\ hand.copy.uid # jobs[id].uid
    BY <1>5 DEF PersistTask, memory, Holds, Ownership, UidsApart
  <2>2. jobs[id].uid \in dropped => jobs[id].uid \in dropped'
    BY <1>5, <2>1 DEF PersistTask
  <2> QED BY <2>1, <2>2
<1>6. \/ UNCHANGED <<jobs, jobRows, dropped>>
      \/ \E c \in Callers : CreateJob(c) \/ UpdateJob(c) \/ PersistJob(c)
      \/ PersistTask(worker) \/ \E f \in Filers : PersistTask(filers[f])
  BY DEF Next, vars, memory, rows, aux, LookupMiss, AddAudit, PersistAudit, GetJob,
         CreateAgentTask, PersistFiled, PersistWorked, ClaimNextAgentTask, CompleteAgentTask
<1>7. Holds(worker) /\ \A f \in Filers : Holds(filers[f])
  BY DEF Ownership, HandsHoldTasks
<1> QED BY <1>1, <1>2, <1>3, <1>4, <1>5, <1>6, <1>7

(* A job in memory is in the database as it is in memory, once its call    *)
(* has written it and the database has not dropped the last write          *)
(* (postgres.go:262-274).                                                  *)
THEOREM RowsFollow == Spec => []JobRowsFollowMemory
<1>1. Init => JobRowsFollowMemory
  BY EmptyTable DEF Init, JobRowsFollowMemory
<1>2. ASSUME Ownership, JobRowsFollowMemory, [Next]_vars
      PROVE  JobRowsFollowMemory'
  <2>1. CASE Restart
    BY <2>1, EmptyTable DEF Restart, JobRowsFollowMemory
  <2>2. CASE ~Restart
    <3> SUFFICES ASSUME NEW id \in DOMAIN jobs'
                 PROVE  OnTheWay(id)' \/ RowFollowsThen(id)
      BY DEF JobRowsFollowMemory, OnTheWay, RowFollowsThen
    <3>1. ASSUME NEW c \in Callers, PersistJob(c), calls[c].id = id
          PROVE  RowFollowsThen(id)
      <4>1. calls[c].copy = jobs[id] /\ UNCHANGED jobs
        BY <1>2, <3>1 DEF PersistJob, Ownership, CallsOwnJobs, Active, memory
      <4> QED BY <3>1, <4>1 DEF PersistJob, Put, RowFollowsThen
    <3>2. CASE \A c \in Callers : PersistJob(c) => calls[c].id # id
      <4>1. CASE OnTheWay(id)'
        BY <4>1
      <4>2. CASE /\ id \in DOMAIN jobs /\ jobs'[id] = jobs[id]
                 /\ jobs[id].uid \in dropped => jobs[id].uid \in dropped'
                 /\ id \in DOMAIN jobRows =>
                      id \in DOMAIN jobRows' /\ jobRows'[id] = jobRows[id]
        <5>1. OnTheWay(id) \/ RowFollows(id)
          <6>1. id \in DOMAIN jobs
            BY <4>2
          <6> QED BY <1>2, <6>1 DEF JobRowsFollowMemory, OnTheWay, RowFollows
        <5>2. CASE OnTheWay(id)
          BY <1>2, <2>2, <3>2, <5>2, WayEnds
        <5>3. CASE RowFollows(id)
          BY <4>2, <5>3 DEF RowFollows, RowFollowsThen
        <5> QED BY <5>1, <5>2, <5>3
      <4> QED BY <1>2, <2>2, <3>2, <4>1, <4>2, RowSteps
    <3> QED BY <3>1, <3>2
  <2> QED BY <2>1, <2>2
<1> QED BY <1>1, <1>2, OwnershipHolds, PTL DEF Spec

-----------------------------------------------------------------------------
(* The rows of tasks.                                                      *)

(* A claim and a completion give a task another status, which the worker   *)
(* is then to write.                                                       *)
LEMMA WorkerRewrites ==
  ASSUME Ownership, ClaimNextAgentTask \/ CompleteAgentTask
  PROVE  /\ \E id \in DOMAIN tasks, task \in Task :
              /\ tasks' = [tasks EXCEPT ![id] = task] /\ task.uid = tasks[id].uid
              /\ worker'.pc = "persist" /\ worker'.id = id /\ worker'.copy = task
         /\ UNCHANGED <<taskRows, filers, dropped>>
<1>1. CASE ClaimNextAgentTask
  <2>1. PICK id \in {i \in DOMAIN tasks : tasks[i].status = "QUEUED"} :
          LET task == [tasks[id] EXCEPT !.status = "RUNNING"]
          IN  /\ tasks' = [tasks EXCEPT ![id] = task]
              /\ worker' = [pc |-> "persist", id |-> id, copy |-> task]
    BY <1>1 DEF ClaimNextAgentTask
  <2> DEFINE task == [tasks[id] EXCEPT !.status = "RUNNING"]
  <2>2. tasks' = [tasks EXCEPT ![id] = task]
        /\ worker' = [pc |-> "persist", id |-> id, copy |-> task]
    BY <2>1
  <2>3. task \in Task /\ task.uid = tasks[id].uid
    <3>1. tasks[id] \in Task
      BY DEF Ownership, TypeOK, IsTable
    <3> QED BY <3>1 DEF Task, TaskStatuses
  <2> HIDE DEF task
  <2> QED BY <1>1, <2>2, <2>3 DEF ClaimNextAgentTask, rows, aux
<1>2. CASE CompleteAgentTask
  <2>1. PICK status \in {"COMPLETED", "FAILED"} :
          LET task == [tasks[worker.id] EXCEPT !.status = status]
          IN  /\ tasks' = [tasks EXCEPT ![worker.id] = task]
              /\ worker' = [worker EXCEPT !.pc = "persist", !.copy = task]
    BY <1>2 DEF CompleteAgentTask
  <2> DEFINE task == [tasks[worker.id] EXCEPT !.status = status]
  <2>2. worker \in Hand /\ worker.id \in DOMAIN tasks
    BY <1>2 DEF Ownership, HandsHoldTasks, Holds, CompleteAgentTask, TypeOK
  <2>3. task \in Task /\ task.uid = tasks[worker.id].uid
    <3>1. tasks[worker.id] \in Task
      BY <2>2 DEF Ownership, TypeOK, IsTable
    <3> QED BY <3>1 DEF Task, TaskStatuses
  <2>4. /\ tasks' = [tasks EXCEPT ![worker.id] = task]
        /\ worker' = [worker EXCEPT !.pc = "persist", !.copy = task]
    BY <2>1
  <2> HIDE DEF task
  <2>5. worker'.pc = "persist" /\ worker'.id = worker.id /\ worker'.copy = task
    BY <2>2, <2>4 DEF Hand
  <2> QED BY <1>2, <2>2, <2>3, <2>4, <2>5 DEF CompleteAgentTask, rows, aux
<1> QED BY <1>1, <1>2

(* A client files a task that no other is, and is to write it. *)
LEMMA FilerFiles ==
  ASSUME Ownership, NEW f \in Filers, CreateAgentTask(f)
  PROVE  /\ tasks' = Put(tasks, seq + 1, [uid |-> born + 1, status |-> "QUEUED"])
         /\ seq + 1 \notin DOMAIN tasks
         /\ \A i \in DOMAIN tasks : tasks[i].uid # born + 1
         /\ filers'[f].pc = "persist" /\ filers'[f].id = seq + 1
         /\ filers'[f].copy.status = "QUEUED"
         /\ \A g \in Filers \ {f} : filers'[g] = filers[g]
         /\ UNCHANGED <<taskRows, worker, dropped>>
<1>1. /\ seq \in Nat /\ born \in Nat /\ DOMAIN tasks \subseteq 1 .. seq
      /\ filers \in [Filers -> Hand]
      /\ \A i \in DOMAIN tasks : tasks[i].uid \in 1 .. born
  BY StoreAssumption DEF Ownership, TypeOK, IdsAreGiven, UidsApart
<1> DEFINE task == [uid |-> born + 1, status |-> "QUEUED"]
<1>2. /\ tasks' = Put(tasks, seq + 1, task)
      /\ filers' = [filers EXCEPT ![f] = [pc |-> "persist", id |-> seq + 1, copy |-> task]]
      /\ UNCHANGED <<taskRows, worker, dropped>>
  BY DEF CreateAgentTask, rows
<1>3. task.status = "QUEUED"
  OBVIOUS
<1>4. seq + 1 \notin DOMAIN tasks /\ \A i \in DOMAIN tasks : tasks[i].uid # born + 1
  BY <1>1
<1> HIDE DEF task
<1>5. /\ filers'[f].pc = "persist" /\ filers'[f].id = seq + 1 /\ filers'[f].copy = task
      /\ \A g \in Filers \ {f} : filers'[g] = filers[g]
  BY <1>1, <1>2
<1> QED BY <1>2, <1>3, <1>4, <1>5 DEF task

LEMMA HandsWriteTasksStep ==
  ASSUME Ownership, HandsWriteTasks, [Next]_vars
  PROVE  HandsWriteTasks'
<1>1. CASE UNCHANGED <<tasks, filers, worker>>
  BY <1>1 DEF HandsWriteTasks
<1>2. ASSUME NEW f \in Filers, CreateAgentTask(f) PROVE HandsWriteTasks'
  <2>1. /\ DOMAIN tasks' = DOMAIN tasks \cup {seq + 1}
        /\ tasks'[seq + 1].uid = born + 1
        /\ \A i \in DOMAIN tasks : tasks'[i] = tasks[i]
    <3> DEFINE task == [uid |-> born + 1, status |-> "QUEUED"]
    <3>1. tasks' = Put(tasks, seq + 1, task) /\ seq + 1 \notin DOMAIN tasks
      BY <1>2, FilerFiles
    <3>2. task.uid = born + 1
      OBVIOUS
    <3> HIDE DEF task
    <3>3. \A i \in DOMAIN tasks : i # seq + 1
      BY <3>1
    <3> QED BY <3>1, <3>2, <3>3 DEF Put
  <2>2. worker'.pc = "persist" => worker'.copy = tasks'[worker'.id]
    <3>1. worker' = worker
      BY <1>2, FilerFiles
    <3>2. worker.pc = "persist" => worker.id \in DOMAIN tasks /\ worker.copy = tasks[worker.id]
      BY DEF HandsWriteTasks, Ownership, HandsHoldTasks, Holds
    <3> QED BY <2>1, <3>1, <3>2
  <2>3. \A g \in Filers : filers'[g].pc # "complete" /\ filers'[g].copy.status = "QUEUED"
    BY <1>2, FilerFiles DEF HandsWriteTasks
  <2>4. \A i, j \in DOMAIN tasks' : tasks'[i].uid = tasks'[j].uid => i = j
    BY <1>2, <2>1, FilerFiles DEF HandsWriteTasks
  <2> QED BY <2>2, <2>3, <2>4 DEF HandsWriteTasks
<1>3. ASSUME NEW f \in Filers, PersistFiled(f) PROVE HandsWriteTasks'
  BY <1>3 DEF PersistFiled, PersistTask, memory, HandsWriteTasks, IdleHand, Ownership, TypeOK
<1>4. CASE ClaimNextAgentTask \/ CompleteAgentTask
  <2>1. PICK id \in DOMAIN tasks, task \in Task :
              /\ tasks' = [tasks EXCEPT ![id] = task] /\ task.uid = tasks[id].uid
              /\ worker'.pc = "persist" /\ worker'.id = id /\ worker'.copy = task
    BY <1>4, WorkerRewrites
  <2>2. /\ DOMAIN tasks' = DOMAIN tasks
        /\ tasks'[id] = task
        /\ \A i \in DOMAIN tasks : tasks'[i].uid = tasks[i].uid
    BY <2>1
  <2>3. filers' = filers
    BY <1>4, WorkerRewrites
  <2> QED BY <2>1, <2>2, <2>3 DEF HandsWriteTasks
<1>5. CASE PersistWorked
  <2>1. worker'.pc # "persist"
    <3>1. worker \in Hand
      BY DEF Ownership, TypeOK
    <3> QED BY <1>5, <3>1 DEF PersistWorked, IdleHand, Hand
  <2>2. UNCHANGED <<tasks, filers>>
    BY <1>5 DEF PersistWorked, PersistTask, memory
  <2> QED BY <2>1, <2>2 DEF HandsWriteTasks
<1>6. CASE Restart
  BY <1>6, EmptyTable DEF Restart, HandsWriteTasks, IdleHand
<1>7. UNCHANGED <<tasks, filers, worker>> \/ Restart \/ PersistWorked
      \/ ClaimNextAgentTask \/ CompleteAgentTask
      \/ \E f \in Filers : CreateAgentTask(f) \/ PersistFiled(f)
  BY DEF Next, vars, memory, LookupMiss, CreateJob, PersistJob, AddAudit, PersistAudit,
     UpdateJob, GetJob
<1> QED BY <1>1, <1>2, <1>3, <1>4, <1>5, <1>6, <1>7

(* A task's row is on its way, was dropped, or falls back to queued. *)
TaskOnTheWay(id) ==
  \/ \E f \in Filers : filers[f].id = id /\ filers[f].pc = "persist"
  \/ worker.id = id /\ worker.pc = "persist"

TaskRowShows(id) ==
  \/ tasks[id].uid \in dropped
  \/ /\ id \in DOMAIN taskRows
     /\ taskRows[id].uid = tasks[id].uid
     /\ taskRows[id].status \in {"QUEUED", tasks[id].status}

(* The write of a task: its row then shows the task or, written by the     *)
(* client that filed it, shows it queued; or the write is noted as         *)
(* dropped.  No other task's row is touched.                               *)
LEMMA WriteShows ==
  ASSUME Ownership, HandsWriteTasks, NEW id \in DOMAIN tasks,
         NEW hand, Holds(hand), PersistTask(hand),
         hand.copy.status \in {"QUEUED", tasks[hand.id].status}
  PROVE  /\ hand.id = id => TaskRowShows(id)'
         /\ TaskRowShows(id) => TaskRowShows(id)'
<1>1. UNCHANGED tasks /\ hand.id \in DOMAIN tasks /\ hand.copy.uid = tasks[hand.id].uid
  BY DEF PersistTask, memory, Holds
<1>2. CASE hand.id = id
  BY <1>1, <1>2 DEF PersistTask, Put, TaskRowShows
<1>3. CASE hand.id # id
  <2>1. hand.copy.uid # tasks[id].uid
    BY <1>1, <1>3 DEF HandsWriteTasks
  <2> QED BY <1>1, <1>3, <2>1 DEF PersistTask, Put, TaskRowShows
<1> QED BY <1>2, <1>3

LEMMA TaskRowsStep ==
  ASSUME Ownership, HandsWriteTasks, [Next]_vars, ~Restart,
         NEW id \in DOMAIN tasks', id \in DOMAIN tasks => TaskOnTheWay(id) \/ TaskRowShows(id)
  PROVE  TaskOnTheWay(id)' \/ TaskRowShows(id)'
<1>1. ASSUME UNCHANGED <<tasks, taskRows, filers, worker>>,
             \A i \in DOMAIN tasks : tasks[i].uid \in dropped => tasks[i].uid \in dropped'
      PROVE  TaskOnTheWay(id)' \/ TaskRowShows(id)'
  BY <1>1 DEF TaskOnTheWay, TaskRowShows
<1>2. ASSUME NEW f \in Filers, CreateAgentTask(f)
      PROVE  TaskOnTheWay(id)' \/ TaskRowShows(id)'
  <2>1. CASE id = seq + 1
    BY <1>2, <2>1, FilerFiles DEF TaskOnTheWay
  <2>2. CASE id # seq + 1
    <3>1. id \in DOMAIN tasks /\ tasks'[id] = tasks[id]
      BY <1>2, <2>2, FilerFiles DEF Put
    <3>2. TaskOnTheWay(id) => TaskOnTheWay(id)'
      BY <1>2, <2>2, FilerFiles DEF TaskOnTheWay, CreateAgentTask
    <3>3. TaskRowShows(id) => TaskRowShows(id)'
      BY <1>2, <3>1, FilerFiles DEF TaskRowShows
    <3> QED BY <3>1, <3>2, <3>3
  <2> QED BY <2>1, <2>2
<1>3. ASSUME NEW f \in Filers, PersistFiled(f)
      PROVE  TaskOnTheWay(id)' \/ TaskRowShows(id)'
  <2>1. /\ PersistTask(filers[f]) /\ UNCHANGED <<tasks, worker>>
        /\ \A g \in Filers \ {f} : filers'[g] = filers[g]
    BY <1>3 DEF PersistFiled, PersistTask, memory, Ownership, TypeOK
  <2>2. Holds(filers[f]) /\ filers[f].copy.status = "QUEUED"
    BY DEF Ownership, HandsHoldTasks, HandsWriteTasks
  <2>3. /\ filers[f].id = id => TaskRowShows(id)'
        /\ TaskRowShows(id) => TaskRowShows(id)'
    BY <2>1, <2>2, WriteShows
  <2>4. TaskOnTheWay(id) => filers[f].id = id \/ TaskOnTheWay(id)'
    BY <2>1 DEF TaskOnTheWay
  <2> QED BY <2>1, <2>3, <2>4
<1>4. CASE ClaimNextAgentTask \/ CompleteAgentTask
  <2>1. PICK i \in DOMAIN tasks, task \in Task :
              /\ tasks' = [tasks EXCEPT ![i] = task]
              /\ worker'.pc = "persist" /\ worker'.id = i
    BY <1>4, WorkerRewrites
  <2>2. CASE id = i
    BY <2>1, <2>2 DEF TaskOnTheWay
  <2>3. CASE id # i
    <3>1. id \in DOMAIN tasks /\ tasks'[id] = tasks[id]
      BY <2>1, <2>3
    <3>2. UNCHANGED <<taskRows, filers, dropped>> /\ worker.pc # "persist"
      BY <1>4, WorkerRewrites DEF ClaimNextAgentTask, CompleteAgentTask
    <3> QED BY <3>1, <3>2 DEF TaskOnTheWay, TaskRowShows
  <2> QED BY <2>2, <2>3
<1>5. CASE PersistWorked
  <2>1. PersistTask(worker) /\ UNCHANGED <<tasks, filers>> /\ worker.pc = "persist"
    BY <1>5 DEF PersistWorked, PersistTask, memory
  <2>2. Holds(worker) /\ worker.copy = tasks[worker.id]
    BY <2>1 DEF Ownership, HandsHoldTasks, HandsWriteTasks
  <2>3. /\ worker.id = id => TaskRowShows(id)'
        /\ TaskRowShows(id) => TaskRowShows(id)'
    BY <2>1, <2>2, WriteShows
  <2>4. TaskOnTheWay(id) => worker.id = id \/ TaskOnTheWay(id)'
    BY <2>1 DEF TaskOnTheWay
  <2> QED BY <2>1, <2>3, <2>4
<1>6. ASSUME NEW c \in Callers, PersistJob(c)
      PROVE  TaskOnTheWay(id)' \/ TaskRowShows(id)'
  <2>1. UNCHANGED <<tasks, taskRows, filers, worker>>
    BY <1>6 DEF PersistJob, memory
  <2>2. \A i \in DOMAIN tasks : tasks[i].uid # calls[c].copy.uid
    BY <1>6 DEF Ownership, CallsOwnJobs, Active, UidsApart, PersistJob
  <2>3. \A i \in DOMAIN tasks : tasks[i].uid \in dropped => tasks[i].uid \in dropped'
    BY <1>6, <2>2 DEF PersistJob
  <2> QED BY <1>1, <2>1, <2>3
<1>7. \/ UNCHANGED <<tasks, taskRows, filers, worker, dropped>> \/ PersistWorked
      \/ ClaimNextAgentTask \/ CompleteAgentTask
      \/ \E f \in Filers : CreateAgentTask(f) \/ PersistFiled(f)
      \/ \E c \in Callers : PersistJob(c)
  BY DEF Next, vars, memory, rows, aux, LookupMiss, CreateJob, AddAudit, PersistAudit,
     UpdateJob, GetJob
<1> QED BY <1>1, <1>2, <1>3, <1>4, <1>5, <1>6, <1>7

(* A task's row is behind the task in memory in one way only: it shows it  *)
(* queued, the client's write having come after the worker's               *)
(* (postgres.go:369-397).                                                  *)
THEOREM TaskRowsFallBack == Spec => []TaskRowsFallBackToQueued
<1>1. Init => HandsWriteTasks /\ TaskRowsFallBackToQueued
  BY EmptyTable DEF Init, HandsWriteTasks, TaskRowsFallBackToQueued, IdleHand
<1>2. Ownership /\ HandsWriteTasks /\ [Next]_vars => HandsWriteTasks'
  BY HandsWriteTasksStep
<1>3. ASSUME Ownership, HandsWriteTasks, TaskRowsFallBackToQueued, [Next]_vars
      PROVE  TaskRowsFallBackToQueued'
  <2>1. CASE Restart
    BY <2>1, EmptyTable DEF Restart, TaskRowsFallBackToQueued
  <2>2. CASE ~Restart
    <3>1. ASSUME NEW id \in DOMAIN tasks' PROVE TaskOnTheWay(id)' \/ TaskRowShows(id)'
      <4>1. id \in DOMAIN tasks => TaskOnTheWay(id) \/ TaskRowShows(id)
        BY <1>3 DEF TaskRowsFallBackToQueued, TaskOnTheWay, TaskRowShows
      <4> QED BY <1>3, <2>2, <4>1, TaskRowsStep
    <3> QED BY <3>1 DEF TaskRowsFallBackToQueued, TaskOnTheWay, TaskRowShows
  <2> QED BY <2>1, <2>2
<1> QED BY <1>1, <1>2, <1>3, OwnershipHolds, PTL DEF Spec

=============================================================================
