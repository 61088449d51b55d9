-------------------------- MODULE JobPipelineProofs --------------------------
(***************************************************************************)
(* Theorems of JobPipeline, for any number of callers, keys, tools, nodes  *)
(* and requests.                                                           *)
(***************************************************************************)
EXTENDS JobPipeline, TLAPS, SequenceTheorems, FiniteSetTheorems

-----------------------------------------------------------------------------
(* Operators.                                                              *)

LEMMA RiskType ==
  ASSUME TypeOK, NEW c \in Callers
  PROVE  Risk(c) \in RiskLevels
BY PipelineAssumption DEF TypeOK, CallsTyped, Risk, Call, Request

LEMMA DecisionTyped ==
  ASSUME NEW risk, NEW hard, NEW approval, NEW gate, NEW mode, NEW t
  PROVE  Evaluate(risk, hard, approval, gate, mode, t) \in Decision
BY DEF Evaluate, Decision, DecisionTypes, Reasons

LEMMA ModeTyped ==
  ASSUME NEW mode \in PolicyMode, NEW t
  PROVE  ExpirePolicyMode(mode, t) \in PolicyMode
BY DEF ExpirePolicyMode, PolicyMode, PolicyModes

LEMMA SetModeTyped ==
  ASSUME NEW m \in PolicyModes, NEW d \in Nat, NEW t \in Nat
  PROVE  SetPolicyMode(m, d, t) \in PolicyMode
BY DEF SetPolicyMode, PolicyMode

LEMMA JobRecordTyped ==
  ASSUME TypeOK, NEW c \in Callers, NEW s \in Statuses,
         NEW h \in Seq(Statuses)
  PROVE  JobRecord(c, s, h) \in Job
BY RiskType DEF TypeOK, CallsTyped, JobRecord, Job, Call, Request, Decision

LEMMA JobRecordFields ==
  ASSUME NEW c, NEW s, NEW h
  PROVE  /\ JobRecord(c, s, h).key = calls[c].req.key
         /\ JobRecord(c, s, h).tool = calls[c].req.tool
         /\ JobRecord(c, s, h).risk = Risk(c)
         /\ JobRecord(c, s, h).decision = calls[c].decision.type
         /\ JobRecord(c, s, h).status = s
BY DEF JobRecord

(* The two histories a stored job can have. *)
LEMMA HistoryTyped ==
  ASSUME NEW s \in Statuses
  PROVE  /\ <<"PLANNED">> \in Seq(Statuses)
         /\ Append(<<"PLANNED">>, s) \in Seq(Statuses)
BY DEF Statuses

LEMMA IdleTyped == IdleCall \in Call /\ IdleCall.job = 0 /\ IdleCall.pc = "idle"
BY PipelineAssumption DEF IdleCall, Call, Owning, PCs, Decision, DecisionTypes, Reasons

(* What an update of a job changes, and what it leaves alone. *)
LEMMA UpdateJobEffect ==
  ASSUME TypeOK, NEW c \in Callers, NEW s \in Statuses, UpdateJob(c, s),
         calls[c].pc \in Owning
  PROVE  /\ calls[c].job \in JobIds
         /\ jobs' \in Seq(Job)
         /\ Len(jobs') = Len(jobs)
         /\ jobs'[calls[c].job] = JobRecord(c, s, Append(<<"PLANNED">>, s))
         /\ \A id \in JobIds : id # calls[c].job => jobs'[id] = jobs[id]
<1> DEFINE new == JobRecord(c, s, Append(<<"PLANNED">>, s))
<1>1. calls[c].job \in JobIds
  BY DEF TypeOK, CallsTyped
<1>2. new \in Job
  BY JobRecordTyped, HistoryTyped
<1>3. jobs \in Seq(Job)
  BY DEF TypeOK
<1>4. jobs' = [jobs EXCEPT ![calls[c].job] = new]
  BY DEF UpdateJob
<1> HIDE DEF new
<1>5. jobs' \in Seq(Job) /\ Len(jobs') = Len(jobs)
  BY <1>1, <1>2, <1>3, <1>4 DEF JobIds
<1>6. jobs'[calls[c].job] = new /\ \A id \in JobIds : id # calls[c].job => jobs'[id] = jobs[id]
  BY <1>1, <1>3, <1>4 DEF JobIds
<1> QED BY <1>1, <1>5, <1>6 DEF new

-----------------------------------------------------------------------------
(* Type correctness.                                                       *)

(* A step that changes one call, and perhaps adds jobs, keeps it when what *)
(* it makes of the call is typed.                                          *)
LEMMA CallTyped ==
  ASSUME TypeOK, NEW c \in Callers, NEW call \in Call,
         calls' = [calls EXCEPT ![c] = call],
         JobIds \subseteq JobIds',
         call.job \in IF call.pc \in Owning THEN JobIds' ELSE {0},
         call.pc = "lookup" => call.req.key \in Keys
  PROVE  CallsTyped'
BY DEF TypeOK, CallsTyped

LEMMA MoveTyped ==
  ASSUME TypeOK, NEW c \in Callers, NEW from \in Owning, NEW to \in Owning,
         Move(c, from, to), JobIds' = JobIds
  PROVE  CallsTyped'
<1> DEFINE call == [calls[c] EXCEPT !.pc = to]
<1>1. calls[c] \in Call /\ calls[c].pc = from
  BY DEF TypeOK, CallsTyped, Move
<1>2. call \in Call /\ call.pc = to /\ call.job = calls[c].job
  BY <1>1 DEF Call, Owning
<1>3. to # "lookup" /\ calls[c].job \in JobIds
  BY <1>1 DEF TypeOK, CallsTyped, Owning
<1>4. calls' = [calls EXCEPT ![c] = call]
  BY DEF Move
<1> HIDE DEF call
<1> QED BY <1>2, <1>3, <1>4, CallTyped

LEMMA RespondTyped ==
  ASSUME TypeOK, NEW c \in Callers, NEW from, NEW id \in JobIds, NEW st \in Statuses,
         Respond(c, from, id, st), JobIds' = JobIds
  PROVE  /\ CallsTyped'
         /\ answers' \in [Callers -> Answer]
         /\ \A d \in Callers : answers'[d].job \in {0} \cup JobIds
<1>1. calls' = [calls EXCEPT ![c] = IdleCall]
  BY DEF Respond
<1>2. CallsTyped'
  BY <1>1, IdleTyped, CallTyped DEF Owning
<1> DEFINE dual == DualApproved(calls[c].req)
           answer == [job |-> id, key |-> calls[c].req.key, status |-> st, dual |-> dual]
<1>0. dual \in BOOLEAN
  BY DEF DualApproved
<1> HIDE DEF dual
<1>3. answer \in Answer /\ answer.job = id
  BY <1>0 DEF TypeOK, CallsTyped, Call, Request, Answer, JobIds
<1>4. answers' = [answers EXCEPT ![c] = answer]
  BY DEF Respond, dual
<1> HIDE DEF answer
<1>5. /\ answers' \in [Callers -> Answer]
      /\ \A d \in Callers : answers'[d].job \in {0} \cup JobIds
  BY <1>3, <1>4 DEF TypeOK
<1> QED BY <1>2, <1>5

(* An update of a job keeps everything TypeOK says of the job table.       *)
LEMMA UpdateJobTyped ==
  ASSUME TypeOK, NEW c \in Callers, NEW s \in Statuses, UpdateJob(c, s),
         calls[c].pc \in Owning
  PROVE  jobs' \in Seq(Job) /\ Len(jobs') = Len(jobs) /\ JobIds' = JobIds
BY UpdateJobEffect DEF JobIds

LEMMA TypeInit == Init => TypeOK
<1> SUFFICES ASSUME Init PROVE TypeOK
  OBVIOUS
<1>1. JobIds = {} /\ jobs \in Seq(Job)
  BY DEF Init, JobIds
<1>2. CallsTyped
  BY IdleTyped DEF Init, CallsTyped, Owning
<1>3. answers \in [Callers -> Answer]
      /\ \A c \in Callers : answers[c].job \in {0} \cup JobIds
  BY DEF Init, Answer, Statuses
<1>4. policyMode \in PolicyMode
  BY DEF Init, PolicyMode, PolicyModes
<1>5. /\ now \in Nat
      /\ heartbeat \in [Nodes -> Nat]
      /\ byIdemKey \in [Keys -> {0} \cup JobIds]
      /\ audits \subseteq Audit
      /\ incidents \subseteq Incident
      /\ executed \subseteq JobIds
      /\ seen \in Seq(Nat)
      /\ Len(seen) = Len(jobs)
  BY DEF Init
<1> QED BY <1>1, <1>2, <1>3, <1>4, <1>5 DEF TypeOK

LEMMA TypeStep ==
  ASSUME TypeOK, [Next]_vars
  PROVE  TypeOK'
<1>0. \A c \in Callers : calls[c] \in Call
  BY DEF TypeOK, CallsTyped
<1>1. ASSUME NEW c \in Callers, NEW r \in Requests, Receive(c, r) PROVE TypeOK'
  <2> DEFINE call == [calls[c] EXCEPT
                        !.pc  = IF r.key # NoKey THEN "lookup" ELSE "snapshot",
                        !.req = r]
  <2>1. r \in Request /\ calls[c].job = 0
    BY <1>1, PipelineAssumption DEF Receive, TypeOK, CallsTyped, Owning
  <2>2. call \in Call /\ call.job = 0 /\ call.pc \notin Owning
        /\ (call.pc = "lookup" => call.req.key \in Keys)
    BY <1>0, <2>1 DEF Call, PCs, Owning, Request
  <2>3. calls' = [calls EXCEPT ![c] = call] /\ JobIds' = JobIds
    BY <1>1 DEF Receive, JobIds
  <2> HIDE DEF call
  <2>4. CallsTyped'
    BY <2>2, <2>3, CallTyped
  <2> QED BY <1>1, <2>3, <2>4 DEF Receive, TypeOK
<1>2. ASSUME NEW c \in Callers, Replay(c) PROVE TypeOK'
  <2> DEFINE id == byIdemKey[calls[c].req.key]
  <2>1. id \in JobIds
    BY <1>2 DEF Replay, TypeOK, CallsTyped
  <2>2. jobs[id] \in Job
    BY <2>1 DEF TypeOK, JobIds
  <2>3. Respond(c, "lookup", id, jobs[id].status) /\ JobIds' = JobIds
    BY <1>2 DEF Replay, JobIds
  <2> HIDE DEF id
  <2>4. /\ CallsTyped'
        /\ answers' \in [Callers -> Answer]
        /\ \A d \in Callers : answers'[d].job \in {0} \cup JobIds
    BY <2>1, <2>2, <2>3, RespondTyped DEF Job
  <2> QED BY <1>2, <2>3, <2>4 DEF Replay, TypeOK
<1>3. ASSUME NEW c \in Callers, LookupMiss(c) PROVE TypeOK'
  <2> DEFINE call == [calls[c] EXCEPT !.pc = "snapshot", !.since = Len(jobs)]
  <2>1. calls[c].job = 0 /\ Len(jobs) \in Nat
    BY <1>3 DEF LookupMiss, TypeOK, CallsTyped, Owning
  <2>2. call \in Call /\ call.job = 0 /\ call.pc = "snapshot"
    BY <1>0, <2>1 DEF Call, PCs
  <2>3. calls' = [calls EXCEPT ![c] = call] /\ JobIds' = JobIds
    BY <1>3 DEF LookupMiss, JobIds
  <2> HIDE DEF call
  <2>4. CallsTyped'
    BY <2>2, <2>3, CallTyped DEF Owning
  <2> QED BY <1>3, <2>3, <2>4 DEF LookupMiss, TypeOK
<1>4. ASSUME NEW c \in Callers, Snapshot(c) PROVE TypeOK'
  <2> DEFINE ok == ValidateForWrite(SnapshotFromState(NodeView, now, MaxAge), FailClosed)
             call == [calls[c] EXCEPT !.pc = "decide", !.allowWrites = ok]
  <2>1. ok \in BOOLEAN /\ calls[c].job = 0
    BY <1>4 DEF ValidateForWrite, Snapshot, TypeOK, CallsTyped, Owning
  <2>2. calls' = [calls EXCEPT ![c] = call] /\ JobIds' = JobIds
    BY <1>4 DEF Snapshot, JobIds
  <2> HIDE DEF ok
  <2>3. call \in Call /\ call.job = 0 /\ call.pc = "decide"
    BY <1>0, <2>1 DEF Call, PCs
  <2> HIDE DEF call
  <2>4. CallsTyped'
    BY <2>2, <2>3, CallTyped DEF Owning
  <2> QED BY <1>4, <2>2, <2>4 DEF Snapshot, TypeOK
<1>5. ASSUME NEW c \in Callers, Decide(c) PROVE TypeOK'
  <2>1. PICK decision \in Decision :
          calls' = [calls EXCEPT ![c] =
                      [@ EXCEPT !.pc = "create", !.decision = decision]]
    BY <1>5, DecisionTyped DEF Decide
  <2> DEFINE call == [calls[c] EXCEPT !.pc = "create", !.decision = decision]
  <2>2. calls[c].job = 0
    BY <1>5 DEF Decide, TypeOK, CallsTyped, Owning
  <2>3. call \in Call /\ call.job = 0 /\ call.pc = "create"
    BY <1>0, <2>2 DEF Call, PCs
  <2>4. calls' = [calls EXCEPT ![c] = call] /\ JobIds' = JobIds
    BY <1>5, <2>1 DEF Decide, JobIds
  <2> HIDE DEF call
  <2>5. CallsTyped'
    BY <2>3, <2>4, CallTyped DEF Owning
  <2>6. policyMode' \in PolicyMode
    BY <1>5, ModeTyped DEF Decide, TypeOK
  <2> QED BY <1>5, <2>4, <2>5, <2>6 DEF Decide, TypeOK
<1>6. ASSUME NEW c \in Callers, CreateJob(c) PROVE TypeOK'
  <2> DEFINE job  == JobRecord(c, "PLANNED", <<"PLANNED">>)
             new  == Len(jobs) + 1
             call == [calls[c] EXCEPT !.pc = "audit", !.job = new]
  <2>1. job \in Job
    BY JobRecordTyped, HistoryTyped DEF Statuses
  <2>2. jobs' = Append(jobs, job)
    BY <1>6 DEF CreateJob
  <2> HIDE DEF job
  <2>3. /\ jobs' \in Seq(Job)
        /\ Len(jobs) \in Nat
        /\ Len(jobs') = Len(jobs) + 1
        /\ JobIds' = JobIds \cup {Len(jobs) + 1}
    BY <2>1, <2>2 DEF TypeOK, JobIds
  <2>4. seen' \in Seq(Nat) /\ Len(seen') = Len(jobs')
    BY <1>0, <1>6, <2>3 DEF CreateJob, TypeOK, Call
  <2>5. byIdemKey' \in [Keys -> {0} \cup JobIds']
    BY <1>6, <2>3 DEF CreateJob, IndexKey, TypeOK
  <2>6. calls' = [calls EXCEPT ![c] = call]
    BY <1>6 DEF CreateJob
  <2>7. new \in Nat /\ new \in JobIds' /\ JobIds \subseteq JobIds'
    BY <2>3
  <2> HIDE DEF new
  <2>8. call \in Call /\ call.job = new /\ call.pc = "audit"
    BY <1>0, <2>7 DEF Call, PCs
  <2> HIDE DEF call
  <2>9. CallsTyped'
    BY <2>6, <2>7, <2>8, CallTyped DEF Owning, PCs
  <2> QED BY <1>6, <2>3, <2>4, <2>5, <2>9 DEF CreateJob, TypeOK
<1>7. ASSUME NEW c \in Callers, AddAudit(c) PROVE TypeOK'
  <2>1. AfterAudit(calls[c].decision) \in Owning /\ "audit" \in Owning
    BY DEF AfterAudit, Owning, PCs
  <2>2. calls[c].job \in Nat /\ Risk(c) \in RiskLevels
    BY <1>0, RiskType DEF Call
  <2>3. audits' \subseteq Audit
    <3>1. AuditEvent(c) \in Audit
      BY <1>0, <2>2 DEF AuditEvent, Call, Request, Decision, Audit
    <3> QED BY <1>7, <3>1 DEF AddAudit, TypeOK
  <2>4. Move(c, "audit", AfterAudit(calls[c].decision)) /\ JobIds' = JobIds
    BY <1>7 DEF AddAudit, JobIds
  <2>5. CallsTyped'
    BY <2>1, <2>4, MoveTyped
  <2> QED BY <1>7, <2>3, <2>4, <2>5 DEF AddAudit, TypeOK
<1>8. ASSUME NEW c \in Callers, RecordPolicyBlock(c) \/ RecordJobFailed(c) PROVE TypeOK'
  <2>1. PICK from \in Owning, to \in Owning : Move(c, from, to)
    BY <1>8 DEF RecordPolicyBlock, RecordJobFailed, Owning, PCs
  <2>2. CallsTyped' /\ JobIds' = JobIds
    BY <1>8, <2>1, MoveTyped DEF RecordPolicyBlock, RecordJobFailed, JobIds
  <2>3. incidents' \subseteq Incident
    BY <1>0, <1>8 DEF RecordPolicyBlock, RecordJobFailed, TypeOK, Call, Incident
  <2> QED BY <1>8, <2>2, <2>3 DEF RecordPolicyBlock, RecordJobFailed, TypeOK
<1>9. ASSUME NEW c \in Callers, Hold(c) \/ Fail(c) \/ Complete(c) PROVE TypeOK'
  <2>1. PICK st \in Statuses, from \in Owning :
          UpdateJob(c, st) /\ Respond(c, from, calls[c].job, st)
    BY <1>9 DEF Hold, Fail, Complete, Statuses, Owning, PCs
  <2>2. calls[c].pc \in Owning /\ calls[c].job \in JobIds
    BY <2>1 DEF Respond, TypeOK, CallsTyped
  <2>3. jobs' \in Seq(Job) /\ Len(jobs') = Len(jobs) /\ JobIds' = JobIds
    BY <2>1, <2>2, UpdateJobTyped
  <2>4. /\ CallsTyped'
        /\ answers' \in [Callers -> Answer]
        /\ \A d \in Callers : answers'[d].job \in {0} \cup JobIds
    BY <2>1, <2>2, <2>3, RespondTyped
  <2> QED BY <1>9, <2>3, <2>4 DEF Hold, Fail, Complete, TypeOK
<1>10. ASSUME NEW c \in Callers, Approve(c) \/ Run(c) \/ Verify(c) PROVE TypeOK'
  <2>1. PICK st \in Statuses, from \in Owning, to \in Owning :
          UpdateJob(c, st) /\ Move(c, from, to)
    BY <1>10 DEF Approve, Run, Verify, Statuses, Owning, PCs
  <2>2. calls[c].pc \in Owning
    BY <2>1 DEF Move
  <2>3. jobs' \in Seq(Job) /\ Len(jobs') = Len(jobs) /\ JobIds' = JobIds
    BY <2>1, <2>2, UpdateJobTyped
  <2>4. CallsTyped'
    BY <2>1, <2>3, MoveTyped
  <2> QED BY <1>10, <2>3, <2>4 DEF Approve, Run, Verify, TypeOK
<1>11. ASSUME NEW c \in Callers, ExecuteOK(c) \/ ExecuteError(c) PROVE TypeOK'
  <2>1. PICK from \in Owning, to \in Owning : Move(c, from, to)
    BY <1>11 DEF ExecuteOK, ExecuteError, Owning, PCs
  <2>2. calls[c].job \in JobIds
    BY <2>1 DEF Move, TypeOK, CallsTyped
  <2>3. policyMode' \in PolicyMode
    <3>1. policyMode' = policyMode \/ policyMode' \in ModesAfter(calls[c].req.tool)
      BY <1>11 DEF ExecuteOK, ExecuteError
    <3>2. ModesAfter(calls[c].req.tool) \subseteq PolicyMode
      BY SetModeTyped, PipelineAssumption DEF ModesAfter, TypeOK, PolicyModes
    <3> QED BY <3>1, <3>2 DEF TypeOK
  <2>4. CallsTyped' /\ JobIds' = JobIds
    BY <1>11, <2>1, MoveTyped DEF ExecuteOK, ExecuteError, JobIds
  <2> QED BY <1>11, <2>2, <2>3, <2>4 DEF ExecuteOK, ExecuteError, TypeOK
<1>12. ASSUME NEW n \in Nodes, Heartbeat(n) PROVE TypeOK'
  BY <1>12 DEF Heartbeat, TypeOK, CallsTyped, JobIds
<1>13. CASE PollPolicyMode
  BY <1>13, ModeTyped DEF PollPolicyMode, TypeOK, CallsTyped, JobIds
<1>14. CASE Tick
  BY <1>14 DEF Tick, TypeOK, CallsTyped, JobIds
<1>15. CASE UNCHANGED vars
  BY <1>15 DEF vars, TypeOK, CallsTyped, JobIds
<1> QED BY <1>1, <1>2, <1>3, <1>4, <1>5, <1>6, <1>7, <1>8, <1>9, <1>10, <1>11, <1>12,
           <1>13, <1>14, <1>15 DEF Next, Step

(* Every state of the pipeline is well typed (memory.go:14-34).            *)
THEOREM TypeCorrect == Spec => []TypeOK
<1>1. Init => TypeOK
  BY TypeInit
<1>2. TypeOK /\ [Next]_vars => TypeOK'
  BY TypeStep
<1> QED BY <1>1, <1>2, PTL DEF Spec

-----------------------------------------------------------------------------
(* What each kind of step does to the calls.                               *)

(* No call but c's changes. *)
OnlyCall(c) == \A d \in Callers : d # c => calls'[d] = calls[d]

LEMMA MoveEffect ==
  ASSUME TypeOK, NEW c \in Callers, NEW from, NEW to, Move(c, from, to)
  PROVE  /\ calls[c].pc = from
         /\ calls'[c].pc = to
         /\ calls'[c].req = calls[c].req
         /\ calls'[c].allowWrites = calls[c].allowWrites
         /\ calls'[c].decision = calls[c].decision
         /\ calls'[c].job = calls[c].job
         /\ calls'[c].since = calls[c].since
         /\ OnlyCall(c)
BY DEF Move, TypeOK, CallsTyped, Call, OnlyCall

LEMMA RespondEffect ==
  ASSUME TypeOK, NEW c \in Callers, NEW from, NEW id, NEW st, Respond(c, from, id, st)
  PROVE  calls[c].pc = from /\ calls'[c].pc = "idle" /\ OnlyCall(c)
BY IdleTyped DEF Respond, TypeOK, CallsTyped, OnlyCall

LEMMA ReceiveEffect ==
  ASSUME TypeOK, NEW c \in Callers, NEW r \in Requests, Receive(c, r)
  PROVE  /\ calls'[c].pc = IF r.key # NoKey THEN "lookup" ELSE "snapshot"
         /\ calls'[c].req = r
         /\ OnlyCall(c)
BY DEF Receive, TypeOK, CallsTyped, Call, OnlyCall

LEMMA LookupMissEffect ==
  ASSUME TypeOK, NEW c \in Callers, LookupMiss(c)
  PROVE  /\ calls'[c].pc = "snapshot"
         /\ calls'[c].req = calls[c].req
         /\ calls'[c].since = Len(jobs)
         /\ OnlyCall(c)
BY DEF LookupMiss, TypeOK, CallsTyped, Call, OnlyCall

LEMMA SnapshotEffect ==
  ASSUME TypeOK, NEW c \in Callers, Snapshot(c)
  PROVE  /\ calls'[c].pc = "decide"
         /\ calls'[c].req = calls[c].req
         /\ calls'[c].since = calls[c].since
         /\ OnlyCall(c)
<1> DEFINE ok == ValidateForWrite(SnapshotFromState(NodeView, now, MaxAge), FailClosed)
<1>1. calls' = [calls EXCEPT ![c] = [@ EXCEPT !.pc = "decide", !.allowWrites = ok]]
  BY DEF Snapshot
<1> HIDE DEF ok
<1> QED BY <1>1 DEF TypeOK, CallsTyped, Call, OnlyCall

(* What the policy gate looks at before it allows a call (gate.go:24-64).  *)
LEMMA GateAllows ==
  ASSUME NEW risk, NEW approval, NEW gateOK, NEW mode, NEW t,
         Allow(Evaluate(risk, HardBlocked(risk), approval, gateOK, mode, t))
  PROVE  /\ gateOK
         /\ risk = "HIGH" =>
              /\ approval.approve
              /\ \/ approval.mfa /\ approval.second
                 \/ Evaluate(risk, HardBlocked(risk), approval, gateOK, mode, t).reason
                      = "aggressive mode"
BY DEF Allow, Evaluate, HardBlocked, DualApproved

LEMMA DecideEffect ==
  ASSUME TypeOK, NEW c \in Callers, Decide(c)
  PROVE  /\ calls'[c].pc = "create"
         /\ calls'[c].req = calls[c].req
         /\ calls'[c].allowWrites = calls[c].allowWrites
         /\ calls'[c].since = calls[c].since
         /\ OnlyCall(c)
         /\ Allow(calls'[c].decision) =>
              /\ Risk(c) # "LOW" => calls[c].allowWrites
              /\ Risk(c) = "HIGH" =>
                   /\ calls[c].req.approve
                   /\ \/ calls[c].req.mfa /\ calls[c].req.second
                      \/ calls'[c].decision.reason = "aggressive mode"
<1> DEFINE mode == ExpirePolicyMode(policyMode, now)
           gate == Risk(c) = "LOW" \/ calls[c].allowWrites
           decision == Evaluate(Risk(c), HardBlocked(Risk(c)), calls[c].req, gate, mode, now)
<1>1. calls' = [calls EXCEPT ![c] = [@ EXCEPT !.pc = "create", !.decision = decision]]
  BY DEF Decide
<1>2. Allow(decision) =>
        /\ gate
        /\ Risk(c) = "HIGH" =>
             /\ calls[c].req.approve
             /\ \/ calls[c].req.mfa /\ calls[c].req.second
                \/ decision.reason = "aggressive mode"
  <2> HIDE DEF mode, gate
  <2> QED BY GateAllows
<1> HIDE DEF decision
<1>3. /\ calls'[c].pc = "create"
      /\ calls'[c].req = calls[c].req
      /\ calls'[c].allowWrites = calls[c].allowWrites
      /\ calls'[c].since = calls[c].since
      /\ calls'[c].decision = decision
      /\ OnlyCall(c)
  BY <1>1 DEF TypeOK, CallsTyped, Call, OnlyCall
<1> QED BY <1>2, <1>3

LEMMA CreateJobEffect ==
  ASSUME TypeOK, NEW c \in Callers, CreateJob(c)
  PROVE  /\ calls'[c].pc = "audit"
         /\ calls'[c].req = calls[c].req
         /\ calls'[c].allowWrites = calls[c].allowWrites
         /\ calls'[c].decision = calls[c].decision
         /\ calls'[c].job = Len(jobs) + 1
         /\ OnlyCall(c)
         /\ Len(jobs) \in Nat /\ Len(jobs') = Len(jobs) + 1
         /\ JobIds' = JobIds \cup {Len(jobs) + 1}
         /\ Len(jobs) + 1 \notin JobIds
         /\ jobs'[Len(jobs) + 1] = JobRecord(c, "PLANNED", <<"PLANNED">>)
         /\ \A id \in JobIds : jobs'[id] = jobs[id]
<1> DEFINE job == JobRecord(c, "PLANNED", <<"PLANNED">>)
           new == Len(jobs) + 1
<1>1. calls' = [calls EXCEPT ![c] = [@ EXCEPT !.pc = "audit", !.job = new]]
  BY DEF CreateJob
<1>2. jobs' = Append(jobs, job)
  BY DEF CreateJob
<1> HIDE DEF job
<1>3. /\ Len(jobs) \in Nat /\ Len(jobs') = Len(jobs) + 1
      /\ JobIds' = JobIds \cup {Len(jobs) + 1}
      /\ Len(jobs) + 1 \notin JobIds
      /\ jobs'[Len(jobs) + 1] = job
      /\ \A id \in JobIds : jobs'[id] = jobs[id]
  BY <1>2 DEF TypeOK, JobIds
<1> HIDE DEF new
<1>4. /\ calls'[c].pc = "audit"
      /\ calls'[c].req = calls[c].req
      /\ calls'[c].allowWrites = calls[c].allowWrites
      /\ calls'[c].decision = calls[c].decision
      /\ calls'[c].job = new
      /\ OnlyCall(c)
  BY <1>1 DEF TypeOK, CallsTyped, Call, OnlyCall
<1> QED BY <1>3, <1>4 DEF new, job

-----------------------------------------------------------------------------
(* A job belongs to one call, which is the only one to write it.           *)

Ownership == CallsOwnJobs /\ JobsHaveOneCall

LEMMA OwnershipInit == Init => Ownership
BY IdleTyped DEF Init, Ownership, CallsOwnJobs, JobsHaveOneCall, Owning

(* A step before the job exists, or after it is settled, owns no job. *)
LEMMA UnownedStep ==
  ASSUME TypeOK, Ownership, NEW c \in Callers, OnlyCall(c),
         calls'[c].pc \in PCs \ Owning,
         \A d \in Callers :
           d # c /\ calls[d].pc \in Owning => jobs'[calls[d].job] = jobs[calls[d].job]
  PROVE  Ownership'
<1>1. CallsOwnJobs'
  BY DEF Ownership, CallsOwnJobs, OnlyCall, Risk
<1>2. JobsHaveOneCall'
  BY DEF Ownership, JobsHaveOneCall, OnlyCall
<1> QED BY <1>1, <1>2 DEF Ownership

(* A move within the life of a job keeps the ownership when it writes the  *)
(* status that belongs to where it goes, and nobody else's job.            *)
LEMMA OwnedMove ==
  ASSUME TypeOK, Ownership, NEW c \in Callers, NEW from \in Owning, NEW to \in Owning,
         Move(c, from, to),
         jobs'[calls[c].job].key = jobs[calls[c].job].key,
         jobs'[calls[c].job].tool = jobs[calls[c].job].tool,
         jobs'[calls[c].job].risk = jobs[calls[c].job].risk,
         jobs'[calls[c].job].status = StatusAt(to),
         \A id \in JobIds : id # calls[c].job => jobs'[id] = jobs[id]
  PROVE  Ownership'
<1>1. /\ calls[c].pc = from
      /\ calls'[c].pc = to
      /\ calls'[c].req = calls[c].req
      /\ calls'[c].job = calls[c].job
      /\ \A d \in Callers : d # c => calls'[d] = calls[d]
  BY MoveEffect DEF OnlyCall
<1>2. ASSUME NEW d \in Callers, d # c, calls[d].pc \in Owning
      PROVE  jobs'[calls[d].job] = jobs[calls[d].job]
  <2>1. calls[d].job # calls[c].job
    BY <1>1, <1>2 DEF Ownership, JobsHaveOneCall
  <2>2. calls[d].job \in JobIds
    BY <1>2 DEF TypeOK, CallsTyped
  <2> QED BY <2>1, <2>2
<1>3. CallsOwnJobs'
  <2> SUFFICES ASSUME NEW d \in Callers, calls'[d].pc \in Owning
               PROVE  /\ jobs'[calls'[d].job].key = calls'[d].req.key
                      /\ jobs'[calls'[d].job].tool = calls'[d].req.tool
                      /\ jobs'[calls'[d].job].risk = Risk(d)'
                      /\ jobs'[calls'[d].job].status = StatusAt(calls'[d].pc)
    BY DEF CallsOwnJobs
  <2>1. CASE d = c
    BY <1>1, <2>1 DEF Ownership, CallsOwnJobs, Risk
  <2>2. CASE d # c
    BY <1>1, <1>2, <2>2 DEF Ownership, CallsOwnJobs, Risk
  <2> QED BY <2>1, <2>2
<1>4. JobsHaveOneCall'
  BY <1>1 DEF Ownership, JobsHaveOneCall
<1> QED BY <1>3, <1>4 DEF Ownership

(* What an update writes in the job of its call, besides the status. *)
LEMMA UpdateJobKeeps ==
  ASSUME TypeOK, CallsOwnJobs, NEW c \in Callers, NEW s \in Statuses, UpdateJob(c, s),
         calls[c].pc \in Owning
  PROVE  /\ jobs'[calls[c].job].key = jobs[calls[c].job].key
         /\ jobs'[calls[c].job].tool = jobs[calls[c].job].tool
         /\ jobs'[calls[c].job].risk = jobs[calls[c].job].risk
         /\ jobs'[calls[c].job].status = s
BY UpdateJobEffect, JobRecordFields DEF CallsOwnJobs

LEMMA OwnershipStep ==
  ASSUME TypeOK, Ownership, [Next]_vars
  PROVE  Ownership'
<1>1. ASSUME NEW c \in Callers, NEW r \in Requests, Receive(c, r) PROVE Ownership'
  BY <1>1, ReceiveEffect, UnownedStep DEF Receive, PCs, Owning
<1>2. ASSUME NEW c \in Callers, Replay(c) PROVE Ownership'
  BY <1>2, RespondEffect, UnownedStep DEF Replay, PCs, Owning
<1>3. ASSUME NEW c \in Callers, LookupMiss(c) PROVE Ownership'
  BY <1>3, LookupMissEffect, UnownedStep DEF LookupMiss, PCs, Owning
<1>4. ASSUME NEW c \in Callers, Snapshot(c) PROVE Ownership'
  BY <1>4, SnapshotEffect, UnownedStep DEF Snapshot, PCs, Owning
<1>5. ASSUME NEW c \in Callers, Decide(c) PROVE Ownership'
  BY <1>5, DecideEffect, UnownedStep DEF Decide, PCs, Owning
<1>6. ASSUME NEW c \in Callers, CreateJob(c) PROVE Ownership'
  <2>1. \A d \in Callers : d # c /\ calls[d].pc \in Owning => calls[d].job \in JobIds
    BY DEF TypeOK, CallsTyped
  <2>2. CallsOwnJobs'
    <3> SUFFICES ASSUME NEW d \in Callers, calls'[d].pc \in Owning
                 PROVE  /\ jobs'[calls'[d].job].key = calls'[d].req.key
                        /\ jobs'[calls'[d].job].tool = calls'[d].req.tool
                        /\ jobs'[calls'[d].job].risk = Risk(d)'
                        /\ jobs'[calls'[d].job].status = StatusAt(calls'[d].pc)
      BY DEF CallsOwnJobs
    <3>1. CASE d = c
      <4>1. /\ calls'[c].pc = "audit"
            /\ calls'[c].req = calls[c].req
            /\ jobs'[calls'[c].job] = JobRecord(c, "PLANNED", <<"PLANNED">>)
        BY <1>6, CreateJobEffect
      <4> QED BY <3>1, <4>1, JobRecordFields DEF Risk, StatusAt
    <3>2. CASE d # c
      BY <1>6, <2>1, <3>2, CreateJobEffect DEF Ownership, CallsOwnJobs, OnlyCall, Risk
    <3> QED BY <3>1, <3>2
  <2>3. JobsHaveOneCall'
    BY <1>6, <2>1, CreateJobEffect DEF Ownership, JobsHaveOneCall, OnlyCall
  <2> QED BY <2>2, <2>3 DEF Ownership
<1>7. ASSUME NEW c \in Callers, NEW from \in Owning, NEW to \in Owning, Move(c, from, to),
             jobs' = jobs, StatusAt(from) = StatusAt(to)
      PROVE  Ownership'
  BY <1>7, OwnedMove, MoveEffect DEF Ownership, CallsOwnJobs
<1>8. ASSUME NEW c \in Callers, AddAudit(c) \/ RecordPolicyBlock(c) PROVE Ownership'
  <2>1. PICK from \in {"audit", "incident"}, to \in {"approve", "incident", "hold"} :
          Move(c, from, to)
    BY <1>8 DEF AddAudit, AfterAudit, RecordPolicyBlock
  <2> QED BY <1>7, <1>8, <2>1 DEF AddAudit, RecordPolicyBlock, StatusAt, Owning, PCs
<1>9. ASSUME NEW c \in Callers, ExecuteOK(c) \/ ExecuteError(c) \/ RecordJobFailed(c)
      PROVE  Ownership'
  <2>1. PICK from \in {"execute", "failure"}, to \in {"verify", "failure", "fail"} :
          Move(c, from, to)
    BY <1>9 DEF ExecuteOK, ExecuteError, RecordJobFailed
  <2> QED BY <1>7, <1>9, <2>1
          DEF ExecuteOK, ExecuteError, RecordJobFailed, StatusAt, Owning, PCs
<1>10. ASSUME NEW c \in Callers, Approve(c) \/ Run(c) \/ Verify(c) PROVE Ownership'
  <2>1. PICK from \in Owning, to \in Owning, s \in Statuses :
          Move(c, from, to) /\ UpdateJob(c, s) /\ s = StatusAt(to)
    BY <1>10 DEF Approve, Run, Verify, StatusAt, Owning, PCs, Statuses
  <2>2. calls[c].pc \in Owning
    BY <2>1 DEF Move
  <2> QED BY <2>1, <2>2, OwnedMove, UpdateJobKeeps, UpdateJobEffect DEF Ownership
<1>11. ASSUME NEW c \in Callers, Hold(c) \/ Fail(c) \/ Complete(c) PROVE Ownership'
  <2>1. PICK from \in Owning, s \in Statuses :
          UpdateJob(c, s) /\ Respond(c, from, calls[c].job, s)
    BY <1>11 DEF Hold, Fail, Complete, Owning, PCs, Statuses
  <2>2. calls[c].pc \in Owning /\ calls'[c].pc = "idle" /\ OnlyCall(c)
    BY <2>1, RespondEffect
  <2>3. ASSUME NEW d \in Callers, d # c, calls[d].pc \in Owning
        PROVE  jobs'[calls[d].job] = jobs[calls[d].job]
    <3>1. calls[d].job # calls[c].job /\ calls[d].job \in JobIds
      BY <2>2, <2>3 DEF Ownership, JobsHaveOneCall, TypeOK, CallsTyped
    <3> QED BY <2>1, <2>2, <3>1, UpdateJobEffect
  <2> QED BY <2>2, <2>3, UnownedStep DEF PCs, Owning
<1>12. CASE UNCHANGED vars \/ PollPolicyMode \/ Tick \/ \E n \in Nodes : Heartbeat(n)
  <2>1. calls' = calls /\ jobs' = jobs
    BY <1>12 DEF vars, PollPolicyMode, Tick, Heartbeat
  <2> QED BY <2>1 DEF Ownership, CallsOwnJobs, JobsHaveOneCall, Risk
<1> QED BY <1>1, <1>2, <1>3, <1>4, <1>5, <1>6, <1>8, <1>9, <1>10, <1>11, <1>12
        DEF Next, Step

-----------------------------------------------------------------------------
(* What no step takes away: a stored job keeps what it is, a settled one   *)
(* keeps everything, and the audit log only grows.                         *)

Persists ==
  /\ JobIds \subseteq JobIds'
  /\ \A id \in JobIds :
       /\ jobs'[id].key = jobs[id].key
       /\ jobs'[id].tool = jobs[id].tool
       /\ jobs'[id].risk = jobs[id].risk
       /\ jobs[id].status \in Settled => jobs'[id] = jobs[id]
  /\ audits \subseteq audits'

LEMMA Persistence ==
  ASSUME TypeOK, Ownership, [Next]_vars
  PROVE  Persists
<1>1. ASSUME jobs' = jobs, audits \subseteq audits' PROVE Persists
  BY <1>1 DEF Persists, JobIds
<1>2. ASSUME NEW c \in Callers, CreateJob(c) PROVE Persists
  BY <1>2, CreateJobEffect DEF Persists, CreateJob
<1>3. ASSUME NEW c \in Callers, calls[c].pc \in Owning, NEW s \in Statuses,
             UpdateJob(c, s), audits' = audits
      PROVE  Persists
  <2>1. jobs[calls[c].job].status \notin Settled
    BY <1>3 DEF Ownership, CallsOwnJobs, StatusAt, Settled, Held
  <2>2. calls[c].job \in JobIds /\ JobIds' = JobIds
    BY <1>3, UpdateJobEffect DEF JobIds
  <2> QED BY <1>3, <2>1, <2>2, UpdateJobEffect, UpdateJobKeeps DEF Persists, Ownership
<1>4. ASSUME NEW c \in Callers, Step(c) PROVE Persists
  <2>1. CASE CreateJob(c)
    BY <1>2, <2>1
  <2>2. CASE Hold(c) \/ Fail(c) \/ Complete(c) \/ Approve(c) \/ Run(c) \/ Verify(c)
    <3>1. PICK s \in Statuses : UpdateJob(c, s) /\ audits' = audits
      BY <2>2 DEF Hold, Fail, Complete, Approve, Run, Verify, Statuses
    <3>2. calls[c].pc \in Owning
      BY <2>2 DEF Hold, Fail, Complete, Approve, Run, Verify, Respond, Move, Owning, PCs
    <3> QED BY <1>3, <3>1, <3>2
  <2>3. CASE \/ Replay(c) \/ LookupMiss(c) \/ Snapshot(c) \/ Decide(c) \/ AddAudit(c)
             \/ RecordPolicyBlock(c) \/ RecordJobFailed(c)
             \/ ExecuteOK(c) \/ ExecuteError(c)
    BY <1>1, <2>3 DEF Replay, LookupMiss, Snapshot, Decide, AddAudit,
         RecordPolicyBlock, RecordJobFailed, ExecuteOK, ExecuteError
  <2> QED BY <1>4, <2>1, <2>2, <2>3 DEF Step
<1>5. CASE UNCHANGED vars
  BY <1>1, <1>5 DEF vars
<1>6. CASE \/ \E c \in Callers, r \in Requests : Receive(c, r)
           \/ PollPolicyMode \/ Tick \/ \E n \in Nodes : Heartbeat(n)
  BY <1>1, <1>6 DEF Receive, PollPolicyMode, Tick, Heartbeat
<1> QED BY <1>4, <1>5, <1>6 DEF Next

(* No update reaches a settled job, whoever else is inside HandleCall      *)
(* (service.go:109-143, memory.go:223-236).                                *)
THEOREM SettledFinal == Spec => SettledJobsAreFinal
<1> DEFINE Inv == TypeOK /\ Ownership
<1>1. Init => Inv
  BY TypeInit, OwnershipInit
<1>2. Inv /\ [Next]_vars => Inv'
  BY TypeStep, OwnershipStep
<1>3. Inv /\ [Next]_vars =>
        [\A id \in JobIds : jobs[id].status \in Settled => jobs'[id] = jobs[id]]_vars
  BY Persistence DEF Persists
<1> QED BY <1>1, <1>2, <1>3, PTL DEF Spec, SettledJobsAreFinal

-----------------------------------------------------------------------------
(* Every run is justified by the audit log.                                *)

Justified(id) == \E a \in audits : Justifies(a, id)

LEMMA JustifiedPersists ==
  ASSUME Persists, NEW id \in JobIds, Justified(id)
  PROVE  Justified(id)'
BY DEF Persists, Justified, Justifies

LEMMA AllowedByGateStep ==
  ASSUME TypeOK, AllowedByGate, [Next]_vars
  PROVE  AllowedByGate'
<1>1. ASSUME NEW c \in Callers, OnlyCall(c), calls'[c].pc \notin {"create", "audit"}
      PROVE  AllowedByGate'
  BY <1>1 DEF AllowedByGate, OnlyCall, Risk
<1>2. ASSUME NEW c \in Callers, NEW r \in Requests, Receive(c, r) PROVE AllowedByGate'
  BY <1>1, <1>2, ReceiveEffect
<1>3. ASSUME NEW c \in Callers, LookupMiss(c) PROVE AllowedByGate'
  BY <1>1, <1>3, LookupMissEffect
<1>4. ASSUME NEW c \in Callers, Snapshot(c) PROVE AllowedByGate'
  BY <1>1, <1>4, SnapshotEffect
<1>5. ASSUME NEW c \in Callers, Decide(c) PROVE AllowedByGate'
  <2> SUFFICES ASSUME NEW d \in Callers,
                      calls'[d].pc \in {"create", "audit"} /\ Allow(calls'[d].decision)
               PROVE  /\ Risk(d)' # "LOW" => calls'[d].allowWrites
                      /\ Risk(d)' = "HIGH" =>
                           /\ calls'[d].req.approve
                           /\ \/ calls'[d].req.mfa /\ calls'[d].req.second
                              \/ calls'[d].decision.reason = "aggressive mode"
    BY DEF AllowedByGate, Allow
  <2>1. CASE d = c
    BY <1>5, <2>1, DecideEffect DEF Risk
  <2>2. CASE d # c
    BY <1>5, <2>2, DecideEffect DEF AllowedByGate, OnlyCall, Risk
  <2> QED BY <2>1, <2>2
<1>6. ASSUME NEW c \in Callers, CreateJob(c) PROVE AllowedByGate'
  <2> SUFFICES ASSUME NEW d \in Callers,
                      calls'[d].pc \in {"create", "audit"} /\ Allow(calls'[d].decision)
               PROVE  /\ Risk(d)' # "LOW" => calls'[d].allowWrites
                      /\ Risk(d)' = "HIGH" =>
                           /\ calls'[d].req.approve
                           /\ \/ calls'[d].req.mfa /\ calls'[d].req.second
                              \/ calls'[d].decision.reason = "aggressive mode"
    BY DEF AllowedByGate, Allow
  <2>1. calls[c].pc = "create"
    BY <1>6 DEF CreateJob
  <2>2. CASE d = c
    BY <1>6, <2>1, <2>2, CreateJobEffect DEF AllowedByGate, Risk
  <2>3. CASE d # c
    BY <1>6, <2>3, CreateJobEffect DEF AllowedByGate, OnlyCall, Risk
  <2> QED BY <2>2, <2>3
<1>7. ASSUME NEW c \in Callers, NEW from, NEW to \in Owning \ {"audit"}, Move(c, from, to)
      PROVE  AllowedByGate'
  BY <1>1, <1>7, MoveEffect DEF Owning
<1>8. ASSUME NEW c \in Callers, NEW from, NEW id, NEW st, Respond(c, from, id, st)
      PROVE  AllowedByGate'
  BY <1>1, <1>8, RespondEffect
<1>9. ASSUME NEW c \in Callers, Replay(c) \/ Hold(c) \/ Fail(c) \/ Complete(c)
      PROVE  AllowedByGate'
  BY <1>8, <1>9 DEF Replay, Hold, Fail, Complete
<1>10. ASSUME NEW c \in Callers,
              \/ AddAudit(c) \/ RecordPolicyBlock(c) \/ Approve(c) \/ Run(c) \/ Verify(c)
              \/ ExecuteOK(c) \/ ExecuteError(c) \/ RecordJobFailed(c)
       PROVE  AllowedByGate'
  <2>1. PICK from \in PCs, to \in Owning \ {"audit"} : Move(c, from, to)
    BY <1>10 DEF AddAudit, AfterAudit, RecordPolicyBlock, Approve, Run, Verify,
         ExecuteOK, ExecuteError, RecordJobFailed, Owning, PCs
  <2> QED BY <1>7, <2>1
<1>11. CASE UNCHANGED vars \/ PollPolicyMode \/ Tick \/ \E n \in Nodes : Heartbeat(n)
  <2>1. calls' = calls
    BY <1>11 DEF vars, PollPolicyMode, Tick, Heartbeat
  <2> QED BY <2>1 DEF AllowedByGate, Risk
<1> QED BY <1>2, <1>3, <1>4, <1>5, <1>6, <1>9, <1>10, <1>11 DEF Next, Step

(* A call is cleared by its audit, and by nothing else. *)
LEMMA ClearedBefore ==
  ASSUME TypeOK, [Next]_vars, NEW d \in Callers, calls'[d].pc \in Cleared
  PROVE  /\ calls'[d].job = calls[d].job
         /\ \/ calls[d].pc \in Cleared
            \/ AddAudit(d) /\ Allow(calls[d].decision)
<1>1. ASSUME NEW c \in Callers, OnlyCall(c), calls'[c].pc \notin Cleared
      PROVE  d # c /\ calls'[d] = calls[d]
  BY <1>1 DEF OnlyCall
<1>2. CASE \E c \in Callers, r \in Requests : Receive(c, r)
  BY <1>1, <1>2, ReceiveEffect DEF Cleared
<1>3. CASE \E c \in Callers : LookupMiss(c) \/ Snapshot(c) \/ Decide(c)
  BY <1>1, <1>3, LookupMissEffect, SnapshotEffect, DecideEffect DEF Cleared
<1>4. CASE \E c \in Callers : CreateJob(c)
  BY <1>1, <1>4, CreateJobEffect DEF Cleared
<1>5. CASE \E c \in Callers : Replay(c) \/ Hold(c) \/ Fail(c) \/ Complete(c)
  <2>1. PICK c \in Callers : \E from, id, st : Respond(c, from, id, st)
    BY <1>5 DEF Replay, Hold, Fail, Complete
  <2> QED BY <1>1, <2>1, RespondEffect DEF Cleared
<1>6. ASSUME NEW c \in Callers, NEW from, NEW to, Move(c, from, to),
             from \in Cleared \/ to \notin Cleared
      PROVE  calls'[d].job = calls[d].job /\ calls[d].pc \in Cleared
  BY <1>6, MoveEffect DEF OnlyCall
<1>7. CASE \E c \in Callers :
             \/ RecordPolicyBlock(c) \/ Approve(c) \/ Run(c) \/ Verify(c)
             \/ ExecuteOK(c) \/ ExecuteError(c) \/ RecordJobFailed(c)
  <2>1. PICK c \in Callers :
          \E from, to : Move(c, from, to) /\ (from \in Cleared \/ to \notin Cleared)
    BY <1>7 DEF RecordPolicyBlock, Approve, Run, Verify, ExecuteOK, ExecuteError,
         RecordJobFailed, Cleared
  <2> QED BY <1>6, <2>1
<1>8. ASSUME NEW c \in Callers, AddAudit(c) PROVE
         /\ calls'[d].job = calls[d].job
         /\ calls[d].pc \in Cleared \/ (AddAudit(d) /\ Allow(calls[d].decision))
  <2>1. Move(c, "audit", AfterAudit(calls[c].decision))
    BY <1>8 DEF AddAudit
  <2>2. CASE Allow(calls[c].decision)
    BY <1>8, <2>1, <2>2, MoveEffect DEF OnlyCall
  <2>3. CASE ~Allow(calls[c].decision)
    BY <1>6, <2>1, <2>3 DEF AfterAudit, Cleared
  <2> QED BY <2>2, <2>3
<1>9. CASE UNCHANGED vars \/ PollPolicyMode \/ Tick \/ \E n \in Nodes : Heartbeat(n)
  BY <1>9 DEF vars, PollPolicyMode, Tick, Heartbeat
<1> QED BY <1>2, <1>3, <1>4, <1>5, <1>7, <1>8, <1>9 DEF Next, Step

LEMMA LoggedStep ==
  ASSUME TypeOK, Ownership, AllowedByGate, ClearedCallsAreLogged, [Next]_vars
  PROVE  ClearedCallsAreLogged'
<1> SUFFICES ASSUME NEW d \in Callers, calls'[d].pc \in Cleared
             PROVE  Justified(calls[d].job)' /\ calls'[d].job = calls[d].job
  BY DEF ClearedCallsAreLogged, Justified
<1>1. calls'[d].job = calls[d].job
  BY ClearedBefore
<1>2. CASE calls[d].pc \in Cleared
  <2>1. calls[d].job \in JobIds /\ Justified(calls[d].job)
    BY <1>2 DEF ClearedCallsAreLogged, Justified, TypeOK, CallsTyped, Cleared, Owning, PCs
  <2> QED BY <1>1, <2>1, Persistence, JustifiedPersists
<1>3. CASE AddAudit(d) /\ Allow(calls[d].decision)
  <2>1. calls[d].pc = "audit" /\ calls[d].pc \in Owning
    BY <1>3 DEF AddAudit, Move, Owning, PCs
  <2>2. calls[d].job \in JobIds
    BY <2>1 DEF TypeOK, CallsTyped
  <2>3. /\ jobs[calls[d].job].tool = calls[d].req.tool
        /\ jobs[calls[d].job].risk = Risk(d)
    BY <2>1 DEF Ownership, CallsOwnJobs
  <2>4. /\ Risk(d) # "LOW" => calls[d].allowWrites
        /\ Risk(d) = "HIGH" =>
             /\ calls[d].req.approve
             /\ \/ calls[d].req.mfa /\ calls[d].req.second
                \/ calls[d].decision.reason = "aggressive mode"
    BY <1>3, <2>1 DEF AllowedByGate
  <2>5. AuditEvent(d) \in audits' /\ jobs' = jobs
    BY <1>3 DEF AddAudit
  <2>6. Justifies(AuditEvent(d), calls[d].job)
    BY <2>3, <2>4 DEF Justifies, AuditEvent
  <2>7. \E a \in audits' : Justifies(a, calls[d].job)
    BY <2>5, <2>6
  <2> QED BY <1>1, <2>5, <2>7 DEF Justified, Justifies
<1> QED BY <1>1, <1>2, <1>3, ClearedBefore

LEMMA JustifiedStep ==
  ASSUME TypeOK, Ownership, ClearedCallsAreLogged, RunsAreJustified, [Next]_vars
  PROVE  RunsAreJustified'
<1> SUFFICES ASSUME NEW id \in executed' PROVE Justified(id)'
  BY DEF RunsAreJustified, Justified
<1>1. CASE id \in executed
  <2>1. id \in JobIds /\ Justified(id)
    BY <1>1 DEF RunsAreJustified, Justified, TypeOK
  <2> QED BY <2>1, Persistence, JustifiedPersists
<1>2. CASE id \notin executed
  <2>1. PICK c \in Callers : (ExecuteOK(c) \/ ExecuteError(c)) /\ id = calls[c].job
    BY <1>2 DEF Next, Step, vars, Receive, Replay, LookupMiss, Snapshot, Decide, CreateJob,
         AddAudit, RecordPolicyBlock, Hold, Approve, Run, ExecuteOK, ExecuteError,
         RecordJobFailed, Fail, Verify, Complete, Heartbeat, PollPolicyMode, Tick
  <2>2. calls[c].pc = "execute"
    BY <2>1 DEF ExecuteOK, ExecuteError, Move
  <2>3. id \in JobIds /\ Justified(id)
    BY <2>1, <2>2 DEF ClearedCallsAreLogged, Justified, TypeOK, CallsTyped, Cleared, Owning, PCs
  <2> QED BY <2>3, Persistence, JustifiedPersists
<1> QED BY <1>1, <1>2

(* No tool is run that the audit log does not justify: writes were allowed *)
(* by the health gate, and a HIGH tool was dually approved or let through  *)
(* by the aggressive mode (service.go:58-129).                             *)
THEOREM RunsJustified == Spec => []RunsAreJustified
<1> DEFINE Inv == /\ TypeOK /\ Ownership /\ AllowedByGate
                  /\ ClearedCallsAreLogged /\ RunsAreJustified
<1>1. Init => Inv
  <2> SUFFICES ASSUME Init PROVE Inv
    OBVIOUS
  <2>1. \A c \in Callers : calls[c].pc = "idle"
    BY IdleTyped DEF Init
  <2>2. AllowedByGate /\ ClearedCallsAreLogged
    BY <2>1 DEF AllowedByGate, ClearedCallsAreLogged, Cleared
  <2>3. RunsAreJustified
    BY DEF Init, RunsAreJustified
  <2> QED BY <2>2, <2>3, TypeInit, OwnershipInit
<1>2. Inv /\ [Next]_vars => Inv'
  BY TypeStep, OwnershipStep, AllowedByGateStep, LoggedStep, JustifiedStep
<1>3. Inv => RunsAreJustified
  OBVIOUS
<1> QED BY <1>1, <1>2, <1>3, PTL DEF Spec

-----------------------------------------------------------------------------
(* Keys.                                                                   *)

(* A step that stores no job changes neither the keys nor the index.       *)
LEMMA KeysPersist ==
  ASSUME TypeOK, Ownership, [Next]_vars, \A c \in Callers : ~CreateJob(c)
  PROVE  /\ JobIds' = JobIds /\ Len(jobs') = Len(jobs)
         /\ \A id \in JobIds : jobs'[id].key = jobs[id].key
         /\ byIdemKey' = byIdemKey
         /\ seen' = seen
<1>1. byIdemKey' = byIdemKey /\ seen' = seen
  BY DEF Next, Step, vars, Receive, Replay, LookupMiss, Snapshot, Decide, AddAudit,
     RecordPolicyBlock, Hold, Approve, Run, ExecuteOK, ExecuteError, RecordJobFailed,
     Fail, Verify, Complete, Heartbeat, PollPolicyMode, Tick
<1>2. TypeOK'
  BY TypeStep
<1>3. Len(jobs') = Len(jobs) /\ JobIds' = JobIds
  BY <1>1, <1>2 DEF TypeOK, JobIds
<1> QED BY <1>1, <1>3, Persistence DEF Persists

LEMMA MissesStep ==
  ASSUME TypeOK, Ownership, IndexIsComplete, MissesPrecedeJobs, [Next]_vars
  PROVE  MissesPrecedeJobs'
<1> DEFINE Looking == {"snapshot", "decide", "create"}
<1>1. ASSUME NEW c \in Callers, CreateJob(c) PROVE MissesPrecedeJobs'
  <2> SUFFICES ASSUME NEW d \in Callers, calls'[d].pc \in Looking, calls'[d].req.key # NoKey
               PROVE  /\ calls'[d].since <= Len(jobs')
                      /\ \A id \in JobIds' :
                           jobs'[id].key = calls'[d].req.key => calls'[d].since < id
    BY DEF MissesPrecedeJobs
  <2>1. d # c /\ calls'[d] = calls[d]
    BY <1>1, CreateJobEffect DEF OnlyCall
  <2>2. calls[d].since \in Nat /\ calls[d].since <= Len(jobs) /\ Len(jobs) \in Nat
        /\ Len(jobs') = Len(jobs) + 1
    BY <1>1, <2>1, CreateJobEffect DEF MissesPrecedeJobs, TypeOK, CallsTyped, Call
  <2>3. ASSUME NEW id \in JobIds', jobs'[id].key = calls[d].req.key
        PROVE  calls[d].since < id
    <3>1. CASE id \in JobIds
      BY <1>1, <2>1, <2>3, <3>1, CreateJobEffect DEF MissesPrecedeJobs
    <3>2. CASE id = Len(jobs) + 1
      BY <2>2, <3>2
    <3> QED BY <1>1, <3>1, <3>2, CreateJobEffect
  <2> QED BY <2>1, <2>2, <2>3
<1>2. ASSUME NEW d \in Callers, \A c \in Callers : ~CreateJob(c),
             calls'[d].pc \in Looking, calls'[d].req.key # NoKey
      PROVE  \/ /\ calls[d].pc \in Looking
                /\ calls'[d].req = calls[d].req
                /\ calls'[d].since = calls[d].since
             \/ /\ \A id \in JobIds : jobs[id].key # calls'[d].req.key
                /\ calls'[d].since = Len(jobs)
  <2>1. ASSUME NEW c \in Callers, OnlyCall(c), calls'[c].pc \notin Looking
        PROVE  d # c /\ calls'[d] = calls[d]
    BY <1>2, <2>1 DEF OnlyCall
  <2>2. ASSUME NEW c \in Callers, NEW r \in Requests, Receive(c, r)
        PROVE  calls'[d] = calls[d]
    BY <1>2, <2>2, ReceiveEffect DEF OnlyCall
  <2>3. CASE LookupMiss(d)
    <3>1. /\ calls'[d].since = Len(jobs)
          /\ calls'[d].req.key = calls[d].req.key
          /\ byIdemKey[calls[d].req.key] = 0
      BY <2>3, LookupMissEffect DEF LookupMiss
    <3>2. ASSUME NEW id \in JobIds, jobs[id].key = calls'[d].req.key PROVE FALSE
      BY <1>2, <3>1, <3>2 DEF IndexIsComplete, JobIds, TypeOK
    <3> QED BY <3>1, <3>2
  <2>4. CASE \E c \in Callers : LookupMiss(c) /\ c # d
    BY <1>2, <2>4, LookupMissEffect DEF OnlyCall
  <2>5. CASE \E c \in Callers : Snapshot(c) \/ Decide(c)
    BY <1>2, <2>5, SnapshotEffect, DecideEffect DEF Snapshot, Decide, OnlyCall
  <2>6. CASE \E c \in Callers : Replay(c) \/ Hold(c) \/ Fail(c) \/ Complete(c)
    <3>1. PICK c \in Callers : \E from, id, st : Respond(c, from, id, st)
      BY <2>6 DEF Replay, Hold, Fail, Complete
    <3> QED BY <1>2, <2>1, <3>1, RespondEffect
  <2>7. CASE \E c \in Callers :
               \/ AddAudit(c) \/ RecordPolicyBlock(c) \/ Approve(c) \/ Run(c) \/ Verify(c)
               \/ ExecuteOK(c) \/ ExecuteError(c) \/ RecordJobFailed(c)
    <3>1. PICK c \in Callers : \E from, to : Move(c, from, to) /\ to \notin Looking
      BY <2>7 DEF AddAudit, AfterAudit, RecordPolicyBlock, Approve, Run, Verify,
           ExecuteOK, ExecuteError, RecordJobFailed
    <3> QED BY <1>2, <2>1, <3>1, MoveEffect
  <2>8. CASE UNCHANGED vars \/ PollPolicyMode \/ Tick \/ \E n \in Nodes : Heartbeat(n)
    <3>1. calls' = calls
      BY <2>8 DEF vars, PollPolicyMode, Tick, Heartbeat
    <3> QED BY <1>2, <3>1
  <2> QED BY <1>2, <2>2, <2>3, <2>4, <2>5, <2>6, <2>7, <2>8 DEF Next, Step
<1>3. ASSUME \A c \in Callers : ~CreateJob(c) PROVE MissesPrecedeJobs'
  <2> SUFFICES ASSUME NEW d \in Callers, calls'[d].pc \in Looking, calls'[d].req.key # NoKey
               PROVE  /\ calls'[d].since <= Len(jobs')
                      /\ \A id \in JobIds' :
                           jobs'[id].key = calls'[d].req.key => calls'[d].since < id
    BY DEF MissesPrecedeJobs
  <2>1. /\ JobIds' = JobIds /\ Len(jobs') = Len(jobs) /\ Len(jobs) \in Nat
        /\ \A id \in JobIds : jobs'[id].key = jobs[id].key
    BY <1>3, KeysPersist DEF TypeOK
  <2>2. CASE /\ calls[d].pc \in Looking
             /\ calls'[d].req = calls[d].req
             /\ calls'[d].since = calls[d].since
    BY <2>1, <2>2 DEF MissesPrecedeJobs
  <2>3. CASE /\ \A id \in JobIds : jobs[id].key # calls'[d].req.key
             /\ calls'[d].since = Len(jobs)
    BY <2>1, <2>3
  <2> QED BY <1>2, <1>3, <2>2, <2>3
<1> QED BY <1>1, <1>3

LEMMA IndexStep ==
  ASSUME TypeOK, Ownership, IndexIsComplete, MissesPrecedeJobs, DuplicateKeysOverlap,
         [Next]_vars
  PROVE  IndexIsComplete' /\ DuplicateKeysOverlap'
<1>1. CASE \A c \in Callers : ~CreateJob(c)
  BY <1>1, KeysPersist DEF IndexIsComplete, DuplicateKeysOverlap
<1>2. ASSUME NEW c \in Callers, CreateJob(c) PROVE IndexIsComplete' /\ DuplicateKeysOverlap'
  <2> DEFINE new == Len(jobs) + 1
             key == calls[c].req.key
  <2>1. /\ Len(jobs) \in Nat
        /\ JobIds' = JobIds \cup {new}
        /\ jobs'[new].key = key
        /\ \A id \in JobIds : jobs'[id] = jobs[id]
    BY <1>2, CreateJobEffect, JobRecordFields
  <2>2. \A id \in JobIds : id \in Nat /\ id < new
    BY <2>1 DEF JobIds
  <2>3. key \in Keys \cup {NoKey} /\ NoKey \notin Keys
    BY PipelineAssumption DEF TypeOK, CallsTyped, Call, Request
  <2>4. /\ key # NoKey => byIdemKey'[key] = new
        /\ \A k \in Keys \ {key} : byIdemKey'[k] = byIdemKey[k]
    BY <1>2, <2>3 DEF CreateJob, IndexKey, TypeOK
  <2>5. IndexIsComplete'
    <3> SUFFICES ASSUME NEW id \in JobIds', jobs'[id].key # NoKey
                 PROVE  id <= byIdemKey'[jobs'[id].key]
      BY DEF IndexIsComplete
    <3>1. CASE jobs'[id].key = key
      BY <2>1, <2>2, <2>4, <3>1
    <3>2. CASE jobs'[id].key # key
      <4>1. id \in JobIds /\ jobs[id].key # NoKey /\ jobs'[id] = jobs[id]
        BY <2>1, <3>2
      <4>2. jobs[id].key \in Keys \ {key}
        <5>1. jobs \in Seq(Job)
          BY DEF TypeOK
        <5>2. jobs[id] \in Job
          BY <4>1, <5>1 DEF JobIds
        <5> QED BY <3>2, <4>1, <5>2 DEF Job
      <4> QED BY <2>4, <4>1, <4>2 DEF IndexIsComplete
    <3> QED BY <3>1, <3>2
  <2>6. /\ seen'[new] = calls[c].since
        /\ \A id \in JobIds : seen'[id] = seen[id]
    BY <1>2, <2>1 DEF CreateJob, TypeOK, CallsTyped, Call, JobIds
  <2>7. calls[c].pc = "create"
    BY <1>2 DEF CreateJob
  <2>8. DuplicateKeysOverlap'
    <3> SUFFICES ASSUME NEW i \in JobIds', NEW j \in JobIds', i < j,
                        jobs'[i].key = jobs'[j].key, jobs'[i].key # NoKey
                 PROVE  seen'[j] < i
      BY DEF DuplicateKeysOverlap
    <3>1. i \in JobIds
      BY <2>1, <2>2
    <3>2. CASE j \in JobIds
      BY <2>1, <2>6, <3>1, <3>2 DEF DuplicateKeysOverlap
    <3>3. CASE j = new
      BY <2>1, <2>6, <2>7, <3>1, <3>3 DEF MissesPrecedeJobs
    <3> QED BY <2>1, <3>2, <3>3
  <2> QED BY <2>5, <2>8
<1> QED BY <1>1, <1>2

(* Two jobs share an idempotency key only when the calls that made them    *)
(* overlapped: the later one's call had looked the key up before the       *)
(* earlier one was stored (service.go:43-87, memory.go:191-221).           *)
THEOREM KeysOverlap == Spec => []DuplicateKeysOverlap
<1> DEFINE Inv == /\ TypeOK /\ Ownership
                  /\ IndexIsComplete /\ MissesPrecedeJobs /\ DuplicateKeysOverlap
<1>1. Init => Inv
  <2> SUFFICES ASSUME Init PROVE Inv
    OBVIOUS
  <2>1. JobIds = {} /\ \A c \in Callers : calls[c].pc = "idle"
    BY IdleTyped DEF Init, JobIds
  <2>2. IndexIsComplete /\ MissesPrecedeJobs /\ DuplicateKeysOverlap
    BY <2>1 DEF IndexIsComplete, MissesPrecedeJobs, DuplicateKeysOverlap
  <2> QED BY <2>2, TypeInit, OwnershipInit
<1>2. Inv /\ [Next]_vars => Inv'
  BY TypeStep, OwnershipStep, MissesStep, IndexStep
<1>3. Inv => DuplicateKeysOverlap
  OBVIOUS
<1> QED BY <1>1, <1>2, <1>3, PTL DEF Spec

-----------------------------------------------------------------------------
(* What is on record of a call's job.                                      *)

(* A step of call c leaves alone the other calls, their jobs, and what is  *)
(* recorded of every job but c's own.                                      *)
Quiet(c) ==
  /\ OnlyCall(c)
  /\ JobIds \subseteq JobIds'
  /\ audits \subseteq audits'
  /\ \A id \in JobIds : id # calls[c].job =>
       /\ jobs'[id] = jobs[id]
       /\ id \in executed' <=> id \in executed
       /\ PolicyBlock(id) \in incidents' <=> PolicyBlock(id) \in incidents
       /\ JobFailed(id) \in incidents' <=> JobFailed(id) \in incidents

LEMMA StepIsQuiet ==
  ASSUME TypeOK, NEW c \in Callers, Step(c) \/ \E r \in Requests : Receive(c, r)
  PROVE  Quiet(c)
<1>1. ASSUME OnlyCall(c), jobs' = jobs, audits \subseteq audits',
             executed' = executed, incidents' = incidents
      PROVE  Quiet(c)
  BY <1>1 DEF Quiet, JobIds
<1>2. CASE \E r \in Requests : Receive(c, r)
  BY <1>1, <1>2, ReceiveEffect DEF Receive
<1>3. CASE LookupMiss(c) \/ Snapshot(c) \/ Decide(c)
  BY <1>1, <1>3, LookupMissEffect, SnapshotEffect, DecideEffect
     DEF LookupMiss, Snapshot, Decide
<1>4. CASE Replay(c)
  <2>1. OnlyCall(c)
    BY <1>4, RespondEffect DEF Replay
  <2> QED BY <1>1, <1>4, <2>1 DEF Replay
<1>5. CASE CreateJob(c)
  BY <1>5, CreateJobEffect DEF Quiet, CreateJob
<1>6. CASE AddAudit(c)
  BY <1>1, <1>6, MoveEffect DEF AddAudit
<1>7. CASE RecordPolicyBlock(c) \/ RecordJobFailed(c)
  <2>1. OnlyCall(c)
    BY <1>7, MoveEffect DEF RecordPolicyBlock, RecordJobFailed
  <2>2. PICK k \in {"policy_block", "job_failed"} :
          incidents' = incidents \cup {[kind |-> k, job |-> calls[c].job]}
    BY <1>7 DEF RecordPolicyBlock, RecordJobFailed
  <2>3. jobs' = jobs /\ audits' = audits /\ executed' = executed
    BY <1>7 DEF RecordPolicyBlock, RecordJobFailed
  <2> QED BY <2>1, <2>2, <2>3 DEF Quiet, JobIds, PolicyBlock, JobFailed
<1>8. CASE ExecuteOK(c) \/ ExecuteError(c)
  <2>1. OnlyCall(c)
    BY <1>8, MoveEffect DEF ExecuteOK, ExecuteError
  <2> QED BY <1>8, <2>1 DEF ExecuteOK, ExecuteError, Quiet, JobIds
<1>9. CASE Approve(c) \/ Run(c) \/ Verify(c) \/ Hold(c) \/ Fail(c) \/ Complete(c)
  <2>1. OnlyCall(c)
    <3>1. CASE Approve(c) \/ Run(c) \/ Verify(c)
      BY <3>1, MoveEffect DEF Approve, Run, Verify
    <3>2. CASE Hold(c) \/ Fail(c) \/ Complete(c)
      <4>1. PICK from, id, st : Respond(c, from, id, st)
        BY <3>2 DEF Hold, Fail, Complete
      <4> QED BY <4>1, RespondEffect
    <3> QED BY <1>9, <3>1, <3>2
  <2>2. calls[c].pc \in Owning
    BY <1>9 DEF Approve, Run, Verify, Hold, Fail, Complete, Respond, Move, Owning, PCs
  <2>3. PICK s \in Statuses : UpdateJob(c, s)
    BY <1>9 DEF Approve, Run, Verify, Hold, Fail, Complete, Statuses
  <2>4. audits' = audits /\ executed' = executed /\ incidents' = incidents
    BY <1>9 DEF Approve, Run, Verify, Hold, Fail, Complete
  <2>5. /\ JobIds' = JobIds
        /\ \A id \in JobIds : id # calls[c].job => jobs'[id] = jobs[id]
    BY <2>2, <2>3, UpdateJobEffect DEF JobIds
  <2> QED BY <2>1, <2>4, <2>5 DEF Quiet
<1> QED BY <1>2, <1>3, <1>4, <1>5, <1>6, <1>7, <1>8, <1>9 DEF Step

(* The audits a call has of its approvals. *)
Noted(c, id) ==
  \E a \in audits :
    /\ a.job = id
    /\ a.approved = calls[c].req.approve
    /\ a.mfa = calls[c].req.mfa
    /\ a.second = calls[c].req.second

LEMMA OthersOnRecord ==
  ASSUME TypeOK, JobsHaveOneCall, CallsAreOnRecord, NEW c \in Callers, Quiet(c),
         NEW d \in Callers, d # c, calls'[d].pc \in Owning
  PROVE  OnRecord(d)'
<1>1. calls'[d] = calls[d] /\ calls[d].pc \in Owning /\ OnRecord(d)
  BY DEF Quiet, OnlyCall, CallsAreOnRecord
<1>2. calls[d].job \in JobIds
  BY <1>1 DEF TypeOK, CallsTyped
<1>3. calls[d].job # calls[c].job
  BY <1>1, <1>2 DEF JobsHaveOneCall, TypeOK, CallsTyped, JobIds
<1>4. /\ jobs'[calls[d].job] = jobs[calls[d].job]
      /\ calls[d].job \in executed' <=> calls[d].job \in executed
      /\ PolicyBlock(calls[d].job) \in incidents' <=> PolicyBlock(calls[d].job) \in incidents
      /\ JobFailed(calls[d].job) \in incidents' <=> JobFailed(calls[d].job) \in incidents
      /\ audits \subseteq audits'
  BY <1>2, <1>3 DEF Quiet
<1>5. calls[d].pc # "audit" => Noted(d, calls[d].job)
  BY <1>1 DEF OnRecord, Noted
<1>6. calls[d].pc # "audit" => Noted(d, calls[d].job)'
  BY <1>1, <1>4, <1>5 DEF Noted
<1>7. (PolicyBlock(calls[d].job) = PolicyBlock(calls[d].job)')
      /\ (JobFailed(calls[d].job) = JobFailed(calls[d].job)')
  BY <1>1 DEF PolicyBlock, JobFailed
<1> QED BY <1>1, <1>4, <1>6, <1>7 DEF OnRecord, Noted

LEMMA OnRecordStep ==
  ASSUME TypeOK, Ownership, CallsAreOnRecord, IncidentsNameJobs, [Next]_vars
  PROVE  CallsAreOnRecord'
<1>1. ASSUME NEW c \in Callers, Quiet(c), calls'[c].pc \in Owning => OnRecord(c)'
      PROVE  CallsAreOnRecord'
  BY <1>1, OthersOnRecord DEF CallsAreOnRecord, Ownership
<1>2. ASSUME NEW c \in Callers, NEW r \in Requests, Receive(c, r) PROVE CallsAreOnRecord'
  BY <1>1, <1>2, StepIsQuiet, ReceiveEffect DEF Owning
<1>3. ASSUME NEW c \in Callers, LookupMiss(c) \/ Snapshot(c) \/ Decide(c)
      PROVE  CallsAreOnRecord'
  BY <1>1, <1>3, StepIsQuiet, LookupMissEffect, SnapshotEffect, DecideEffect
     DEF Owning, Step
<1>4. ASSUME NEW c \in Callers, Replay(c) \/ Hold(c) \/ Fail(c) \/ Complete(c)
      PROVE  CallsAreOnRecord'
  <2>1. Quiet(c)
    BY <1>4, StepIsQuiet DEF Step
  <2>2. PICK from, id, st : Respond(c, from, id, st)
    BY <1>4 DEF Replay, Hold, Fail, Complete
  <2> QED BY <1>1, <2>1, <2>2, RespondEffect DEF Owning
<1>5. ASSUME NEW c \in Callers, CreateJob(c) PROVE CallsAreOnRecord'
  <2> DEFINE new == Len(jobs) + 1
  <2>1. Quiet(c)
    BY <1>5, StepIsQuiet DEF Step
  <2>2. /\ calls'[c].pc = "audit" /\ calls'[c].job = new
        /\ calls'[c].decision = calls[c].decision
        /\ new \notin JobIds
        /\ jobs'[new] = JobRecord(c, "PLANNED", <<"PLANNED">>)
    BY <1>5, CreateJobEffect
  <2>3. executed' = executed /\ incidents' = incidents
    BY <1>5 DEF CreateJob
  <2> HIDE DEF new
  <2>4. new \notin executed
    BY <2>2 DEF TypeOK
  <2>5. \A i \in incidents : i.job # new
    BY <2>2 DEF IncidentsNameJobs
  <2>6. PolicyBlock(new) \notin incidents /\ JobFailed(new) \notin incidents
    BY <2>5 DEF PolicyBlock, JobFailed
  <2>7. jobs'[new].decision = calls[c].decision.type
    BY <2>2, JobRecordFields
  <2>8. OnRecord(c)'
    BY <2>2, <2>3, <2>4, <2>6, <2>7 DEF OnRecord, PolicyBlock, JobFailed
  <2> QED BY <1>1, <2>1, <2>8
<1>6. ASSUME NEW c \in Callers, AddAudit(c) PROVE CallsAreOnRecord'
  <2> DEFINE id == calls[c].job
  <2>1. Quiet(c)
    BY <1>6, StepIsQuiet DEF Step
  <2>2. /\ calls[c].pc = "audit"
        /\ calls'[c].pc = AfterAudit(calls[c].decision)
        /\ calls'[c].job = id
        /\ calls'[c].req = calls[c].req
        /\ calls'[c].decision = calls[c].decision
    BY <1>6, MoveEffect DEF AddAudit
  <2>3. OnRecord(c)
    BY <2>2 DEF CallsAreOnRecord, Owning, PCs
  <2>4. jobs' = jobs /\ executed' = executed /\ incidents' = incidents
    BY <1>6 DEF AddAudit
  <2>5. Noted(c, id)'
    <3>1. AuditEvent(c) \in audits'
      BY <1>6 DEF AddAudit
    <3> QED BY <2>2, <3>1 DEF Noted, AuditEvent
  <2>6. /\ Allow(calls[c].decision) <=> calls'[c].pc \in Cleared
        /\ calls'[c].pc = "incident" => calls[c].decision.type = "BLOCKED"
        /\ calls'[c].pc \notin {"failure", "fail", "verify", "complete"}
        /\ calls'[c].pc = "hold" => calls[c].decision.type # "BLOCKED"
    BY <2>2 DEF AfterAudit, Allow, Cleared
  <2>7. /\ jobs[id].decision = calls[c].decision.type
        /\ id \notin executed
        /\ PolicyBlock(id) \notin incidents /\ JobFailed(id) \notin incidents
    BY <2>2, <2>3 DEF OnRecord
  <2> HIDE DEF id
  <2>8. OnRecord(c)'
    BY <2>2, <2>4, <2>5, <2>6, <2>7
       DEF OnRecord, Noted, Allow, PolicyBlock, JobFailed, id
  <2> QED BY <1>1, <2>1, <2>8
<1>7. ASSUME NEW c \in Callers, RecordPolicyBlock(c) \/ RecordJobFailed(c)
      PROVE  CallsAreOnRecord'
  <2> DEFINE id == calls[c].job
  <2>1. Quiet(c)
    BY <1>7, StepIsQuiet DEF Step
  <2>2. /\ calls'[c].job = id
        /\ calls'[c].req = calls[c].req
        /\ calls'[c].decision = calls[c].decision
        /\ \/ /\ calls[c].pc = "incident" /\ calls'[c].pc = "hold"
              /\ incidents' = incidents \cup {PolicyBlock(id)}
           \/ /\ calls[c].pc = "failure" /\ calls'[c].pc = "fail"
              /\ incidents' = incidents \cup {JobFailed(id)}
    BY <1>7, MoveEffect DEF RecordPolicyBlock, RecordJobFailed, PolicyBlock, JobFailed
  <2>3. OnRecord(c)
    BY <2>2 DEF CallsAreOnRecord, Owning, PCs
  <2>4. jobs' = jobs /\ executed' = executed /\ audits' = audits
    BY <1>7 DEF RecordPolicyBlock, RecordJobFailed
  <2>5. PolicyBlock(id) # JobFailed(id)
    BY DEF PolicyBlock, JobFailed
  <2>6. Noted(c, id)'
    BY <2>2, <2>3, <2>4 DEF OnRecord, Noted
  <2> HIDE DEF id
  <2>7. /\ PolicyBlock(id) \in incidents' <=> calls'[c].pc = "hold"
        /\ JobFailed(id) \in incidents' <=> calls'[c].pc = "fail"
        /\ calls'[c].pc = "hold" => calls[c].decision.type = "BLOCKED"
    BY <2>2, <2>3, <2>5 DEF OnRecord, id
  <2>8. OnRecord(c)'
    BY <2>2, <2>3, <2>4, <2>6, <2>7
       DEF OnRecord, Noted, Allow, Cleared, PolicyBlock, JobFailed, id
  <2> QED BY <1>1, <2>1, <2>8
<1>8. ASSUME NEW c \in Callers, Approve(c) \/ Run(c) \/ Verify(c) PROVE CallsAreOnRecord'
  <2> DEFINE id == calls[c].job
  <2>1. Quiet(c)
    BY <1>8, StepIsQuiet DEF Step
  <2>2. /\ calls'[c].job = id
        /\ calls'[c].req = calls[c].req
        /\ calls'[c].decision = calls[c].decision
        /\ \/ calls[c].pc = "approve" /\ calls'[c].pc = "run"
           \/ calls[c].pc = "run" /\ calls'[c].pc = "execute"
           \/ calls[c].pc = "verify" /\ calls'[c].pc = "complete"
    BY <1>8, MoveEffect DEF Approve, Run, Verify
  <2>3. OnRecord(c) /\ calls[c].pc \in Owning
    BY <2>2 DEF CallsAreOnRecord, Owning, PCs
  <2>4. executed' = executed /\ audits' = audits /\ incidents' = incidents
    BY <1>8 DEF Approve, Run, Verify
  <2>5. PICK s \in Statuses : UpdateJob(c, s)
    BY <1>8 DEF Approve, Run, Verify, Statuses
  <2>6. jobs'[id].decision = calls[c].decision.type
    BY <2>3, <2>5, UpdateJobEffect, JobRecordFields
  <2>7. Noted(c, id)'
    BY <2>2, <2>3, <2>4 DEF OnRecord, Noted
  <2> HIDE DEF id
  <2>8. OnRecord(c)'
    BY <2>2, <2>3, <2>4, <2>6, <2>7
       DEF OnRecord, Noted, Allow, Cleared, PolicyBlock, JobFailed, id
  <2> QED BY <1>1, <2>1, <2>8
<1>9. ASSUME NEW c \in Callers, ExecuteOK(c) \/ ExecuteError(c) PROVE CallsAreOnRecord'
  <2> DEFINE id == calls[c].job
  <2>1. Quiet(c)
    BY <1>9, StepIsQuiet DEF Step
  <2>2. /\ calls'[c].job = id
        /\ calls'[c].req = calls[c].req
        /\ calls'[c].decision = calls[c].decision
        /\ calls[c].pc = "execute" /\ calls'[c].pc \in {"verify", "failure"}
    BY <1>9, MoveEffect DEF ExecuteOK, ExecuteError
  <2>3. OnRecord(c)
    BY <2>2 DEF CallsAreOnRecord, Owning, PCs
  <2>4. /\ jobs' = jobs /\ audits' = audits /\ incidents' = incidents
        /\ id \in executed'
    BY <1>9 DEF ExecuteOK, ExecuteError
  <2>5. Noted(c, id)'
    BY <2>2, <2>3, <2>4 DEF OnRecord, Noted
  <2> HIDE DEF id
  <2>6. OnRecord(c)'
    BY <2>2, <2>3, <2>4, <2>5
       DEF OnRecord, Noted, Allow, Cleared, PolicyBlock, JobFailed, id
  <2> QED BY <1>1, <2>1, <2>6
<1>10. CASE UNCHANGED vars \/ PollPolicyMode \/ Tick \/ \E n \in Nodes : Heartbeat(n)
  <2>1. /\ calls' = calls /\ jobs' = jobs /\ audits' = audits
        /\ executed' = executed /\ incidents' = incidents
    BY <1>10 DEF vars, PollPolicyMode, Tick, Heartbeat
  <2> QED BY <2>1 DEF CallsAreOnRecord, OnRecord, PolicyBlock, JobFailed
<1> QED BY <1>2, <1>3, <1>4, <1>5, <1>6, <1>7, <1>8, <1>9, <1>10 DEF Next, Step

-----------------------------------------------------------------------------
(* What the gate decided stays with the call.                              *)

LEMMA GateHolds ==
  ASSUME NEW risk, NEW approval, NEW gateOK, NEW mode, NEW t
  PROVE  /\ Evaluate(risk, HardBlocked(risk), approval, gateOK, mode, t).type
              = "REQUIRES_APPROVAL" => ~DualApproved(approval)
         /\ Evaluate(risk, HardBlocked(risk), approval, gateOK, mode, t).reason
              = "aggressive mode" => mode.mode = "AGGRESSIVE_AUTO"
BY DEF Evaluate, HardBlocked, DualApproved, AggressiveActive

LEMMA ExpiryNeverEnters ==
  ASSUME NEW mode \in PolicyMode, NEW t, ExpirePolicyMode(mode, t).mode = "AGGRESSIVE_AUTO"
  PROVE  mode.mode = "AGGRESSIVE_AUTO"
BY DEF ExpirePolicyMode, PolicyMode

LEMMA DecideVerdict ==
  ASSUME TypeOK, NEW c \in Callers, Decide(c)
  PROVE  /\ calls'[c].decision.type = "REQUIRES_APPROVAL" => ~DualApproved(calls[c].req)
         /\ calls'[c].decision.reason = "aggressive mode" =>
              policyMode.mode = "AGGRESSIVE_AUTO"
<1> DEFINE mode == ExpirePolicyMode(policyMode, now)
           gate == Risk(c) = "LOW" \/ calls[c].allowWrites
           decision == Evaluate(Risk(c), HardBlocked(Risk(c)), calls[c].req, gate, mode, now)
<1>1. calls' = [calls EXCEPT ![c] = [@ EXCEPT !.pc = "create", !.decision = decision]]
  BY DEF Decide
<1>2. mode.mode = "AGGRESSIVE_AUTO" => policyMode.mode = "AGGRESSIVE_AUTO"
  BY ExpiryNeverEnters DEF TypeOK
<1>3. /\ decision.type = "REQUIRES_APPROVAL" => ~DualApproved(calls[c].req)
      /\ decision.reason = "aggressive mode" => mode.mode = "AGGRESSIVE_AUTO"
  <2> HIDE DEF mode, gate
  <2> QED BY GateHolds
<1> HIDE DEF decision, mode
<1>4. calls'[c].decision = decision
  BY <1>1 DEF TypeOK, CallsTyped, Call
<1> QED BY <1>2, <1>3, <1>4

Decided == {"create"} \cup Owning

LEMMA DecidedBefore ==
  ASSUME TypeOK, [Next]_vars, NEW d \in Callers, calls'[d].pc \in Decided
  PROVE  \/ Decide(d)
         \/ /\ calls[d].pc \in Decided
            /\ calls'[d].req = calls[d].req
            /\ calls'[d].decision = calls[d].decision
            /\ calls'[d].pc \in {"create", "audit"} => calls[d].pc \in {"create", "audit"}
<1> DEFINE Kept == /\ calls[d].pc \in Decided
                   /\ calls'[d].req = calls[d].req
                   /\ calls'[d].decision = calls[d].decision
                   /\ calls'[d].pc \in {"create", "audit"} =>
                        calls[d].pc \in {"create", "audit"}
<1>1. ASSUME NEW c \in Callers, OnlyCall(c), d # c PROVE Kept
  BY <1>1 DEF OnlyCall
<1>2. ASSUME NEW c \in Callers, NEW r \in Requests, Receive(c, r) PROVE Kept
  BY <1>1, <1>2, ReceiveEffect DEF Decided, Owning
<1>3. ASSUME NEW c \in Callers, LookupMiss(c) \/ Snapshot(c) PROVE Kept
  BY <1>1, <1>3, LookupMissEffect, SnapshotEffect DEF Decided, Owning
<1>4. ASSUME NEW c \in Callers, Decide(c), d # c PROVE Kept
  BY <1>1, <1>4, DecideEffect
<1>5. ASSUME NEW c \in Callers, CreateJob(c) PROVE Kept
  BY <1>1, <1>5, CreateJobEffect DEF CreateJob, Decided
<1>6. ASSUME NEW c \in Callers, Replay(c) \/ Hold(c) \/ Fail(c) \/ Complete(c) PROVE Kept
  <2>1. PICK from, id, st : Respond(c, from, id, st)
    BY <1>6 DEF Replay, Hold, Fail, Complete
  <2> QED BY <1>1, <2>1, RespondEffect DEF Decided, Owning
<1>7. ASSUME NEW c \in Callers,
             \/ AddAudit(c) \/ RecordPolicyBlock(c) \/ Approve(c) \/ Run(c) \/ Verify(c)
             \/ ExecuteOK(c) \/ ExecuteError(c) \/ RecordJobFailed(c)
      PROVE  Kept
  <2>1. PICK from \in Owning, to \in Owning \ {"audit"} : Move(c, from, to)
    BY <1>7 DEF AddAudit, AfterAudit, RecordPolicyBlock, Approve, Run, Verify,
         ExecuteOK, ExecuteError, RecordJobFailed, Owning, PCs
  <2> QED BY <1>1, <2>1, MoveEffect DEF Decided, Owning
<1>8. CASE UNCHANGED vars \/ PollPolicyMode \/ Tick \/ \E n \in Nodes : Heartbeat(n)
  <2>1. calls' = calls
    BY <1>8 DEF vars, PollPolicyMode, Tick, Heartbeat
  <2> QED BY <2>1
<1> QED BY <1>2, <1>3, <1>4, <1>5, <1>6, <1>7, <1>8 DEF Next, Step

LEMMA MissingStep ==
  ASSUME TypeOK, MissingApprovals, [Next]_vars
  PROVE  MissingApprovals'
<1> SUFFICES ASSUME NEW d \in Callers, calls'[d].pc \in Decided,
                    calls'[d].decision.type = "REQUIRES_APPROVAL"
             PROVE  ~DualApproved(calls'[d].req)
  BY DEF MissingApprovals, Decided, DualApproved
<1>1. CASE Decide(d)
  BY <1>1, DecideVerdict, DecideEffect
<1>2. CASE /\ calls[d].pc \in Decided
           /\ calls'[d].req = calls[d].req
           /\ calls'[d].decision = calls[d].decision
  BY <1>2 DEF MissingApprovals, Decided
<1> QED BY <1>1, <1>2, DecidedBefore

-----------------------------------------------------------------------------
(* The aggressive mode was switched on by a dual approval.                 *)

LEMMA ApprovalPersists ==
  ASSUME TypeOK, Ownership, [Next]_vars, AggressiveWasApproved
  PROVE  AggressiveWasApproved'
<1>1. executed \subseteq executed'
  BY DEF Next, Step, vars, Receive, Replay, LookupMiss, Snapshot, Decide, CreateJob,
     AddAudit, RecordPolicyBlock, Hold, Approve, Run, ExecuteOK, ExecuteError,
     RecordJobFailed, Fail, Verify, Complete, Heartbeat, PollPolicyMode, Tick
<1> QED BY <1>1, Persistence DEF Persists, AggressiveWasApproved

(* Who enters the aggressive mode runs a tool that enters it. *)
LEMMA WhoEnters ==
  ASSUME TypeOK, [Next]_vars, policyMode.mode # "AGGRESSIVE_AUTO",
         policyMode'.mode = "AGGRESSIVE_AUTO"
  PROVE  \E c \in Callers : ExecuteOK(c) /\ calls[c].req.tool \in ToAggressive
<1>1. policyMode \in PolicyMode
  BY DEF TypeOK
<1>2. policyMode' # policyMode
  OBVIOUS
<1>3. policyMode' # ExpirePolicyMode(policyMode, now)
  BY <1>1, ExpiryNeverEnters
<1>4. PICK c \in Callers : ExecuteOK(c)
  BY <1>2, <1>3 DEF Next, Step, vars, Receive, Replay, LookupMiss, Snapshot, Decide,
     CreateJob, AddAudit, RecordPolicyBlock, Hold, Approve, Run, ExecuteError,
     RecordJobFailed, Fail, Verify, Complete, Heartbeat, PollPolicyMode, Tick
<1>5. policyMode' \in ModesAfter(calls[c].req.tool)
  BY <1>4 DEF ExecuteOK
<1>6. calls[c].req.tool \in ToAggressive
  BY <1>2, <1>5 DEF ModesAfter, SetPolicyMode
<1> QED BY <1>4, <1>6

(* Whose event has the aggressive mode for its reason was let through by it. *)
LEMMA WhoIsLetThrough ==
  ASSUME TypeOK, [Next]_vars, NEW a \in audits', a \notin audits,
         a.reason = "aggressive mode"
  PROVE  \E c \in Callers : /\ calls[c].pc = "audit"
                            /\ calls[c].decision.reason = "aggressive mode"
<1>1. audits' # audits
  OBVIOUS
<1>2. PICK c \in Callers : AddAudit(c)
  BY <1>1 DEF Next, Step, vars, Receive, Replay, LookupMiss, Snapshot, Decide,
     CreateJob, RecordPolicyBlock, Hold, Approve, Run, ExecuteOK, ExecuteError,
     RecordJobFailed, Fail, Verify, Complete, Heartbeat, PollPolicyMode, Tick
<1>3. a = AuditEvent(c) /\ calls[c].pc = "audit"
  BY <1>2 DEF AddAudit, Move
<1> QED BY <1>3 DEF AuditEvent

Granted == AggressiveModeWasGranted /\ AggressiveCallsWereGranted

LEMMA GrantedStep ==
  ASSUME TypeOK, Ownership, ClearedCallsAreLogged, Granted, [Next]_vars
  PROVE  Granted'
<1>1. CASE AggressiveWasApproved'
  BY <1>1 DEF Granted, AggressiveModeWasGranted, AggressiveCallsWereGranted
<1>2. CASE ~AggressiveWasApproved'
  <2>1. /\ policyMode.mode # "AGGRESSIVE_AUTO"
        /\ \A a \in audits : a.reason # "aggressive mode"
        /\ \A c \in Callers : calls[c].pc \in {"create", "audit"} =>
             calls[c].decision.reason # "aggressive mode"
    BY <1>2, ApprovalPersists
       DEF Granted, AggressiveModeWasGranted, AggressiveCallsWereGranted
  <2>2. ASSUME NEW c \in Callers, ExecuteOK(c), calls[c].req.tool \in ToAggressive
        PROVE  FALSE
    <3>1. calls[c].pc = "execute"
      BY <2>2 DEF ExecuteOK, Move
    <3>2. PICK a \in audits : Justifies(a, calls[c].job)
      BY <3>1 DEF ClearedCallsAreLogged, Cleared
    <3>3. /\ jobs[calls[c].job].tool = calls[c].req.tool
          /\ jobs[calls[c].job].risk = Risk(c)
      BY <3>1 DEF Ownership, CallsOwnJobs, Owning, PCs
    <3>4. Risk(c) = "HIGH"
      BY <2>2, PipelineAssumption DEF Risk
    <3>5. a.tool \in ToAggressive /\ a.approved /\ a.mfa /\ a.second
      BY <2>1, <2>2, <3>2, <3>3, <3>4 DEF Justifies
    <3>6. a \in audits' /\ a.job \in executed'
      BY <2>2, <3>2 DEF ExecuteOK, Justifies
    <3> QED BY <1>2, <3>5, <3>6 DEF AggressiveWasApproved
  <2>3. policyMode'.mode # "AGGRESSIVE_AUTO"
    BY <2>1, <2>2, WhoEnters
  <2>4. \A a \in audits' : a.reason # "aggressive mode"
    BY <2>1, WhoIsLetThrough
  <2>5. ASSUME NEW d \in Callers, calls'[d].pc \in {"create", "audit"}
        PROVE  calls'[d].decision.reason # "aggressive mode"
    <3>1. calls'[d].pc \in Decided
      BY <2>5 DEF Decided, Owning, PCs
    <3> QED BY <2>1, <2>5, <3>1, DecidedBefore, DecideVerdict
  <2> QED BY <2>3, <2>4, <2>5 DEF Granted, AggressiveModeWasGranted,
          AggressiveCallsWereGranted
<1> QED BY <1>1, <1>2

(* Whenever the aggressive mode is on, or has let a call run, a dually     *)
(* approved switch to it has been audited and has run: no chain of calls   *)
(* with fewer approvals, and none that the mode itself lets through,       *)
(* brings it about (gate.go:47-53, memory.go:906-929).                     *)
THEOREM ModeWasGranted == Spec => []AggressiveModeWasGranted
<1> DEFINE Inv == /\ TypeOK /\ Ownership /\ AllowedByGate
                  /\ ClearedCallsAreLogged /\ Granted
<1>1. Init => Inv
  <2> SUFFICES ASSUME Init PROVE Inv
    OBVIOUS
  <2>1. \A c \in Callers : calls[c].pc = "idle"
    BY IdleTyped DEF Init
  <2>2. AllowedByGate /\ ClearedCallsAreLogged
    BY <2>1 DEF AllowedByGate, ClearedCallsAreLogged, Cleared
  <2>3. Granted
    BY <2>1 DEF Init, Granted, AggressiveModeWasGranted, AggressiveCallsWereGranted
  <2> QED BY <2>2, <2>3, TypeInit, OwnershipInit
<1>2. Inv /\ [Next]_vars => Inv'
  BY TypeStep, OwnershipStep, AllowedByGateStep, LoggedStep, GrantedStep
<1>3. Inv => AggressiveModeWasGranted
  BY DEF Granted
<1> QED BY <1>1, <1>2, <1>3, PTL DEF Spec

-----------------------------------------------------------------------------
(* What is told of a job.                                                  *)

(* The job of an actor stays unsettled unless the actor ends its call.     *)
LEMMA UnsettledStep ==
  ASSUME TypeOK, Ownership, NEW c \in Callers, NEW from \in Owning, NEW to \in Owning,
         Move(c, from, to), [Next]_vars
  PROVE  jobs'[calls[c].job].status \notin Settled
<1>1. calls'[c].pc \in Owning /\ calls'[c].job = calls[c].job
  BY MoveEffect
<1>2. Ownership'
  BY OwnershipStep
<1>3. jobs'[calls[c].job].status = StatusAt(calls'[c].pc)
  BY <1>1, <1>2 DEF Ownership, CallsOwnJobs
<1> QED BY <1>3 DEF StatusAt, Settled, Held

(* What the tables show of one job. *)
ToldOf(id) ==
  /\ jobs[id].status \in Settled =>
       /\ jobs[id].status = "BLOCKED" <=> PolicyBlock(id) \in incidents
       /\ jobs[id].status = "FAILED"  <=> JobFailed(id) \in incidents
  /\ jobs[id].status = "PENDING_APPROVAL" => LackedApproval(id)

Told == \A id \in JobIds : ToldOf(id)

(* A job that ends is told of as its call's record has it. *)
LEMMA EndIsTold ==
  ASSUME TypeOK, CallsAreOnRecord, MissingApprovals, NEW c \in Callers,
         NEW id, id = calls[c].job, Hold(c) \/ Fail(c) \/ Complete(c)
  PROVE  ToldOf(id)'
<1>1. PICK from \in Owning, s \in Statuses :
        /\ UpdateJob(c, s) /\ Respond(c, from, calls[c].job, s)
        /\ \/ from = "hold" /\ s = IF calls[c].decision.type = "REQUIRES_APPROVAL"
                                   THEN "PENDING_APPROVAL" ELSE "BLOCKED"
           \/ from = "fail" /\ s = "FAILED"
           \/ from = "complete" /\ s = "COMPLETED"
  BY DEF Hold, Fail, Complete, Owning, PCs, Statuses
<1>2. calls[c].pc = from /\ OnRecord(c)
  BY <1>1 DEF Respond, CallsAreOnRecord
<1>3. jobs'[id].status = s
  BY <1>1, <1>2, UpdateJobEffect, JobRecordFields
<1>4. audits' = audits /\ incidents' = incidents
  BY DEF Hold, Fail, Complete
<1>5. calls[c].decision.type \in DecisionTypes
  BY DEF TypeOK, CallsTyped, Call, Decision
<1>6. CASE from = "hold"
  <2>1. calls[c].decision.type \in {"REQUIRES_APPROVAL", "BLOCKED"}
    BY <1>2, <1>5, <1>6 DEF OnRecord, Allow, Cleared, DecisionTypes
  <2>2. calls[c].decision.type = "REQUIRES_APPROVAL" => LackedApproval(id)
    BY <1>2, <1>6 DEF OnRecord, MissingApprovals, DualApproved, LackedApproval, Owning, PCs
  <2>3. /\ PolicyBlock(id) \in incidents <=> calls[c].decision.type = "BLOCKED"
        /\ JobFailed(id) \notin incidents
    BY <1>2, <1>6 DEF OnRecord
  <2>4. calls[c].decision.type = "REQUIRES_APPROVAL" => s = "PENDING_APPROVAL"
    BY <1>1, <1>6
  <2>5. calls[c].decision.type = "BLOCKED" => s = "BLOCKED"
    BY <1>1, <1>6
  <2> QED BY <1>3, <1>4, <2>1, <2>2, <2>3, <2>4, <2>5
          DEF ToldOf, LackedApproval, PolicyBlock, JobFailed
<1>7. CASE from = "fail"
  <2>1. s = "FAILED" /\ PolicyBlock(id) \notin incidents /\ JobFailed(id) \in incidents
    BY <1>1, <1>2, <1>7 DEF OnRecord
  <2> QED BY <1>3, <1>4, <2>1 DEF ToldOf, PolicyBlock, JobFailed
<1>8. CASE from = "complete"
  <2>1. s = "COMPLETED" /\ PolicyBlock(id) \notin incidents /\ JobFailed(id) \notin incidents
    BY <1>1, <1>2, <1>8 DEF OnRecord
  <2> QED BY <1>3, <1>4, <2>1 DEF ToldOf, PolicyBlock, JobFailed
<1> QED BY <1>1, <1>6, <1>7, <1>8

LEMMA ToldPersists ==
  ASSUME NEW id \in JobIds, ToldOf(id), jobs'[id] = jobs[id], audits \subseteq audits',
         PolicyBlock(id) \in incidents' <=> PolicyBlock(id) \in incidents,
         JobFailed(id) \in incidents' <=> JobFailed(id) \in incidents
  PROVE  ToldOf(id)'
BY DEF ToldOf, LackedApproval, PolicyBlock, JobFailed

LEMMA ToldStep ==
  ASSUME TypeOK, Ownership, CallsAreOnRecord, MissingApprovals, Told, [Next]_vars
  PROVE  Told'
<1>1. ASSUME NEW id \in JobIds, jobs'[id].status \notin Settled PROVE ToldOf(id)'
  BY <1>1 DEF ToldOf, Settled, Held
<1>2. ASSUME NEW c \in Callers, Quiet(c), NEW id \in JobIds, id # calls[c].job
      PROVE  ToldOf(id)'
  BY <1>2, ToldPersists DEF Quiet, Told
<1>3. ASSUME NEW c \in Callers, CreateJob(c) PROVE Told'
  <2>1. PICK new : new = Len(jobs) + 1
    OBVIOUS
  <2>2. /\ JobIds' = JobIds \cup {new}
        /\ jobs'[new].status = "PLANNED"
    BY <1>3, <2>1, CreateJobEffect, JobRecordFields
  <2>3. calls[c].job \notin JobIds
    BY <1>3 DEF CreateJob, TypeOK, CallsTyped, Owning, JobIds
  <2>4. Quiet(c)
    BY <1>3, StepIsQuiet DEF Step
  <2>5. ToldOf(new)'
    BY <2>2 DEF ToldOf, Settled, Held
  <2>6. \A id \in JobIds : ToldOf(id)'
    BY <1>2, <2>3, <2>4
  <2> QED BY <2>2, <2>5, <2>6 DEF Told
<1>4. ASSUME NEW c \in Callers, Step(c) \/ \E r \in Requests : Receive(c, r), ~CreateJob(c)
      PROVE  Told'
  <2>1. Quiet(c)
    BY <1>4, StepIsQuiet
  <2>2. JobIds' = JobIds
    <3>1. seen' = seen
      BY <1>4 DEF Step, Receive, Replay, LookupMiss, Snapshot, Decide, AddAudit,
         RecordPolicyBlock, Hold, Approve, Run, ExecuteOK, ExecuteError, RecordJobFailed,
         Fail, Verify, Complete
    <3>2. TypeOK'
      BY TypeStep
    <3> QED BY <3>1, <3>2 DEF TypeOK, JobIds
  <2>3. ASSUME NEW id \in JobIds, id = calls[c].job PROVE ToldOf(id)'
    <3>1. calls[c].pc \in Owning
      BY <2>3 DEF TypeOK, CallsTyped, JobIds
    <3>2. CASE Hold(c) \/ Fail(c) \/ Complete(c)
      BY <2>3, <3>2, EndIsTold
    <3>3. CASE \E from \in Owning, to \in Owning : Move(c, from, to)
      BY <1>1, <1>4, <2>3, <3>3, UnsettledStep DEF Next
    <3> QED BY <1>4, <3>1, <3>2, <3>3
            DEF Step, Receive, Replay, LookupMiss, Snapshot, Decide, AddAudit, AfterAudit,
                RecordPolicyBlock, Approve, Run, Verify, ExecuteOK, ExecuteError,
                RecordJobFailed, Owning, PCs
  <2>4. \A id \in JobIds : ToldOf(id)'
    BY <1>2, <2>1, <2>3
  <2> QED BY <2>2, <2>4 DEF Told
<1>5. CASE UNCHANGED vars \/ PollPolicyMode \/ Tick \/ \E n \in Nodes : Heartbeat(n)
  <2>1. jobs' = jobs /\ audits' = audits /\ incidents' = incidents
    BY <1>5 DEF vars, PollPolicyMode, Tick, Heartbeat
  <2> QED BY <2>1 DEF Told, ToldOf, JobIds, LackedApproval, PolicyBlock, JobFailed
<1> QED BY <1>3, <1>4, <1>5 DEF Next

LEMMA IncidentsNameJobsStep ==
  ASSUME TypeOK, Ownership, IncidentsNameJobs, [Next]_vars
  PROVE  IncidentsNameJobs'
<1>1. JobIds \subseteq JobIds'
  BY Persistence DEF Persists
<1>2. ASSUME NEW c \in Callers, RecordPolicyBlock(c) \/ RecordJobFailed(c)
      PROVE  IncidentsNameJobs'
  <2>1. calls[c].job \in JobIds
    BY <1>2 DEF RecordPolicyBlock, RecordJobFailed, Move, TypeOK, CallsTyped, Owning, PCs
  <2>2. PICK k \in {"policy_block", "job_failed"} :
          incidents' = incidents \cup {[kind |-> k, job |-> calls[c].job]}
    BY <1>2 DEF RecordPolicyBlock, RecordJobFailed
  <2> QED BY <1>1, <2>1, <2>2 DEF IncidentsNameJobs
<1>3. CASE incidents' = incidents
  BY <1>1, <1>3 DEF IncidentsNameJobs
<1> QED BY <1>2, <1>3 DEF Next, Step, vars, Receive, Replay, LookupMiss, Snapshot, Decide,
     CreateJob, AddAudit, Hold, Approve, Run, ExecuteOK, ExecuteError,
     Fail, Verify, Complete, Heartbeat, PollPolicyMode, Tick

LEMMA IndexNamesJobsStep ==
  ASSUME TypeOK, Ownership, IndexNamesJobs, [Next]_vars
  PROVE  IndexNamesJobs'
<1>1. CASE \A c \in Callers : ~CreateJob(c)
  BY <1>1, KeysPersist DEF IndexNamesJobs, TypeOK
<1>2. ASSUME NEW c \in Callers, CreateJob(c) PROVE IndexNamesJobs'
  <2>1. PICK new, key : new = Len(jobs) + 1 /\ key = calls[c].req.key
    OBVIOUS
  <2>2. /\ jobs'[new].key = key
        /\ \A id \in JobIds : jobs'[id] = jobs[id]
    BY <1>2, <2>1, CreateJobEffect, JobRecordFields
  <2>3. byIdemKey' = IndexKey(key, new)
    BY <1>2, <2>1 DEF CreateJob
  <2> SUFFICES ASSUME NEW k \in Keys, byIdemKey'[k] # 0
               PROVE  jobs'[byIdemKey'[k]].key = k
    BY DEF IndexNamesJobs
  <2>4. (byIdemKey'[k] = new /\ k = key) \/ byIdemKey'[k] = byIdemKey[k]
    BY <2>3 DEF IndexKey, TypeOK
  <2>5. CASE byIdemKey'[k] = byIdemKey[k]
    BY <2>2, <2>5 DEF IndexNamesJobs, TypeOK
  <2> QED BY <2>2, <2>4, <2>5
<1> QED BY <1>1, <1>2

(* What an answer says of a job. *)
Stands(answer) ==
  answer.job # 0 =>
    /\ jobs[answer.job].key = answer.key
    /\ answer.status \in Settled => jobs[answer.job].status = answer.status
    /\ answer.dual /\ answer.status = "PENDING_APPROVAL" =>
         answer.key # NoKey /\ LackedApproval(answer.job)

AnswerStands(c) == Stands(answers[c])

LEMMA AnswersKeepStanding ==
  ASSUME TypeOK, Persists, NEW answer, answer.job \in {0} \cup JobIds, Stands(answer)
  PROVE  Stands(answer)'
BY DEF Persists, Stands, LackedApproval

LEMMA ReplayStands ==
  ASSUME TypeOK, IndexNamesJobs, Told, NEW c \in Callers, Replay(c)
  PROVE  AnswerStands(c)'
<1>1. PICK id, key : id = byIdemKey[key] /\ key = calls[c].req.key
  OBVIOUS
<1>2. /\ key \in Keys /\ key # NoKey
      /\ id \in JobIds
      /\ answers' = [answers EXCEPT ![c] =
           [job |-> id, key |-> key, status |-> jobs[id].status,
            dual |-> DualApproved(calls[c].req)]]
      /\ jobs' = jobs /\ audits' = audits
  BY <1>1, PipelineAssumption DEF Replay, Respond, TypeOK, CallsTyped
<1>3. jobs[id].key = key
  BY <1>1, <1>2 DEF IndexNamesJobs, JobIds
<1>4. jobs[id].status = "PENDING_APPROVAL" => LackedApproval(id)
  BY <1>2 DEF Told, ToldOf
<1>5. PICK answer : answer = answers'[c]
  OBVIOUS
<1>6. answer.job = id /\ answer.key = key /\ answer.status = jobs[id].status
  BY <1>2, <1>5 DEF TypeOK
<1>7. Stands(answer)'
  BY <1>2, <1>3, <1>4, <1>6 DEF Stands, LackedApproval
<1> QED BY <1>5, <1>7 DEF AnswerStands, Stands, LackedApproval

LEMMA EndStands ==
  ASSUME TypeOK, Ownership, CallsAreOnRecord, MissingApprovals, NEW c \in Callers,
         Hold(c) \/ Fail(c) \/ Complete(c)
  PROVE  AnswerStands(c)'
<1>1. PICK from \in Owning, s \in Statuses :
        /\ UpdateJob(c, s) /\ Respond(c, from, calls[c].job, s)
        /\ s = "PENDING_APPROVAL" =>
             from = "hold" /\ calls[c].decision.type = "REQUIRES_APPROVAL"
  BY DEF Hold, Fail, Complete, Owning, PCs, Statuses
<1>2. PICK id : id = calls[c].job
  OBVIOUS
<1>3. calls[c].pc = from
  BY <1>1 DEF Respond
<1>4. /\ jobs'[id].status = s
      /\ jobs'[id].key = calls[c].req.key
  BY <1>1, <1>2, <1>3, UpdateJobEffect, JobRecordFields
<1>5. PICK answer : answer = answers'[c]
  OBVIOUS
<1>6. /\ answer.job = id /\ answer.key = calls[c].req.key /\ answer.status = s
      /\ answer.dual = DualApproved(calls[c].req)
  BY <1>1, <1>2, <1>5 DEF Respond, TypeOK
<1>7. s = "PENDING_APPROVAL" => ~answer.dual
  BY <1>1, <1>3, <1>6 DEF MissingApprovals, Owning, PCs
<1>8. Stands(answer)'
  BY <1>4, <1>6, <1>7 DEF Stands
<1> QED BY <1>5, <1>8 DEF AnswerStands, Stands, LackedApproval

LEMMA AnswersStep ==
  ASSUME TypeOK, Ownership, CallsAreOnRecord, MissingApprovals, Told, IndexNamesJobs,
         AnswersStand, [Next]_vars
  PROVE  AnswersStand'
<1> SUFFICES ASSUME NEW d \in Callers PROVE AnswerStands(d)'
  BY DEF AnswersStand, AnswerStands, Stands
<1>1. CASE Replay(d)
  BY <1>1, ReplayStands
<1>2. CASE Hold(d) \/ Fail(d) \/ Complete(d)
  BY <1>2, EndStands
<1>3. CASE answers'[d] = answers[d]
  <2>1. PICK answer : answer = answers[d]
    OBVIOUS
  <2>2. Stands(answer) /\ answer.job \in {0} \cup JobIds
    BY <2>1 DEF AnswersStand, Stands, TypeOK
  <2>3. Stands(answer)'
    BY <2>2, AnswersKeepStanding, Persistence
  <2> QED BY <1>3, <2>1, <2>3 DEF AnswerStands, Stands, LackedApproval
<1>4. ASSUME NEW c \in Callers, d # c, Replay(c) \/ Hold(c) \/ Fail(c) \/ Complete(c)
      PROVE  answers'[d] = answers[d]
  BY <1>4 DEF Replay, Hold, Fail, Complete, Respond, TypeOK
<1> QED BY <1>1, <1>2, <1>3, <1>4 DEF Next, Step, vars, Receive, LookupMiss, Snapshot,
     Decide, CreateJob, AddAudit, RecordPolicyBlock, Approve, Run, ExecuteOK,
     ExecuteError, RecordJobFailed, Verify, Heartbeat, PollPolicyMode, Tick

(* What is told of a job stays true: a settled job has the incident its    *)
(* end calls for and no other, and an answer's job has the key that was    *)
(* sent, the final status that was told, and a missing approval when a     *)
(* fully approved call is told of one (service.go:43-56, 110-137).         *)
THEOREM OutcomesTold == Spec => []OutcomesAreTold
<1> DEFINE Inv == /\ TypeOK /\ Ownership /\ CallsAreOnRecord /\ MissingApprovals
                  /\ IncidentsNameJobs /\ IndexNamesJobs /\ Told /\ AnswersStand
<1>1. Init => Inv
  <2> SUFFICES ASSUME Init PROVE Inv
    OBVIOUS
  <2>1. JobIds = {} /\ \A c \in Callers : calls[c].pc = "idle"
    BY IdleTyped DEF Init, JobIds
  <2>2. CallsAreOnRecord /\ MissingApprovals
    BY <2>1 DEF CallsAreOnRecord, MissingApprovals, Owning
  <2>3. IncidentsNameJobs /\ IndexNamesJobs /\ Told /\ AnswersStand
    BY <2>1 DEF Init, IncidentsNameJobs, IndexNamesJobs, Told, AnswersStand
  <2> QED BY <2>2, <2>3, TypeInit, OwnershipInit
<1>2. Inv /\ [Next]_vars => Inv'
  BY TypeStep, OwnershipStep, OnRecordStep, MissingStep, IncidentsNameJobsStep,
     IndexNamesJobsStep, ToldStep, AnswersStep
<1>3. Inv => OutcomesAreTold
  BY DEF OutcomesAreTold, IncidentsMatchEnds, Told, ToldOf
<1> QED BY <1>1, <1>2, <1>3, PTL DEF Spec

-----------------------------------------------------------------------------
(* The bound on the jobs.                                                  *)

MayStore == {c \in InFlight : calls[c].pc \notin Owning}

LEMMA FitKept ==
  ASSUME TypeOK, JobsFit, Len(jobs') = Len(jobs),
         \A d \in Callers :
           /\ calls'[d].pc # "idle" => calls[d].pc # "idle"
           /\ calls'[d].pc \notin Owning \cup {"idle"} => calls[d].pc \notin Owning
  PROVE  JobsFit'
<1>1. IsFiniteSet(InFlight) /\ Len(jobs) + Cardinality(MayStore) <= MaxJobs
  BY DEF JobsFit, MayStore
<1>2. InFlight' \subseteq InFlight /\ MayStore' \subseteq MayStore
  BY DEF InFlight, MayStore
<1>3. IsFiniteSet(MayStore)
  BY <1>1, FS_Subset DEF MayStore
<1>4. /\ Cardinality(MayStore') <= Cardinality(MayStore)
      /\ IsFiniteSet(InFlight') /\ IsFiniteSet(MayStore')
  BY <1>1, <1>2, <1>3, FS_Subset
<1>5. /\ Cardinality(MayStore') \in Nat /\ Cardinality(MayStore) \in Nat
      /\ Len(jobs) \in Nat /\ MaxJobs \in Nat
  BY <1>3, <1>4, FS_CardinalityType, PipelineAssumption DEF TypeOK
<1>6. Len(jobs') + Cardinality(MayStore') <= MaxJobs
  BY <1>1, <1>4, <1>5
<1> QED BY <1>4, <1>6 DEF JobsFit, MayStore

LEMMA FitStep ==
  ASSUME TypeOK, Ownership, JobsFit, [Next]_vars
  PROVE  JobsFit'
<1>0. /\ IsFiniteSet(InFlight) /\ IsFiniteSet(MayStore)
      /\ Len(jobs) + Cardinality(MayStore) <= MaxJobs
      /\ Cardinality(MayStore) \in Nat /\ Cardinality(InFlight) \in Nat
      /\ Cardinality(MayStore) <= Cardinality(InFlight)
      /\ Len(jobs) \in Nat /\ MaxJobs \in Nat
  <2>1. /\ IsFiniteSet(InFlight) /\ MayStore \subseteq InFlight
        /\ Len(jobs) + Cardinality(MayStore) <= MaxJobs
    BY DEF JobsFit, MayStore
  <2>2. IsFiniteSet(MayStore) /\ Cardinality(MayStore) <= Cardinality(InFlight)
    BY <2>1, FS_Subset
  <2>3. Cardinality(MayStore) \in Nat /\ Cardinality(InFlight) \in Nat
    BY <2>1, <2>2, FS_CardinalityType
  <2>4. Len(jobs) \in Nat /\ MaxJobs \in Nat
    BY PipelineAssumption DEF TypeOK
  <2> QED BY <2>1, <2>2, <2>3, <2>4
<1>1. ASSUME NEW c \in Callers, NEW r \in Requests, Receive(c, r) PROVE JobsFit'
  <2>1. /\ calls[c].pc = "idle" /\ jobs' = jobs
        /\ Len(jobs) + Cardinality(InFlight) < MaxJobs
        /\ calls'[c].pc \notin Owning \cup {"idle"}
        /\ OnlyCall(c)
    <3>1. calls[c].pc = "idle" /\ jobs' = jobs /\ Len(jobs) + Cardinality(InFlight) < MaxJobs
      BY <1>1 DEF Receive
    <3>2. calls'[c].pc = IF r.key # NoKey THEN "lookup" ELSE "snapshot"
      BY <1>1, ReceiveEffect
    <3>3. OnlyCall(c)
      BY <1>1, ReceiveEffect
    <3> QED BY <3>1, <3>2, <3>3 DEF Owning
  <2>2. /\ InFlight' = InFlight \cup {c}
        /\ MayStore' = MayStore \cup {c}
        /\ c \notin MayStore
    <3>1. InFlight' = InFlight \cup {c}
      BY <2>1 DEF InFlight, OnlyCall, Owning
    <3>2. \A d \in Callers :
             d \in InFlight' /\ calls'[d].pc \notin Owning
               <=> (d \in InFlight /\ calls[d].pc \notin Owning) \/ d = c
      BY <2>1, <3>1 DEF OnlyCall
    <3> QED BY <2>1, <3>1, <3>2 DEF InFlight, MayStore
  <2>3. /\ IsFiniteSet(InFlight')
        /\ Cardinality(MayStore') = Cardinality(MayStore) + 1
    BY <1>0, <2>2, FS_AddElement
  <2>4. Len(jobs') + Cardinality(MayStore') <= MaxJobs
    BY <1>0, <2>1, <2>3
  <2> QED BY <2>3, <2>4 DEF JobsFit, MayStore
<1>2. ASSUME NEW c \in Callers, CreateJob(c) PROVE JobsFit'
  <2>1. /\ calls[c].pc = "create" /\ calls'[c].pc = "audit"
        /\ Len(jobs') = Len(jobs) + 1
        /\ OnlyCall(c)
    BY <1>2, CreateJobEffect DEF CreateJob
  <2>2. InFlight' = InFlight /\ c \in MayStore /\ MayStore' = MayStore \ {c}
    BY <2>1 DEF InFlight, MayStore, OnlyCall, Owning, PCs
  <2>3. Cardinality(MayStore') = Cardinality(MayStore) - 1
    BY <1>0, <2>2, FS_RemoveElement
  <2>4. Len(jobs') + Cardinality(MayStore') <= MaxJobs
    BY <1>0, <2>1, <2>3
  <2> QED BY <1>0, <2>2, <2>4 DEF JobsFit, MayStore
<1>3. ASSUME \A c \in Callers : ~CreateJob(c) /\ \A r \in Requests : ~Receive(c, r)
      PROVE  JobsFit'
  <2>1. Len(jobs') = Len(jobs)
    BY <1>3, KeysPersist
  <2>2. ASSUME NEW d \in Callers
        PROVE  /\ calls'[d].pc # "idle" => calls[d].pc # "idle"
               /\ calls'[d].pc \notin Owning \cup {"idle"} => calls[d].pc \notin Owning
    <3>1. ASSUME NEW c \in Callers, OnlyCall(c), d # c PROVE calls'[d] = calls[d]
      BY <3>1 DEF OnlyCall
    <3>2. ASSUME NEW c \in Callers, LookupMiss(c) \/ Snapshot(c) \/ Decide(c)
          PROVE  /\ OnlyCall(c)
                 /\ calls[c].pc \in {"lookup", "snapshot", "decide"}
      BY <3>2, LookupMissEffect, SnapshotEffect, DecideEffect
         DEF LookupMiss, Snapshot, Decide
    <3>3. CASE \E c \in Callers : LookupMiss(c) \/ Snapshot(c) \/ Decide(c)
      BY <3>1, <3>2, <3>3 DEF Owning
    <3>4. CASE \E c \in Callers : Replay(c) \/ Hold(c) \/ Fail(c) \/ Complete(c)
      <4>1. PICK c \in Callers : \E from, id, st : Respond(c, from, id, st)
        BY <3>4 DEF Replay, Hold, Fail, Complete
      <4> QED BY <3>1, <4>1, RespondEffect
    <3>5. CASE \E c \in Callers :
                 \/ AddAudit(c) \/ RecordPolicyBlock(c) \/ Approve(c) \/ Run(c) \/ Verify(c)
                 \/ ExecuteOK(c) \/ ExecuteError(c) \/ RecordJobFailed(c)
      <4>1. PICK c \in Callers, from \in Owning, to \in Owning : Move(c, from, to)
        BY <3>5 DEF AddAudit, AfterAudit, RecordPolicyBlock, Approve, Run, Verify,
             ExecuteOK, ExecuteError, RecordJobFailed, Owning, PCs
      <4> QED BY <3>1, <4>1, MoveEffect DEF Owning
    <3>6. CASE UNCHANGED vars \/ PollPolicyMode \/ Tick \/ \E n \in Nodes : Heartbeat(n)
      <4>1. calls' = calls
        BY <3>6 DEF vars, PollPolicyMode, Tick, Heartbeat
      <4> QED BY <4>1
    <3> QED BY <1>3, <3>3, <3>4, <3>5, <3>6 DEF Next, Step
  <2> QED BY <2>1, <2>2, FitKept
<1> QED BY <1>1, <1>2, <1>3

(* Every job has a place in the abstract specification. *)
LEMMA JobsHavePlaces ==
  ASSUME TypeOK, JobsFit
  PROVE  JobIds \subseteq 1 .. MaxJobs
<1>1. IsFiniteSet(MayStore)
  BY FS_Subset DEF JobsFit, MayStore
<1>2. Cardinality(MayStore) \in Nat /\ Len(jobs) \in Nat /\ MaxJobs \in Nat
  BY <1>1, FS_CardinalityType, PipelineAssumption DEF TypeOK
<1> QED BY <1>2 DEF JobsFit, MayStore, JobIds

-----------------------------------------------------------------------------
(* The steps of the pipeline are steps of the abstract specification.      *)

(* What the refinement mapping shows of a stored job. *)
LEMMA BarAt ==
  ASSUME TypeOK, JobsFit, NEW id \in JobIds
  PROVE  /\ id \in 1 .. MaxJobs
         /\ phaseBar[id] = PhaseOf(jobs[id].status)
         /\ verdictBar[id] = jobs[id].decision
BY JobsHavePlaces DEF phaseBar, verdictBar

(* A step that leaves a job's phase and decision alone does not show, ... *)
LEMMA BarStays ==
  ASSUME JobIds' = JobIds,
         \A id \in JobIds : /\ PhaseOf(jobs'[id].status) = PhaseOf(jobs[id].status)
                            /\ jobs'[id].decision = jobs[id].decision
  PROVE  phaseBar' = phaseBar /\ verdictBar' = verdictBar
BY DEF phaseBar, verdictBar

(* ... one that moves a job to another phase shows as that, ... *)
LEMMA BarMoves ==
  ASSUME JobIds' = JobIds, NEW id \in JobIds, NEW p,
         p = PhaseOf(jobs'[id].status), jobs'[id].decision = jobs[id].decision,
         \A i \in JobIds : i # id => jobs'[i] = jobs[i]
  PROVE  phaseBar' = [phaseBar EXCEPT ![id] = p] /\ verdictBar' = verdictBar
<1>1. ASSUME NEW j \in 1 .. MaxJobs PROVE phaseBar'[j] = [phaseBar EXCEPT ![id] = p][j]
  BY <1>1 DEF phaseBar
<1>2. phaseBar' = [phaseBar EXCEPT ![id] = p]
  BY <1>1 DEF phaseBar
<1>3. verdictBar' = verdictBar
  BY DEF verdictBar
<1> QED BY <1>2, <1>3

(* ... and the one update a call makes of its job keeps the decision.      *)
LEMMA UpdateMoves ==
  ASSUME TypeOK, JobsFit, CallsOwnJobs, CallsAreOnRecord,
         NEW c \in Callers, NEW s \in Statuses, UpdateJob(c, s), calls[c].pc \in Owning
  PROVE  /\ calls[c].job \in 1 .. MaxJobs
         /\ phaseBar[calls[c].job] = PhaseOf(StatusAt(calls[c].pc))
         /\ verdictBar[calls[c].job] = calls[c].decision.type
         /\ phaseBar' = [phaseBar EXCEPT ![calls[c].job] = PhaseOf(s)]
         /\ PhaseOf(s) = PhaseOf(StatusAt(calls[c].pc)) => phaseBar' = phaseBar
         /\ verdictBar' = verdictBar
<1>1. PICK id : id = calls[c].job
  OBVIOUS
<1>2. /\ id \in JobIds
      /\ JobIds' = JobIds
      /\ jobs'[id].status = s /\ jobs'[id].decision = calls[c].decision.type
      /\ \A i \in JobIds : i # id => jobs'[i] = jobs[i]
  BY <1>1, UpdateJobEffect, JobRecordFields DEF JobIds
<1>3. jobs[id].decision = calls[c].decision.type /\ jobs[id].status = StatusAt(calls[c].pc)
  BY <1>1 DEF CallsOwnJobs, CallsAreOnRecord, OnRecord
<1>4. /\ id \in 1 .. MaxJobs
      /\ phaseBar[id] = PhaseOf(StatusAt(calls[c].pc))
      /\ verdictBar[id] = calls[c].decision.type
  BY <1>2, <1>3, BarAt
<1>5. phaseBar' = [phaseBar EXCEPT ![id] = PhaseOf(s)] /\ verdictBar' = verdictBar
  BY <1>2, <1>3, BarMoves
<1>6. PhaseOf(s) = PhaseOf(StatusAt(calls[c].pc)) => phaseBar' = phaseBar
  BY <1>2, <1>3, BarStays
<1> QED BY <1>1, <1>4, <1>5, <1>6

(* The audit log of a call past its audit names its job. *)
LEMMA LoggedBar ==
  ASSUME CallsAreOnRecord, NEW c \in Callers, calls[c].pc \in Owning, calls[c].pc # "audit"
  PROVE  calls[c].job \in loggedBar
BY DEF CallsAreOnRecord, OnRecord, loggedBar

(* Every job that is waiting for a verdict's consequence, or running. *)
LEMMA PhasesAt ==
  /\ \A pc \in {"audit", "incident", "hold", "approve", "run"} :
       PhaseOf(StatusAt(pc)) = "accepted"
  /\ \A pc \in {"execute", "failure", "fail", "verify", "complete"} :
       PhaseOf(StatusAt(pc)) = "running"
  /\ PhaseOf("PLANNED") = "accepted" /\ PhaseOf("APPROVED") = "accepted"
  /\ PhaseOf("RUNNING") = "running" /\ PhaseOf("VERIFIED") = "running"
  /\ PhaseOf("COMPLETED") = "done" /\ PhaseOf("FAILED") = "failed"
  /\ \A s \in Held : PhaseOf(s) = "held"
BY DEF PhaseOf, StatusAt, Held

LEMMA GuardedInit == ASSUME Init PROVE Guarded!GInit
<1>1. JobIds = {}
  BY DEF Init, JobIds
<1> QED BY <1>1 DEF Init, Guarded!GInit, phaseBar, verdictBar, loggedBar

(* A job is stored: the abstract specification accepts it. *)
LEMMA CreateAccepts ==
  ASSUME TypeOK, TypeOK', JobsFit', NEW c \in Callers, CreateJob(c)
  PROVE  \E j \in 1 .. MaxJobs, v \in Guarded!Verdicts : Guarded!Accept(j, v)
<1>1. PICK new : new = Len(jobs) + 1
  OBVIOUS
<1>2. PICK v : v = calls[c].decision.type
  OBVIOUS
<1>3. /\ JobIds' = JobIds \cup {new} /\ new \notin JobIds /\ new \in Nat
      /\ jobs'[new].status = "PLANNED" /\ jobs'[new].decision = v
      /\ \A id \in JobIds : jobs'[id] = jobs[id]
      /\ JobIds = 1 .. (new - 1)
  <2>1. Len(jobs) \in Nat /\ JobIds = 1 .. Len(jobs)
    BY DEF TypeOK, JobIds
  <2>2. jobs'[new] = JobRecord(c, "PLANNED", <<"PLANNED">>)
    BY <1>1, CreateJobEffect
  <2>3. /\ JobIds' = JobIds \cup {new} /\ new \notin JobIds
        /\ \A id \in JobIds : jobs'[id] = jobs[id]
    BY <1>1, CreateJobEffect
  <2> QED BY <1>1, <1>2, <2>1, <2>2, <2>3, JobRecordFields
<1>4. new \in 1 .. MaxJobs
  <2>1. (TypeOK /\ JobsFit => JobIds \subseteq 1 .. MaxJobs)'
    BY JobsHavePlaces, PTL
  <2> QED BY <1>3, <2>1
<1>5. v \in Guarded!Verdicts
  BY <1>2 DEF TypeOK, CallsTyped, Call, Decision, DecisionTypes, Guarded!Verdicts
<1>6. phaseBar[new] = "absent"
  BY <1>3, <1>4 DEF phaseBar
<1>7. ASSUME NEW i \in 1 .. MaxJobs, i < new PROVE phaseBar[i] # "absent"
  <2>1. i \in JobIds
    BY <1>3, <1>7
  <2>2. jobs[i].status \in Statuses
    <3>1. jobs[i] \in Job
      BY <2>1 DEF TypeOK, JobIds
    <3> QED BY <3>1 DEF Job
  <2> QED BY <2>1, <2>2 DEF phaseBar, PhaseOf, Statuses, Held
<1>8. phaseBar' = [phaseBar EXCEPT ![new] = "accepted"]
  <2>1. PhaseOf(jobs'[new].status) = "accepted"
    BY <1>3, PhasesAt
  <2>2. \A j \in 1 .. MaxJobs :
          phaseBar'[j] = IF j = new THEN "accepted" ELSE phaseBar[j]
    BY <1>3, <2>1 DEF phaseBar
  <2> QED BY <1>4, <2>2 DEF phaseBar
<1>9. verdictBar' = [verdictBar EXCEPT ![new] = v]
  <2>1. \A j \in 1 .. MaxJobs : verdictBar'[j] = IF j = new THEN v ELSE verdictBar[j]
    BY <1>3 DEF verdictBar
  <2> QED BY <1>4, <2>1 DEF verdictBar
<1>10. loggedBar' = loggedBar /\ executed' = executed
  BY DEF CreateJob, loggedBar
<1>11. Guarded!Accept(new, v)
  BY <1>4, <1>6, <1>7, <1>8, <1>9, <1>10 DEF Guarded!Accept
<1> QED BY <1>4, <1>5, <1>11

(* Every later step of a call is a step of its job's, or does not show. *)
LEMMA StepIsGuarded ==
  ASSUME TypeOK, JobsFit, CallsOwnJobs, CallsAreOnRecord, NEW c \in Callers,
         Step(c), ~CreateJob(c)
  PROVE  \/ \E j \in 1 .. MaxJobs : Guarded!Advance(j)
         \/ UNCHANGED <<phaseBar, verdictBar, loggedBar, executed>>
<1>1. PICK id : id = calls[c].job
  OBVIOUS
<1>2. ASSUME jobs' = jobs PROVE phaseBar' = phaseBar /\ verdictBar' = verdictBar
  BY <1>2 DEF phaseBar, verdictBar, JobIds
<1>3. ASSUME audits' = audits PROVE loggedBar' = loggedBar
  BY <1>3 DEF loggedBar
<1>4. ASSUME calls[c].pc \in Owning
      PROVE  /\ id \in 1 .. MaxJobs
             /\ phaseBar[id] = PhaseOf(StatusAt(calls[c].pc))
             /\ verdictBar[id] = calls[c].decision.type
             /\ calls[c].pc # "audit" => id \in loggedBar
             /\ calls[c].pc # "audit" => (Allow(calls[c].decision) <=> calls[c].pc \in Cleared)
             /\ id \in executed <=> calls[c].pc \in {"failure", "fail", "verify", "complete"}
  <2>1. id \in JobIds
    BY <1>1, <1>4 DEF TypeOK, CallsTyped
  <2>2. jobs[id].decision = calls[c].decision.type /\ jobs[id].status = StatusAt(calls[c].pc)
    BY <1>1, <1>4 DEF CallsOwnJobs, CallsAreOnRecord, OnRecord
  <2>3. /\ calls[c].pc # "audit" => (Allow(calls[c].decision) <=> calls[c].pc \in Cleared)
        /\ id \in executed <=> calls[c].pc \in {"failure", "fail", "verify", "complete"}
    BY <1>1, <1>4 DEF CallsAreOnRecord, OnRecord
  <2> QED BY <1>1, <1>4, <2>1, <2>2, <2>3, BarAt, LoggedBar
<1>5. ASSUME NEW s \in Statuses, UpdateJob(c, s), calls[c].pc \in Owning
      PROVE  /\ phaseBar' = [phaseBar EXCEPT ![id] = PhaseOf(s)]
             /\ PhaseOf(s) = PhaseOf(StatusAt(calls[c].pc)) => phaseBar' = phaseBar
             /\ verdictBar' = verdictBar
  BY <1>1, <1>5, UpdateMoves
<1>6. CASE Replay(c) \/ LookupMiss(c) \/ Snapshot(c) \/ Decide(c)
  BY <1>2, <1>3, <1>6 DEF Replay, LookupMiss, Snapshot, Decide
<1>7. CASE RecordPolicyBlock(c) \/ RecordJobFailed(c)
  BY <1>2, <1>3, <1>7 DEF RecordPolicyBlock, RecordJobFailed
<1>8. CASE AddAudit(c)
  <2>1. calls[c].pc = "audit" /\ audits' = audits \cup {AuditEvent(c)}
        /\ jobs' = jobs /\ executed' = executed
    BY <1>8 DEF AddAudit, Move
  <2>2. AuditEvent(c).job = id
    BY <1>1 DEF AuditEvent
  <2>3. loggedBar' = loggedBar \cup {id}
    BY <2>1, <2>2 DEF loggedBar
  <2>4. id \in 1 .. MaxJobs /\ phaseBar[id] = "accepted"
    BY <1>4, <2>1, PhasesAt DEF Owning, PCs
  <2>5. Guarded!Log(id)
    BY <1>2, <2>1, <2>3, <2>4 DEF Guarded!Log
  <2> QED BY <2>4, <2>5 DEF Guarded!Advance
<1>9. CASE Hold(c)
  <2>1. PICK s \in Held : UpdateJob(c, s)
    BY <1>9 DEF Hold, Held
  <2>2. calls[c].pc = "hold" /\ audits' = audits /\ executed' = executed
    BY <1>9 DEF Hold, Respond
  <2>3. calls[c].pc \in Owning /\ calls[c].pc # "audit" /\ calls[c].pc \notin Cleared
        /\ s \in Statuses
    BY <2>2 DEF Owning, PCs, Cleared, Held, Statuses
  <2>4. /\ id \in 1 .. MaxJobs /\ phaseBar[id] = "accepted" /\ id \in loggedBar
        /\ verdictBar[id] # "AUTO_RUN"
    BY <1>4, <2>2, <2>3, PhasesAt DEF Allow
  <2>5. phaseBar' = [phaseBar EXCEPT ![id] = "held"] /\ verdictBar' = verdictBar
    BY <1>5, <2>1, <2>3, PhasesAt
  <2>6. Guarded!Park(id)
    BY <1>3, <2>2, <2>4, <2>5 DEF Guarded!Park
  <2> QED BY <2>4, <2>6 DEF Guarded!Advance
<1>10. CASE Approve(c) \/ Verify(c)
  <2>1. PICK s \in {"APPROVED", "VERIFIED"} :
          UpdateJob(c, s) /\ calls[c].pc = IF s = "APPROVED" THEN "approve" ELSE "verify"
    BY <1>10 DEF Approve, Verify, Move
  <2>2. calls[c].pc \in Owning /\ s \in Statuses
    BY <2>1 DEF Owning, PCs, Statuses
  <2>3. PhaseOf(s) = PhaseOf(StatusAt(calls[c].pc))
    BY <2>1, PhasesAt
  <2>4. phaseBar' = phaseBar /\ verdictBar' = verdictBar
    BY <1>5, <2>1, <2>2, <2>3
  <2> QED BY <1>3, <1>10, <2>4 DEF Approve, Verify
<1>11. CASE Run(c)
  <2>1. UpdateJob(c, "RUNNING") /\ calls[c].pc = "run" /\ audits' = audits
        /\ executed' = executed
    BY <1>11 DEF Run, Move
  <2>2. calls[c].pc \in Owning /\ calls[c].pc # "audit" /\ calls[c].pc \in Cleared
    BY <2>1 DEF Owning, PCs, Cleared
  <2>3. /\ id \in 1 .. MaxJobs /\ phaseBar[id] = "accepted" /\ id \in loggedBar
        /\ verdictBar[id] = "AUTO_RUN"
    BY <1>4, <2>1, <2>2, PhasesAt DEF Allow
  <2>4. phaseBar' = [phaseBar EXCEPT ![id] = "running"] /\ verdictBar' = verdictBar
    BY <1>5, <2>1, <2>2, PhasesAt DEF Statuses
  <2>5. Guarded!Start(id)
    BY <1>3, <2>1, <2>3, <2>4 DEF Guarded!Start
  <2> QED BY <2>3, <2>5 DEF Guarded!Advance
<1>12. CASE ExecuteOK(c) \/ ExecuteError(c)
  <2>1. /\ calls[c].pc = "execute" /\ executed' = executed \cup {id}
        /\ jobs' = jobs /\ audits' = audits
    BY <1>1, <1>12 DEF ExecuteOK, ExecuteError, Move
  <2>2. id \in 1 .. MaxJobs /\ phaseBar[id] = "running" /\ id \notin executed
    BY <1>4, <2>1, PhasesAt DEF Owning, PCs
  <2>3. Guarded!Work(id)
    BY <1>2, <1>3, <2>1, <2>2 DEF Guarded!Work
  <2> QED BY <2>2, <2>3 DEF Guarded!Advance
<1>13. CASE Fail(c) \/ Complete(c)
  <2>1. PICK s \in {"FAILED", "COMPLETED"} :
          UpdateJob(c, s) /\ calls[c].pc = IF s = "FAILED" THEN "fail" ELSE "complete"
    BY <1>13 DEF Fail, Complete, Respond
  <2>2. audits' = audits /\ executed' = executed
    BY <1>13 DEF Fail, Complete
  <2>3. calls[c].pc \in Owning /\ s \in Statuses
    BY <2>1 DEF Owning, PCs, Statuses
  <2>4. id \in 1 .. MaxJobs /\ phaseBar[id] = "running" /\ id \in executed
    BY <1>4, <2>1, <2>3, PhasesAt
  <2>5. PhaseOf(s) = IF s = "FAILED" THEN "failed" ELSE "done"
    BY <2>1, PhasesAt
  <2>6. phaseBar' = [phaseBar EXCEPT ![id] = PhaseOf(s)] /\ verdictBar' = verdictBar
    BY <1>5, <2>1, <2>3
  <2>7. Guarded!Finish(id, PhaseOf(s))
    BY <1>3, <2>2, <2>4, <2>6 DEF Guarded!Finish
  <2> QED BY <2>4, <2>5, <2>7 DEF Guarded!Advance
<1> QED BY <1>6, <1>7, <1>8, <1>9, <1>10, <1>11, <1>12, <1>13 DEF Step

(* The pipeline's jobs are the abstract specification's: each is accepted  *)
(* with a verdict that is logged before anything else is done with it,     *)
(* only one the verdict allows is run, once, and no settled one moves      *)
(* (service.go:79-151).                                                    *)
THEOREM StepsAreGuarded == Spec => Guarded!GSafety
<1> DEFINE Inv == /\ TypeOK /\ Ownership /\ CallsAreOnRecord /\ IncidentsNameJobs
                  /\ JobsFit
<1>1. Init => Inv
  <2> SUFFICES ASSUME Init PROVE Inv
    OBVIOUS
  <2>1. JobIds = {} /\ \A c \in Callers : calls[c].pc = "idle"
    BY IdleTyped DEF Init, JobIds
  <2>2. CallsAreOnRecord /\ IncidentsNameJobs
    BY <2>1 DEF Init, CallsAreOnRecord, IncidentsNameJobs, Owning
  <2>3. InFlight = {} /\ MayStore = {} /\ Len(jobs) = 0
    BY <2>1 DEF Init, InFlight, MayStore
  <2>4. JobsFit
    BY <2>3, FS_EmptySet, PipelineAssumption DEF JobsFit, MayStore
  <2> QED BY <2>2, <2>4, TypeInit, OwnershipInit
<1>2. Inv /\ [Next]_vars => Inv'
  BY TypeStep, OwnershipStep, OnRecordStep, IncidentsNameJobsStep, FitStep
<1>3. Init => Guarded!GInit
  BY GuardedInit
<1>4. Inv /\ Inv' /\ [Next]_vars => [Guarded!GNext]_(Guarded!gvars)
  <2> SUFFICES ASSUME Inv, Inv', [Next]_vars PROVE [Guarded!GNext]_(Guarded!gvars)
    OBVIOUS
  <2>1. ASSUME UNCHANGED <<phaseBar, verdictBar, loggedBar, executed>>
        PROVE  UNCHANGED Guarded!gvars
    BY <2>1 DEF Guarded!gvars
  <2>2. ASSUME jobs' = jobs, audits' = audits, executed' = executed
        PROVE  UNCHANGED Guarded!gvars
    BY <2>1, <2>2 DEF phaseBar, verdictBar, loggedBar, JobIds
  <2>3. CASE \E c \in Callers : CreateJob(c)
    BY <2>3, CreateAccepts DEF Guarded!GNext
  <2>4. CASE \E c \in Callers : Step(c) /\ ~CreateJob(c)
    BY <2>1, <2>4, StepIsGuarded DEF Guarded!GNext, Ownership
  <2>5. CASE \E c \in Callers, r \in Requests : Receive(c, r)
    BY <2>2, <2>5 DEF Receive
  <2>6. CASE UNCHANGED vars \/ PollPolicyMode \/ Tick \/ \E n \in Nodes : Heartbeat(n)
    BY <2>2, <2>6 DEF vars, PollPolicyMode, Tick, Heartbeat
  <2> QED BY <2>3, <2>4, <2>5, <2>6 DEF Next
<1> QED BY <1>1, <1>2, <1>3, <1>4, PTL DEF Spec, Guarded!GSafety

=============================================================================
