----------------------------- MODULE JobPipeline -----------------------------
(***************************************************************************)
(* The life of a tool call: Service.HandleCall of mcp/service.go, run by   *)
(* any number of concurrent callers (HTTP handlers, the autonomy worker)   *)
(* against the job, audit and incident tables and the policy mode of the   *)
(* in-memory store (store/memory.go).                                      *)
(*                                                                         *)
(* Every method of the store takes the store's one mutex, so every call of *)
(* a store method is one action, and callers interleave between them.      *)
(* What HandleCall keeps in local variables between two store calls is the *)
(* caller's record in `calls'.  IDs come from an atomic counter that is    *)
(* read before the mutex is taken; they are unique, and the code compares  *)
(* them for equality only, so that a job is named here by its place in the *)
(* order in which jobs were stored.                                        *)
(***************************************************************************)
EXTENDS PolicyGate, Sequences

CONSTANTS
  Callers,          \* goroutines that may be inside HandleCall
  Nodes,            \* the cluster nodes the store was seeded with
  Keys, NoKey,      \* idempotency keys; NoKey is the empty key
  Tools, RiskOf,    \* tools, and Engine.Classify of each of them
  ToAggressive,     \* the tools that are policy.mode.set to AGGRESSIVE_AUTO
  ToGuarded,        \* the tools that are policy.mode.set to GUARDED_SRE
  Durations,        \* durations given with policy.mode.set (0: none)
  Requests,         \* the requests clients send
  MaxAge,           \* maximal age of a heartbeat the health gate accepts
  FailClosed,       \* the gate evaluator's configuration
  MaxJobs,          \* BOUND: calls received while jobs or calls can be added
  MaxTime           \* BOUND: the clock

Request == [tool : Tools, key : Keys \cup {NoKey},
            approve : BOOLEAN, mfa : BOOLEAN, second : BOOLEAN]

ASSUME PipelineAssumption ==
  /\ NoKey \notin Keys
  /\ RiskOf \in [Tools -> RiskLevels]
  /\ ToAggressive \subseteq Tools
  /\ ToGuarded \subseteq Tools
  /\ \A t \in ToAggressive : RiskOf[t] = "HIGH"
  /\ Durations \subseteq Nat
  /\ Requests \subseteq Request
  /\ Requests # {}
  /\ FailClosed \in BOOLEAN
  /\ MaxAge \in Nat
  /\ MaxJobs \in Nat
  /\ MaxTime \in Nat

VARIABLES
  now,          \* the wall clock
  heartbeat,    \* node -> time of its last heartbeat
  policyMode,   \* the store's policy mode
  jobs,         \* the job table; a job is named by its place in the order of storing
  byIdemKey,    \* idempotency key -> job ID, 0 when the key is unknown
  audits,       \* the audit log; `job' is auxiliary, the code's event has no such field
  incidents,    \* the incident log; `job' is auxiliary here too
  executed,     \* jobs whose tool has been run by the orchestrator
  calls,        \* caller -> where it is in HandleCall and its local variables
  answers,      \* caller -> the last response it sent
  seen          \* auxiliary: job -> number of jobs stored when its call looked its key up

vars == <<now, heartbeat, policyMode, jobs, byIdemKey, audits, incidents,
          executed, calls, answers, seen>>

-----------------------------------------------------------------------------
(* Data.                                                                   *)

Statuses == {"PLANNED", "APPROVED", "RUNNING", "VERIFIED",
             "COMPLETED", "FAILED", "BLOCKED", "PENDING_APPROVAL"}

Held    == {"BLOCKED", "PENDING_APPROVAL"}      \* ends of a call that was not allowed
Settled == Held \cup {"COMPLETED", "FAILED"}    \* ends of a call

PCs == {"idle", "lookup", "snapshot", "decide", "create", "audit",
        "incident", "hold", "approve", "run", "execute",
        "failure", "fail", "verify", "complete"}

Job == [key : Keys \cup {NoKey}, tool : Tools, risk : RiskLevels,
        decision : DecisionTypes, status : Statuses, history : Seq(Statuses)]

Audit == [job : Nat, tool : Tools, risk : RiskLevels, approved : BOOLEAN,
          mfa : BOOLEAN, second : BOOLEAN, reason : Reasons, allowWrites : BOOLEAN]

Incident == [kind : {"policy_block", "job_failed"}, job : Nat]

Call == [pc : PCs, req : Request, allowWrites : BOOLEAN, decision : Decision,
         job : Nat, since : Nat]

(* Where a call has a job of its own. *)
Owning == PCs \ {"idle", "lookup", "snapshot", "decide", "create"}

(* A caller outside HandleCall: its locals are gone, whatever stands here. *)
IdleCall == [pc |-> "idle", req |-> CHOOSE r \in Requests : TRUE,
             allowWrites |-> FALSE, decision |-> [type |-> "BLOCKED", reason |-> ""],
             job |-> 0, since |-> 0]

(* `dual': auxiliary, the request had the approvals of a HIGH tool. *)
Answer == [job : Nat, key : Keys \cup {NoKey}, status : Statuses, dual : BOOLEAN]

(* HardBlockReason: every HIGH tool has a reason, no other tool has one.   *)
HardBlocked(risk) == risk = "HIGH"

Risk(c)     == RiskOf[calls[c].req.tool]
InFlight    == {c \in Callers : calls[c].pc # "idle"}
JobIds      == 1 .. Len(jobs)

(* The nodes as ClusterState shows them.  The store never writes a node's  *)
(* status, and sets RunnerHealthy to what it was seeded with.              *)
NodeView == [n \in Nodes |->
               [online |-> TRUE, runnerHealthy |-> TRUE, lastHeartbeat |-> heartbeat[n]]]

-----------------------------------------------------------------------------
(* The store's job table.                                                  *)

(* What a call stores of its job. *)
JobRecord(c, status, history) ==
  [key      |-> calls[c].req.key,
   tool     |-> calls[c].req.tool,
   risk     |-> Risk(c),
   decision |-> calls[c].decision.type,
   status   |-> status,
   history  |-> history]

(* UpdateJob replaces the stored job by the caller's copy, and appends the *)
(* copy's new status to the copy's history.  The copy is the one CreateJob *)
(* returned: HandleCall never reads the job back, so the copy's history is *)
(* still <<"PLANNED">>.                                                    *)
UpdateJob(c, status) ==
  jobs' = [jobs EXCEPT ![calls[c].job] =
             JobRecord(c, status, Append(<<"PLANNED">>, status))]

Move(c, from, to) ==
  /\ calls[c].pc = from
  /\ calls' = [calls EXCEPT ![c] = [@ EXCEPT !.pc = to]]

Respond(c, from, id, status) ==
  /\ calls[c].pc = from
  /\ calls' = [calls EXCEPT ![c] = IdleCall]
  /\ answers' = [answers EXCEPT ![c] =
                   [job |-> id, key |-> calls[c].req.key, status |-> status,
                    dual |-> DualApproved(calls[c].req)]]

(* Deviations: what plausible mistakes would make of the definitions that  *)
(* follow them.  Nothing refers to them; README says what each breaks.     *)
JobNotIndexed(key, id) == byIdemKey

(* The key index once job id is stored under key: the last one stored has  *)
(* the key.                                                                *)
IndexKey(key, id) ==
  IF key # NoKey THEN [byIdemKey EXCEPT ![key] = id] ELSE byIdemKey

-----------------------------------------------------------------------------
(* HandleCall.                                                             *)

(* Deviations: of Receive, AfterAudit, Hold, Approve and Fail.             *)
LookupWithoutKey(c, r) ==
  /\ calls[c].pc = "idle"
  /\ Len(jobs) + Cardinality(InFlight) < MaxJobs
  /\ calls' = [calls EXCEPT ![c] = [@ EXCEPT !.pc = "lookup", !.req = r]]
  /\ UNCHANGED <<now, heartbeat, policyMode, jobs, byIdemKey, audits, incidents,
                 executed, answers, seen>>

ApprovalNotRequired(decision) ==
  IF decision.type = "BLOCKED" THEN "incident" ELSE "approve"

AnsweredAsBlocked(c) ==
  /\ Respond(c, "hold", calls[c].job, "BLOCKED")
  /\ UpdateJob(c, "PENDING_APPROVAL")
  /\ UNCHANGED <<now, heartbeat, policyMode, byIdemKey, audits, incidents,
                 executed, seen>>

RunNotStored(c) ==
  /\ Move(c, "approve", "execute")
  /\ UpdateJob(c, "APPROVED")
  /\ UNCHANGED <<now, heartbeat, policyMode, byIdemKey, audits, incidents,
                 executed, answers, seen>>

FailGoesOn(c) ==
  /\ Move(c, "fail", "verify")
  /\ UpdateJob(c, "FAILED")
  /\ UNCHANGED <<now, heartbeat, policyMode, byIdemKey, audits, incidents,
                 executed, answers, seen>>

(* A request arrives.  Only a request with a key looks the key up.         *)
Receive(c, r) ==
  /\ calls[c].pc = "idle"
  /\ Len(jobs) + Cardinality(InFlight) < MaxJobs
  /\ calls' = [calls EXCEPT ![c] =
       [@ EXCEPT !.pc  = IF r.key # NoKey THEN "lookup" ELSE "snapshot",
                 !.req = r]]
  /\ UNCHANGED <<now, heartbeat, policyMode, jobs, byIdemKey, audits, incidents,
                 executed, answers, seen>>

(* GetJobByIdempotencyKey finds a job: it is the answer, whatever its      *)
(* status.                                                                 *)
Replay(c) ==
  LET id == byIdemKey[calls[c].req.key]
  IN  /\ calls[c].pc = "lookup"
      /\ id # 0
      /\ Respond(c, "lookup", id, jobs[id].status)
      /\ UNCHANGED <<now, heartbeat, policyMode, jobs, byIdemKey, audits,
                     incidents, executed, seen>>

LookupMiss(c) ==
  /\ calls[c].pc = "lookup"
  /\ byIdemKey[calls[c].req.key] = 0
  /\ calls' = [calls EXCEPT ![c] = [@ EXCEPT !.pc = "snapshot", !.since = Len(jobs)]]
  /\ UNCHANGED <<now, heartbeat, policyMode, jobs, byIdemKey, audits, incidents,
                 executed, answers, seen>>

(* SnapshotFromState.  The audit event keeps the gate's verdict.           *)
Snapshot(c) ==
  /\ calls[c].pc = "snapshot"
  /\ calls' = [calls EXCEPT ![c] =
       [@ EXCEPT !.pc = "decide",
                 !.allowWrites = ValidateForWrite(
                    SnapshotFromState(NodeView, now, MaxAge), FailClosed)]]
  /\ UNCHANGED <<now, heartbeat, policyMode, jobs, byIdemKey, audits, incidents,
                 executed, answers, seen>>

(* GetPolicyMode, which expires the mode, and Evaluate on what it returns. *)
(* The health gate is applied only to tools that are not LOW.              *)
Decide(c) ==
  LET mode == ExpirePolicyMode(policyMode, now)
  IN  /\ calls[c].pc = "decide"
      /\ policyMode' = mode
      /\ calls' = [calls EXCEPT ![c] =
           [@ EXCEPT !.pc = "create",
                     !.decision = Evaluate(Risk(c), HardBlocked(Risk(c)), calls[c].req,
                        Risk(c) = "LOW" \/ calls[c].allowWrites, mode, now)]]
      /\ UNCHANGED <<now, heartbeat, jobs, byIdemKey, audits, incidents, executed,
                     answers, seen>>

(* CreateJob gives the key to the new job even when another job has it.    *)
CreateJob(c) ==
  /\ calls[c].pc = "create"
  /\ jobs' = Append(jobs, JobRecord(c, "PLANNED", <<"PLANNED">>))
  /\ byIdemKey' = IndexKey(calls[c].req.key, Len(jobs) + 1)
  /\ seen' = Append(seen, calls[c].since)
  /\ calls' = [calls EXCEPT ![c] = [@ EXCEPT !.pc = "audit", !.job = Len(jobs) + 1]]
  /\ UNCHANGED <<now, heartbeat, policyMode, audits, incidents, executed, answers>>

(* Where a decision sends the call once it is audited. *)
AfterAudit(decision) ==
  CASE Allow(decision)             -> "approve"
    [] decision.type = "BLOCKED"   -> "incident"
    [] OTHER                       -> "hold"

AuditEvent(c) ==
  [job         |-> calls[c].job,
   tool        |-> calls[c].req.tool,
   risk        |-> Risk(c),
   approved    |-> calls[c].req.approve,
   mfa         |-> calls[c].req.mfa,
   second      |-> calls[c].req.second,
   reason      |-> calls[c].decision.reason,
   allowWrites |-> calls[c].allowWrites]

AddAudit(c) ==
  /\ Move(c, "audit", AfterAudit(calls[c].decision))
  /\ audits' = audits \cup {AuditEvent(c)}
  /\ UNCHANGED <<now, heartbeat, policyMode, jobs, byIdemKey, incidents,
                 executed, answers, seen>>

RecordPolicyBlock(c) ==
  /\ Move(c, "incident", "hold")
  /\ incidents' = incidents \cup {[kind |-> "policy_block", job |-> calls[c].job]}
  /\ UNCHANGED <<now, heartbeat, policyMode, jobs, byIdemKey, audits, executed,
                 answers, seen>>

Hold(c) ==
  LET status == IF calls[c].decision.type = "REQUIRES_APPROVAL"
                THEN "PENDING_APPROVAL" ELSE "BLOCKED"
  IN  /\ Respond(c, "hold", calls[c].job, status)
      /\ UpdateJob(c, status)
      /\ UNCHANGED <<now, heartbeat, policyMode, byIdemKey, audits, incidents,
                     executed, seen>>

(* The three updates of an allowed call that change nothing but the job.   *)
Approve(c) ==
  /\ Move(c, "approve", "run")
  /\ UpdateJob(c, "APPROVED")
  /\ UNCHANGED <<now, heartbeat, policyMode, byIdemKey, audits, incidents,
                 executed, answers, seen>>

Run(c) ==
  /\ Move(c, "run", "execute")
  /\ UpdateJob(c, "RUNNING")
  /\ UNCHANGED <<now, heartbeat, policyMode, byIdemKey, audits, incidents,
                 executed, answers, seen>>

Verify(c) ==
  /\ Move(c, "verify", "complete")
  /\ UpdateJob(c, "VERIFIED")
  /\ UNCHANGED <<now, heartbeat, policyMode, byIdemKey, audits, incidents,
                 executed, answers, seen>>

(* orchestrator.Execute: the tool succeeds, or fails having done any part  *)
(* of its work.  policy.mode.set never fails and writes the policy mode.   *)
ModesAfter(tool) ==
  CASE tool \in ToAggressive ->
         {SetPolicyMode("AGGRESSIVE_AUTO", d, now) : d \in Durations}
    [] tool \in ToGuarded \ ToAggressive ->
         {SetPolicyMode("GUARDED_SRE", d, now) : d \in Durations}
    [] OTHER -> {policyMode}

ExecuteOK(c) ==
  /\ Move(c, "execute", "verify")
  /\ executed' = executed \cup {calls[c].job}
  /\ policyMode' \in ModesAfter(calls[c].req.tool)
  /\ UNCHANGED <<now, heartbeat, jobs, byIdemKey, audits, incidents, answers, seen>>

ExecuteError(c) ==
  /\ calls[c].req.tool \notin ToAggressive \cup ToGuarded
  /\ Move(c, "execute", "failure")
  /\ executed' = executed \cup {calls[c].job}
  /\ UNCHANGED <<now, heartbeat, policyMode, jobs, byIdemKey, audits, incidents,
                 answers, seen>>

RecordJobFailed(c) ==
  /\ Move(c, "failure", "fail")
  /\ incidents' = incidents \cup {[kind |-> "job_failed", job |-> calls[c].job]}
  /\ UNCHANGED <<now, heartbeat, policyMode, jobs, byIdemKey, audits, executed,
                 answers, seen>>

Fail(c) ==
  /\ Respond(c, "fail", calls[c].job, "FAILED")
  /\ UpdateJob(c, "FAILED")
  /\ UNCHANGED <<now, heartbeat, policyMode, byIdemKey, audits, incidents,
                 executed, seen>>

Complete(c) ==
  /\ Respond(c, "complete", calls[c].job, "COMPLETED")
  /\ UpdateJob(c, "COMPLETED")
  /\ UNCHANGED <<now, heartbeat, policyMode, byIdemKey, audits, incidents,
                 executed, seen>>

-----------------------------------------------------------------------------
(* What happens around the callers.                                        *)

(* MarkNodeHeartbeat. *)
Heartbeat(n) ==
  /\ heartbeat' = [heartbeat EXCEPT ![n] = now]
  /\ UNCHANGED <<now, policyMode, jobs, byIdemKey, audits, incidents, executed,
                 calls, answers, seen>>

(* A reader of the policy mode (GET /policy/mode) expires it as well.      *)
PollPolicyMode ==
  /\ policyMode' = ExpirePolicyMode(policyMode, now)
  /\ UNCHANGED <<now, heartbeat, jobs, byIdemKey, audits, incidents, executed,
                 calls, answers, seen>>

Tick ==
  /\ now < MaxTime
  /\ now' = now + 1
  /\ UNCHANGED <<heartbeat, policyMode, jobs, byIdemKey, audits, incidents,
                 executed, calls, answers, seen>>

-----------------------------------------------------------------------------
Init ==
  /\ now = 0
  /\ heartbeat = [n \in Nodes |-> 0]
  /\ policyMode = [mode |-> "GUARDED_SRE", until |-> 0]
  /\ jobs = <<>>
  /\ byIdemKey = [k \in Keys |-> 0]
  /\ audits = {}
  /\ incidents = {}
  /\ executed = {}
  /\ calls = [c \in Callers |-> IdleCall]
  /\ answers = [c \in Callers |->
                  [job |-> 0, key |-> NoKey, status |-> "PLANNED", dual |-> FALSE]]
  /\ seen = <<>>

(* The next step of a call that has been received. *)
Step(c) ==
  \/ Replay(c) \/ LookupMiss(c) \/ Snapshot(c) \/ Decide(c)
  \/ CreateJob(c) \/ AddAudit(c) \/ RecordPolicyBlock(c) \/ Hold(c)
  \/ Approve(c) \/ Run(c) \/ ExecuteOK(c) \/ ExecuteError(c)
  \/ RecordJobFailed(c) \/ Fail(c) \/ Verify(c) \/ Complete(c)

Next ==
  \/ \E c \in Callers : (\E r \in Requests : Receive(c, r)) \/ Step(c)
  \/ \E n \in Nodes : Heartbeat(n)
  \/ PollPolicyMode
  \/ Tick

(* A goroutine inside HandleCall keeps running: the mutex is held only for *)
(* the length of a method, and the orchestrator's calls have timeouts.     *)
Fairness == \A c \in Callers : WF_vars(Step(c))

Spec == Init /\ [][Next]_vars /\ Fairness

-----------------------------------------------------------------------------
(* Properties.                                                             *)

(* The calls' part of the type invariant: a call has a job of its own from *)
(* CreateJob on, and only a call with a key is in the lookup.              *)
CallsTyped ==
  /\ calls \in [Callers -> Call]
  /\ \A c \in Callers :
       /\ calls[c].job \in IF calls[c].pc \in Owning THEN JobIds ELSE {0}
       /\ calls[c].pc = "lookup" => calls[c].req.key \in Keys

(* Every variable keeps its type; the job IDs held by the index, by the    *)
(* calls and by the answers are IDs of stored jobs (memory.go:14-34).      *)
TypeOK ==
  /\ now \in Nat
  /\ heartbeat \in [Nodes -> Nat]
  /\ policyMode \in PolicyMode
  /\ jobs \in Seq(Job)
  /\ byIdemKey \in [Keys -> {0} \cup JobIds]
  /\ audits \subseteq Audit
  /\ incidents \subseteq Incident
  /\ executed \subseteq JobIds
  /\ CallsTyped
  /\ answers \in [Callers -> Answer]
  /\ \A c \in Callers : answers[c].job \in {0} \cup JobIds
  /\ seen \in Seq(Nat)
  /\ Len(seen) = Len(jobs)

(* Why the code let a job run, as the audit log shows it: writes were      *)
(* allowed by the health gate, and a HIGH tool was approved, by hardware   *)
(* MFA and a second approver or in the aggressive mode.                    *)
Justifies(a, id) ==
  /\ a.job = id
  /\ a.tool = jobs[id].tool
  /\ a.risk = jobs[id].risk
  /\ a.risk # "LOW" => a.allowWrites
  /\ a.risk = "HIGH" =>
       a.approved /\ ((a.mfa /\ a.second) \/ a.reason = "aggressive mode")

(* No tool is run that the audit log does not justify, however callers,    *)
(* heartbeats and mode changes interleave (service.go:58-129).             *)
RunsAreJustified == \A id \in executed : \E a \in audits : Justifies(a, id)

(* What the key index (byIdemKey) guarantees under concurrent calls: two   *)
(* jobs share a key only when the later one's call had looked the key up   *)
(* before the earlier job was stored.  A retry sent after the first job    *)
(* was stored never makes another one.                                     *)
DuplicateKeysOverlap ==
  \A i, j \in JobIds :
    i < j /\ jobs[i].key = jobs[j].key /\ jobs[i].key # NoKey => seen[j] < i

(* The two parts of the next property. *)
PolicyBlock(id) == [kind |-> "policy_block", job |-> id]
JobFailed(id)   == [kind |-> "job_failed", job |-> id]

IncidentsMatchEnds ==
  \A id \in JobIds : jobs[id].status \in Settled =>
    /\ jobs[id].status = "BLOCKED" <=> PolicyBlock(id) \in incidents
    /\ jobs[id].status = "FAILED"  <=> JobFailed(id) \in incidents

(* The audit log shows that the job's call lacked an approval. *)
LackedApproval(id) == \E a \in audits : a.job = id /\ ~(a.approved /\ a.mfa /\ a.second)

AnswersStand ==
  \A c \in Callers : answers[c].job # 0 =>
    /\ jobs[answers[c].job].key = answers[c].key
    /\ answers[c].status \in Settled => jobs[answers[c].job].status = answers[c].status
    /\ answers[c].dual /\ answers[c].status = "PENDING_APPROVAL" =>
         answers[c].key # NoKey /\ LackedApproval(answers[c].job)

(* What is told of a job stays true.  A settled job has exactly the        *)
(* incident its end calls for.  A caller's answer names a job with the key *)
(* it sent, and a final status it was given is still the job's status; and *)
(* a call that has all the approvals is told that one is missing only when *)
(* it replays, by its key, a job that another call without them created    *)
(* (service.go:43-56, 110-137).                                            *)
OutcomesAreTold == IncidentsMatchEnds /\ AnswersStand

(* A switch to the aggressive mode has run that was approved twice. *)
AggressiveWasApproved ==
  \E a \in audits :
    /\ a.tool \in ToAggressive
    /\ a.approved /\ a.mfa /\ a.second
    /\ a.job \in executed

(* The aggressive mode is entered through a dual approval: whenever it is  *)
(* on, or has let a job run, a dually approved switch to it has been       *)
(* audited and has run, however many switches with fewer approvals were    *)
(* held, or let through by the mode itself (gate.go:47-53).                *)
AggressiveModeWasGranted ==
  (\/ policyMode.mode = "AGGRESSIVE_AUTO"
   \/ \E a \in audits : a.reason = "aggressive mode")
  => AggressiveWasApproved

(* A settled job is never written again: whoever else is inside HandleCall *)
(* with the same key, tool or caller, no update reaches it.                *)
SettledJobsAreFinal ==
  [][\A id \in JobIds : jobs[id].status \in Settled => jobs'[id] = jobs[id]]_vars

-----------------------------------------------------------------------------
(* The inductive invariant behind the safety properties.                   *)

(* The status a job has while its call is at pc. *)
StatusAt(pc) ==
  CASE pc = "run"      -> "APPROVED"
    [] pc = "complete" -> "VERIFIED"
    [] pc \in {"execute", "failure", "fail", "verify"} -> "RUNNING"
    [] OTHER           -> "PLANNED"

Cleared == {"approve", "run", "execute", "failure", "fail", "verify", "complete"}

(* The job of a call is what the call made it, ... *)
CallsOwnJobs ==
  \A c \in Callers : calls[c].pc \in Owning =>
    LET job == jobs[calls[c].job]
    IN  /\ job.key = calls[c].req.key
        /\ job.tool = calls[c].req.tool
        /\ job.risk = Risk(c)
        /\ job.status = StatusAt(calls[c].pc)

(* ... and no other call's. *)
JobsHaveOneCall ==
  \A c, d \in Callers :
    calls[c].pc \in Owning /\ calls[d].pc \in Owning /\ calls[c].job = calls[d].job
      => c = d

(* What the policy gate looked at before it allowed a call ... *)
AllowedByGate ==
  \A c \in Callers : calls[c].pc \in {"create", "audit"} /\ Allow(calls[c].decision) =>
    /\ Risk(c) # "LOW" => calls[c].allowWrites
    /\ Risk(c) = "HIGH" =>
         /\ calls[c].req.approve
         /\ \/ calls[c].req.mfa /\ calls[c].req.second
            \/ calls[c].decision.reason = "aggressive mode"

(* ... is in the audit log by the time the call acts on it. *)
ClearedCallsAreLogged ==
  \A c \in Callers : calls[c].pc \in Cleared =>
    \E a \in audits : Justifies(a, calls[c].job)

(* A job that was stored is in the index under its key, and the call that  *)
(* missed a key did so before any job with the key was stored.             *)
IndexIsComplete ==
  \A id \in JobIds : jobs[id].key # NoKey => id <= byIdemKey[jobs[id].key]

MissesPrecedeJobs ==
  \A c \in Callers :
    calls[c].pc \in {"snapshot", "decide", "create"} /\ calls[c].req.key # NoKey =>
      /\ calls[c].since <= Len(jobs)
      /\ \A id \in JobIds : jobs[id].key = calls[c].req.key => calls[c].since < id

(* What is on record of a call's job: the decision it was stored with,     *)
(* which sent the call where it is, an audit of the call's approvals once  *)
(* it is past its audit, whether the tool was run, and the incidents.      *)
OnRecord(c) ==
  LET id  == calls[c].job
      pc  == calls[c].pc
      req == calls[c].req
      dec == calls[c].decision
  IN  /\ jobs[id].decision = dec.type
      /\ pc # "audit" => (Allow(dec) <=> pc \in Cleared)
      /\ pc = "incident" => dec.type = "BLOCKED"
      /\ pc # "audit" => \E a \in audits :
           /\ a.job = id
           /\ a.approved = req.approve /\ a.mfa = req.mfa /\ a.second = req.second
      /\ id \in executed <=> pc \in {"failure", "fail", "verify", "complete"}
      /\ PolicyBlock(id) \in incidents <=> pc = "hold" /\ dec.type = "BLOCKED"
      /\ JobFailed(id) \in incidents <=> pc = "fail"

CallsAreOnRecord == \A c \in Callers : calls[c].pc \in Owning => OnRecord(c)

IncidentsNameJobs == \A i \in incidents : i.job \in JobIds

(* Only a call that lacks an approval is told to get one, ... *)
MissingApprovals ==
  \A c \in Callers :
    /\ calls[c].pc \in {"create"} \cup Owning
    /\ calls[c].decision.type = "REQUIRES_APPROVAL"
    => ~DualApproved(calls[c].req)

(* ... the log shows it of every job that waits for one, and the index     *)
(* leads from a key to a job with the key.                                 *)
PendingLackApproval ==
  \A id \in JobIds : jobs[id].status = "PENDING_APPROVAL" => LackedApproval(id)

IndexNamesJobs ==
  \A k \in Keys : byIdemKey[k] # 0 => jobs[byIdemKey[k]].key = k

(* A call that the aggressive mode let through, and that is not audited    *)
(* yet, was let through by a mode that a dual approval had switched on.    *)
AggressiveCallsWereGranted ==
  \A c \in Callers :
    /\ calls[c].pc \in {"create", "audit"}
    /\ calls[c].decision.reason = "aggressive mode"
    => AggressiveWasApproved

(* The bound is a bound: calls that may still store a job leave room.      *)
JobsFit ==
  /\ IsFiniteSet(InFlight)
  /\ Len(jobs) + Cardinality({c \in InFlight : calls[c].pc \notin Owning}) <= MaxJobs

-----------------------------------------------------------------------------
(* JobPipeline implements GuardedExecution: what a client, the store and   *)
(* the audit log show of the jobs is what the abstract specification says. *)

PhaseOf(status) ==
  CASE status \in {"PLANNED", "APPROVED"} -> "accepted"
    [] status \in {"RUNNING", "VERIFIED"} -> "running"
    [] status \in Held                    -> "held"
    [] status = "COMPLETED"               -> "done"
    [] status = "FAILED"                  -> "failed"

phaseBar ==
  [j \in 1 .. MaxJobs |-> IF j \in JobIds THEN PhaseOf(jobs[j].status) ELSE "absent"]
verdictBar ==
  [j \in 1 .. MaxJobs |-> IF j \in JobIds THEN jobs[j].decision ELSE "none"]
loggedBar == {a.job : a \in audits}

Guarded == INSTANCE GuardedExecution WITH
  Jobs <- 1 .. MaxJobs, phase <- phaseBar, verdict <- verdictBar,
  logged <- loggedBar, work <- executed

(* Every step of HandleCall is a step of the abstract life of a job, or    *)
(* changes nothing of it, and every job that is stored comes to an end     *)
(* (service.go:79-151).                                                    *)
ImplementsGuardedExecution == Guarded!GSpec

=============================================================================
