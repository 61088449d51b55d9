----------------------------- MODULE PolicyGate -----------------------------
(***************************************************************************)
(* The pure part of a tool call's decision: the fail-closed health gate    *)
(* (health/gates.go) and the policy gate (policy/gate.go).  Both are       *)
(* functions of values the caller has already read from the store; the     *)
(* specification of the caller (JobPipeline) says when each is read.       *)
(*                                                                         *)
(* Times are natural numbers; 0 is Go's zero time.                         *)
(***************************************************************************)
EXTENDS Naturals, FiniteSets

RiskLevels    == {"LOW", "MEDIUM", "HIGH"}
DecisionTypes == {"AUTO_RUN", "REQUIRES_APPROVAL", "BLOCKED"}
PolicyModes   == {"GUARDED_SRE", "AGGRESSIVE_AUTO"}

(* What a decision gives as its reason: "" for a plain permission. *)
Reasons == {"", "health gate", "hard block", "aggressive mode", "dual approval missing"}

Decision      == [type : DecisionTypes, reason : Reasons]
PolicyMode    == [mode : PolicyModes, until : Nat]

-----------------------------------------------------------------------------
(* Health gate.  A node is what the store keeps of it: its status, the     *)
(* flag the heartbeat handler sets, and the time of its last heartbeat.    *)

QuorumHealthy(nodes) ==
  LET online == {n \in DOMAIN nodes : nodes[n].online}
  IN  /\ DOMAIN nodes # {}
      /\ Cardinality(online) >= Cardinality(DOMAIN nodes) \div 2 + 1

RunnerHealthy(nodes, now, maxAge) ==
  \A n \in DOMAIN nodes :
    nodes[n].runnerHealthy /\ now <= nodes[n].lastHeartbeat + maxAge

SnapshotFromState(nodes, now, maxAge) ==
  [quorum |-> QuorumHealthy(nodes), runner |-> RunnerHealthy(nodes, now, maxAge)]

ValidateForWrite(snapshot, failClosed) ==
  snapshot.quorum /\ (snapshot.runner \/ ~failClosed)

-----------------------------------------------------------------------------
(* Policy gate.  The tests are made in the code's order: health first,     *)
(* then the hard block, then the risk level.                               *)

AggressiveActive(mode, now) ==
  mode.mode = "AGGRESSIVE_AUTO" /\ (mode.until = 0 \/ now < mode.until)

(* Deviation: re-authentication is enough. *)
ReauthApproved(approval) == approval.approve

DualApproved(approval) == approval.approve /\ approval.mfa /\ approval.second

Evaluate(risk, hardBlocked, approval, gateOK, mode, now) ==
  CASE ~gateOK ->
         [type |-> "BLOCKED", reason |-> "health gate"]
    [] gateOK /\ hardBlocked /\ ~approval.approve ->
         [type |-> "REQUIRES_APPROVAL", reason |-> "hard block"]
    [] OTHER ->
         CASE risk # "HIGH" ->
                [type |-> "AUTO_RUN", reason |-> ""]
           [] risk = "HIGH" /\ AggressiveActive(mode, now) ->
                [type |-> "AUTO_RUN", reason |-> "aggressive mode"]
           [] risk = "HIGH" /\ ~AggressiveActive(mode, now) /\ DualApproved(approval) ->
                [type |-> "AUTO_RUN", reason |-> ""]
           [] OTHER ->
                [type |-> "REQUIRES_APPROVAL", reason |-> "dual approval missing"]

(* Decision.Allow: exactly the AUTO_RUN decisions. *)
Allow(decision) == decision.type = "AUTO_RUN"

(* GetPolicyMode returns, and stores, the guarded mode once the aggressive *)
(* window has passed; it leaves the deadline in place.                     *)
ExpirePolicyMode(mode, now) ==
  IF mode.mode = "AGGRESSIVE_AUTO" /\ mode.until # 0 /\ now > mode.until
  THEN [mode EXCEPT !.mode = "GUARDED_SRE"]
  ELSE mode

(* SetPolicyMode: only an aggressive mode with a positive duration has a   *)
(* deadline.                                                               *)
SetPolicyMode(newMode, duration, now) ==
  [mode  |-> newMode,
   until |-> IF newMode = "AGGRESSIVE_AUTO" /\ duration > 0 THEN now + duration ELSE 0]

(* Simulate: the same gate evaluated without the hardware MFA and without  *)
(* a second approver, and with the health gate applied whatever the risk.  *)
Simulate(risk, hardBlocked, approve, snapshot, mode, now) ==
  Evaluate(risk, hardBlocked, [approve |-> approve, mfa |-> FALSE, second |-> FALSE],
           ValidateForWrite(snapshot, TRUE), mode, now)

=============================================================================
