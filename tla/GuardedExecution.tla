--------------------------- MODULE GuardedExecution ---------------------------
(***************************************************************************)
(* What the control plane promises of tool calls, with no callers, keys,   *)
(* clocks or modes: every accepted call becomes one job with a verdict;    *)
(* the verdict is written to the audit log before anything else happens;   *)
(* only a job whose verdict allows it runs, once; and every job ends, held *)
(* or finished, in a phase it never leaves.                                *)
(***************************************************************************)
EXTENDS Naturals

CONSTANT Jobs            \* the jobs the system may ever accept: 1 .. N

VARIABLES
  phase,                 \* job -> where it is in its life
  verdict,               \* job -> the policy decision it was accepted with
  logged,                \* jobs whose decision is in the audit log
  work                   \* jobs whose tool was run

gvars == <<phase, verdict, logged, work>>

Verdicts == {"AUTO_RUN", "REQUIRES_APPROVAL", "BLOCKED"}
Ends     == {"held", "done", "failed"}
Phases   == {"absent", "accepted", "running"} \cup Ends

GInit ==
  /\ phase = [j \in Jobs |-> "absent"]
  /\ verdict = [j \in Jobs |-> "none"]
  /\ logged = {}
  /\ work = {}

(* Jobs are numbered in the order they are accepted. *)
Accept(j, v) ==
  /\ phase[j] = "absent"
  /\ \A i \in Jobs : i < j => phase[i] # "absent"
  /\ phase' = [phase EXCEPT ![j] = "accepted"]
  /\ verdict' = [verdict EXCEPT ![j] = v]
  /\ UNCHANGED <<logged, work>>

Log(j) ==
  /\ phase[j] = "accepted"
  /\ logged' = logged \cup {j}
  /\ UNCHANGED <<phase, verdict, work>>

Park(j) ==
  /\ phase[j] = "accepted"
  /\ j \in logged
  /\ verdict[j] # "AUTO_RUN"
  /\ phase' = [phase EXCEPT ![j] = "held"]
  /\ UNCHANGED <<verdict, logged, work>>

Start(j) ==
  /\ phase[j] = "accepted"
  /\ j \in logged
  /\ verdict[j] = "AUTO_RUN"
  /\ phase' = [phase EXCEPT ![j] = "running"]
  /\ UNCHANGED <<verdict, logged, work>>

Work(j) ==
  /\ phase[j] = "running"
  /\ j \notin work
  /\ work' = work \cup {j}
  /\ UNCHANGED <<phase, verdict, logged>>

Finish(j, end) ==
  /\ phase[j] = "running"
  /\ j \in work
  /\ phase' = [phase EXCEPT ![j] = end]
  /\ UNCHANGED <<verdict, logged, work>>

Advance(j) == Log(j) \/ Park(j) \/ Start(j) \/ Work(j)
                \/ Finish(j, "done") \/ Finish(j, "failed")

GNext == \E j \in Jobs : (\E v \in Verdicts : Accept(j, v)) \/ Advance(j)

(* An accepted job is carried to its end. *)
GFairness == \A j \in Jobs : WF_gvars(Advance(j))

GSafety == GInit /\ [][GNext]_gvars
GSpec   == GSafety /\ GFairness

=============================================================================
