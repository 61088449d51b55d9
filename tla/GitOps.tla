-------------------------------- MODULE GitOps --------------------------------
(***************************************************************************)
(* Deployment by pull: the GitOps service (gitops/service.go), called over *)
(* HTTP, and the script the VM's timer runs every two minutes              *)
(* (infra/ops/gitops/proxmaster-deploy.sh).  Both bring the same checkout  *)
(* to the head of the branch and start the containers from it; calls of    *)
(* the service exclude one another, and nothing excludes the script.       *)
(*                                                                         *)
(* git, docker and the health endpoint are external.  A command that fails *)
(* has changed something or not (a client that goes away kills it); a      *)
(* health check answers as it likes.  The process may end at any point,    *)
(* and does when compose recreates its container.  The lock file that a    *)
(* killed git leaves is left out, and so are times and texts; last_health  *)
(* always says what lastResult says.  `deployed' is the commit whose files *)
(* compose last acted on: a container that compose leaves alone may run    *)
(* older code still (the source is mounted, docker-compose.yml:2-11), and  *)
(* nothing here speaks of that.                                            *)
(***************************************************************************)
EXTENDS Naturals

CONSTANTS
  Callers,          \* goroutines that may call the service
  Timer,            \* the script; systemd runs one at a time
  RollbackOnFail,   \* PROXMASTER_GITOPS_ROLLBACK_ON_FAIL
  MaxCommits        \* BOUND: commits ever pushed

ASSUME GitOpsAssumption ==
  /\ Timer \notin Callers
  /\ RollbackOnFail \in BOOLEAN
  /\ MaxCommits \in Nat \ {0}

VARIABLES
  origin,           \* external: the newest commit of the branch at origin
  tip, head,        \* external: the local branch; HEAD, Branch or a commit
  deployed,         \* external: the commit compose was last run from
  running, lastResult, lastCommit, lastStable,    \* the service's fields
  work,             \* worker -> its next command and its local variables
  calm,             \* auxiliary: commands no longer fail, and nobody pushes
                    \* or asks for the stable commit any more
  excused           \* auxiliary: the script has changed something since the
                    \* last call began, or that call has ignored a failure

repo   == <<origin, tip, head>>
fields == <<running, lastResult, lastCommit, lastStable>>
vars   == <<origin, tip, head, deployed, running, lastResult, lastCommit,
            lastStable, work, calm, excused>>

Workers == Callers \cup {Timer}
Commits == 1 .. MaxCommits
Unknown == 0                        \* the empty string for a commit
Branch  == 0                        \* HEAD when it is not detached

CheckedOut == IF head = Branch THEN tip ELSE head

Results == {"", "failed", "success", "rolled_back"}

(* The commands in their order; leave: the call has its answer.            *)
Commands == {"before", "fetch", "checkout", "pull", "after", "compose", "health",
             "backCheckout", "backCompose", "backHealth",
             "stableCheckout", "stableCompose", "stableHealth"}
Work == [pc : Commands \cup {"idle", "leave"}, before : Commits \cup {Unknown},
         after : Commits \cup {Unknown}]

Idle == [pc |-> "idle", before |-> Unknown, after |-> Unknown]

At(w, pc) == work[w].pc = pc
Go(w, pc) == work' = [work EXCEPT ![w] = [@ EXCEPT !.pc = pc]]

(* The script ends where a call goes on to answer. *)
Leave(w) == work' = [work EXCEPT ![w] = [Idle EXCEPT !.pc = IF w = Timer THEN @ ELSE "leave"]]

(* A call writes its result; the script only exits. *)
Report(w, result, commit) ==
  /\ lastResult' = IF w = Timer THEN lastResult ELSE result
  /\ lastCommit' = IF w = Timer THEN lastCommit ELSE commit
  /\ UNCHANGED <<running, lastStable>>

MarkFailed(w) == Report(w, "failed", lastCommit)

(* markFailed and return. *)
Fail(w) == ~calm /\ MarkFailed(w) /\ Leave(w)

-----------------------------------------------------------------------------
(* Entering and leaving.                                                   *)

Enter(c, pc, before) ==
  /\ At(c, "idle")
  /\ running' = TRUE
  /\ work' = [work EXCEPT ![c] = [Idle EXCEPT !.pc = pc, !.before = before]]
  /\ excused' = FALSE
  /\ UNCHANGED <<repo, deployed, lastResult, lastCommit, lastStable, calm>>

(* Deviation: a second sync is not turned away. *)
SyncTwice(c) == Enter(c, "before", Unknown)

(* A call that finds the service running is answered with an error and     *)
(* changes nothing.                                                        *)
SyncNow(c) == ~running /\ Enter(c, "before", Unknown)

(* RollbackLastStable; `before' is the commit it goes back to.             *)
RollbackLastStable(c) ==
  /\ ~calm
  /\ ~running
  /\ lastStable # Unknown
  /\ Enter(c, "stableCheckout", lastStable)

(* The deferred function.                                                  *)
Finish(c) ==
  /\ At(c, "leave")
  /\ running' = FALSE
  /\ Go(c, "idle")
  /\ UNCHANGED <<repo, deployed, lastResult, lastCommit, lastStable, calm, excused>>

StartTimer ==
  /\ At(Timer, "idle")
  /\ Go(Timer, "before")
  /\ UNCHANGED <<repo, deployed, fields, calm, excused>>

-----------------------------------------------------------------------------
(* The commands.  Each succeeds, or fails if `calm' does not forbid it.    *)

(* docker compose up -d reads the checkout as it is. *)
ComposeUp == deployed' = CheckedOut
ComposeFails == ComposeUp \/ UNCHANGED deployed

(* git rev-parse HEAD, before: the service goes on without an answer, the  *)
(* script does not.                                                        *)
ReadBefore(w) ==
  /\ At(w, "before")
  /\ \/ /\ work' = [work EXCEPT ![w] = [@ EXCEPT !.pc = "fetch", !.before = CheckedOut]]
        /\ lastCommit' = IF w = Timer THEN lastCommit ELSE CheckedOut
     \/ /\ ~calm
        /\ IF w = Timer THEN Leave(w) ELSE Go(w, "fetch")
        /\ UNCHANGED lastCommit
  /\ UNCHANGED <<repo, deployed, running, lastResult, lastStable, calm, excused>>

Fetch(w) ==
  /\ At(w, "fetch")
  /\ \/ Go(w, "checkout") /\ UNCHANGED fields
     \/ Fail(w)
  /\ UNCHANGED <<repo, deployed, calm, excused>>

(* git checkout of the branch: HEAD may be detached after a rollback.      *)
Checkout(w) ==
  /\ At(w, "checkout")
  /\ \/ head' = Branch /\ Go(w, "pull") /\ UNCHANGED fields
     \/ head' \in {head, Branch} /\ Fail(w)
  /\ excused' = (excused \/ (w = Timer /\ head' # head))
  /\ UNCHANGED <<origin, tip, deployed, calm>>

(* git pull --ff-only: it moves what HEAD stands for, the branch or, when  *)
(* another worker has gone back to a commit meanwhile, HEAD itself.        *)
FastForward ==
  /\ tip'  = IF head = Branch THEN origin ELSE tip
  /\ head' = IF head = Branch THEN Branch ELSE origin

(* Deviation: what fetch has brought is not merged.                        *)
PullNothing(w) ==
  /\ At(w, "pull")
  /\ Go(w, "after")
  /\ UNCHANGED <<repo, deployed, fields, calm, excused>>

Pull(w) ==
  /\ At(w, "pull")
  /\ \/ FastForward /\ Go(w, "after") /\ UNCHANGED fields
     \/ (FastForward \/ UNCHANGED <<tip, head>>) /\ Fail(w)
  /\ excused' = (excused \/ (w = Timer /\ <<tip, head>>' # <<tip, head>>))
  /\ UNCHANGED <<origin, deployed, calm>>

(* git rev-parse HEAD, after: a call that gets no answer takes the commit  *)
(* it had before, the script stops.                                        *)
ReadAfter(w) ==
  /\ At(w, "after")
  /\ \/ \E commit \in IF calm \/ w = Timer THEN {CheckedOut}
                                           ELSE {CheckedOut, work[w].before} :
          /\ work' = [work EXCEPT ![w] = [@ EXCEPT !.pc = "compose",
                                               !.after = IF w = Timer THEN Unknown ELSE commit]]
          /\ lastCommit' = IF w = Timer THEN lastCommit ELSE commit
          /\ excused' = (excused \/ (w # Timer /\ commit # CheckedOut))
     \/ ~calm /\ w = Timer /\ Leave(w) /\ UNCHANGED <<lastCommit, excused>>
  /\ UNCHANGED <<repo, deployed, running, lastResult, lastStable, calm>>

(* rollbackOnFailure, after a failed compose or health check.              *)
RollBack(w) ==
  /\ MarkFailed(w)
  /\ IF RollbackOnFail /\ work[w].before # Unknown THEN Go(w, "backCheckout") ELSE Leave(w)

Compose(w) ==
  /\ At(w, "compose")
  /\ \/ ComposeUp /\ Go(w, "health") /\ UNCHANGED fields
     \/ ~calm /\ ComposeFails /\ RollBack(w)
  /\ excused' = (excused \/ (w = Timer /\ deployed' # deployed))
  /\ UNCHANGED <<repo, calm>>

Succeed(w) ==
  /\ Leave(w)
  /\ lastResult' = IF w = Timer THEN lastResult ELSE "success"
  /\ lastStable' = IF w = Timer THEN lastStable ELSE work[w].after
  /\ UNCHANGED <<running, lastCommit>>

HealthCheck(w) ==
  /\ At(w, "health")
  /\ Succeed(w) \/ (~calm /\ RollBack(w))
  /\ UNCHANGED <<repo, deployed, calm, excused>>

(* Deviation: the rollback starts the containers from what is there.       *)
BackWithoutCheckout(w) ==
  /\ At(w, "backCheckout")
  /\ Go(w, "backCompose")
  /\ UNCHANGED <<repo, deployed, fields, calm, excused>>

(* The commands of the rollback.  The service ignores that they fail; the  *)
(* script stops at a failed checkout.                                      *)
BackCheckout(w) ==
  /\ At(w, "backCheckout")
  /\ \/ /\ head' = work[w].before
        /\ Go(w, "backCompose")
        /\ excused' = (excused \/ (w = Timer /\ head' # head))
     \/ /\ ~calm
        /\ head' \in {head, work[w].before}
        /\ IF w = Timer THEN Leave(w) ELSE Go(w, "backCompose")
        /\ excused' = (excused \/ w # Timer \/ head' # head)
  /\ UNCHANGED <<origin, tip, deployed, fields, calm>>

BackCompose(w) ==
  /\ At(w, "backCompose")
  /\ \/ ComposeUp /\ excused' = (excused \/ (w = Timer /\ deployed' # deployed))
     \/ ~calm /\ ComposeFails /\ excused' = (excused \/ w # Timer \/ deployed' # deployed)
  /\ Go(w, "backHealth")
  /\ UNCHANGED <<repo, fields, calm>>

BackHealth(w) ==
  /\ At(w, "backHealth")
  /\ Leave(w)
  /\ Report(w, "rolled_back", work[w].before) \/ (~calm /\ UNCHANGED fields)
  /\ UNCHANGED <<repo, deployed, calm, excused>>

(* RollbackLastStable.                                                     *)
StableCheckout(w) ==
  /\ At(w, "stableCheckout")
  /\ \/ head' = work[w].before /\ Go(w, "stableCompose") /\ UNCHANGED fields
     \/ head' \in {head, work[w].before} /\ Fail(w)
  /\ UNCHANGED <<origin, tip, deployed, calm, excused>>

StableCompose(w) ==
  /\ At(w, "stableCompose")
  /\ \/ ComposeUp /\ Go(w, "stableHealth") /\ UNCHANGED fields
     \/ ComposeFails /\ Fail(w)
  /\ UNCHANGED <<repo, calm, excused>>

StableHealth(w) ==
  /\ At(w, "stableHealth")
  /\ (Report(w, "rolled_back", work[w].before) /\ Leave(w)) \/ Fail(w)
  /\ UNCHANGED <<repo, deployed, calm, excused>>

-----------------------------------------------------------------------------
Push ==
  /\ ~calm
  /\ origin < MaxCommits
  /\ origin' = origin + 1
  /\ UNCHANGED <<tip, head, deployed, fields, work, calm, excused>>

Calm == calm' = TRUE /\ UNCHANGED <<repo, deployed, fields, work, excused>>

(* The process ends and starts again: calls and fields are gone, the       *)
(* script goes on.                                                         *)
Restart ==
  /\ running' = FALSE
  /\ lastResult' = ""
  /\ lastCommit' = Unknown
  /\ lastStable' = Unknown
  /\ work' = [w \in Workers |-> IF w = Timer THEN work[w] ELSE Idle]
  /\ excused' = FALSE
  /\ UNCHANGED <<repo, deployed, calm>>

Init ==
  /\ origin = 1 /\ tip = 1 /\ head = Branch /\ deployed = 1
  /\ running = FALSE
  /\ lastResult = ""
  /\ lastCommit = Unknown
  /\ lastStable = Unknown
  /\ work = [w \in Workers |-> Idle]
  /\ calm = FALSE
  /\ excused = FALSE

Step(w) ==
  \/ ReadBefore(w) \/ Fetch(w) \/ Checkout(w) \/ Pull(w) \/ ReadAfter(w)
  \/ Compose(w) \/ HealthCheck(w)
  \/ BackCheckout(w) \/ BackCompose(w) \/ BackHealth(w)
  \/ StableCheckout(w) \/ StableCompose(w) \/ StableHealth(w)

Next ==
  \/ \E c \in Callers : SyncNow(c) \/ RollbackLastStable(c) \/ Finish(c)
  \/ StartTimer
  \/ \E w \in Workers : Step(w)
  \/ Push \/ Calm \/ Restart

(* Commands come to an end, and the timer keeps firing.                    *)
Fairness ==
  /\ WF_vars(StartTimer)
  /\ \A w \in Workers : WF_vars(Step(w))

Spec == Init /\ [][Next]_vars /\ Fairness
-----------------------------------------------------------------------------
(* Every variable has its type, and the switch `running' is a lock: it is  *)
(* on exactly while one call is inside (gitops/service.go:54-71, 118-139). *)
TypeOK ==
  /\ {origin, tip, deployed} \subseteq Commits
  /\ head \in Commits \cup {Branch}
  /\ {lastCommit, lastStable} \subseteq Commits \cup {Unknown}
  /\ lastResult \in Results
  /\ work \in [Workers -> Work]
  /\ {calm, excused, running} \subseteq BOOLEAN
  /\ running <=> \E c \in Callers : ~At(c, "idle")
  /\ \A c, d \in Callers : At(c, "idle") \/ At(d, "idle") \/ c = d

(* Between calls, a status of success or rolled_back names the commit      *)
(* compose was last run from, unless the script has changed anything since *)
(* that call began, or the call went past a failure it does not look at: a *)
(* rev-parse without an answer, a failed command of the rollback           *)
(* (gitops/service.go:92-95, 159-160).                                     *)
StatusNamesDeployed ==
  (~running /\ lastResult \in {"success", "rolled_back"} /\ ~excused)
    => deployed = lastCommit

(* Once commands succeed and nobody pushes, the newest commit comes to be  *)
(* the one compose was last run from, and stays it, whatever failed        *)
(* half-way before: a detached HEAD, a branch pulled but never brought up, *)
(* a rollback to the wrong commit (proxmaster-deploy.sh:21-56,             *)
(* proxmaster-gitops.timer).                                               *)
DeploysConverge == <>[]calm => <>[](deployed = origin)
=============================================================================
