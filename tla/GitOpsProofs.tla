----------------------------- MODULE GitOpsProofs -----------------------------
(***************************************************************************)
(* Theorems of GitOps, for any callers and any number of commits.  That    *)
(* calls exclude one another is inductive by itself.  What a status says   *)
(* rests on what the call that writes it knows at each of its commands,    *)
(* as long as the script has changed nothing and the call has gone past no *)
(* failure (Inside).                                                       *)
(***************************************************************************)
EXTENDS GitOps, TLAPS

Back == {"backCheckout", "backCompose", "backHealth"}
Stable == {"stableCheckout", "stableCompose", "stableHealth"}

(* A worker goes on to its next command, or to its answer.                 *)
Moved(w) == \E r \in Work : /\ w # Timer => r.pc # "idle"
                            /\ work' = [work EXCEPT ![w] = r]

LEMMA GoMoves ==
  ASSUME TypeOK, NEW w \in Workers, NEW pc \in Commands, Go(w, pc)
  PROVE  Moved(w)
<1> DEFINE r == [work[w] EXCEPT !.pc = pc]
<1>1. work[w] \in Work
  BY DEF TypeOK
<1>2. r \in Work /\ r.pc # "idle"
  BY <1>1 DEF Work, Commands
<1>3. work' = [work EXCEPT ![w] = r]
  BY DEF Go
<1> HIDE DEF r
<1> QED BY <1>2, <1>3 DEF Moved

LEMMA LeaveMoves ==
  ASSUME TypeOK, NEW w \in Workers, Leave(w)
  PROVE  Moved(w)
<1> DEFINE r == [Idle EXCEPT !.pc = IF w = Timer THEN @ ELSE "leave"]
<1>1. r \in Work /\ (w # Timer => r.pc # "idle")
  BY DEF Work, Idle
<1>2. work' = [work EXCEPT ![w] = r]
  BY DEF Leave
<1> HIDE DEF r
<1> QED BY <1>1, <1>2 DEF Moved

LEMMA CheckedOutTyped == TypeOK => CheckedOut \in Commits
BY DEF TypeOK, CheckedOut, Branch

LEMMA CallersAreNotTheTimer == \A c \in Callers : c # Timer /\ c \in Workers
BY GitOpsAssumption DEF Workers

(* A worker inside stays inside, and who is outside stays outside.         *)
LEMMA MovedTyped ==
  ASSUME TypeOK, NEW w \in Workers, w # Timer => ~At(w, "idle"), Moved(w),
         running' = running
  PROVE  /\ work' \in [Workers -> Work]
         /\ running' <=> \E c \in Callers : ~At(c, "idle")'
         /\ \A c, d \in Callers : At(c, "idle")' \/ At(d, "idle")' \/ c = d
<1>1. PICK r \in Work : (w # Timer => r.pc # "idle") /\ work' = [work EXCEPT ![w] = r]
  BY DEF Moved
<1>2. work' \in [Workers -> Work]
  BY <1>1 DEF TypeOK
<1>3. ASSUME NEW c \in Callers PROVE At(c, "idle")' <=> At(c, "idle")
  <2>1. c \in Workers /\ c # Timer
    BY CallersAreNotTheTimer
  <2>2. CASE c = w
    BY <1>1, <2>1, <2>2 DEF At, TypeOK
  <2>3. CASE c # w
    BY <1>1, <2>1, <2>3 DEF At, TypeOK
  <2> QED BY <2>2, <2>3
<1> QED BY <1>2, <1>3 DEF TypeOK

(* What a command changes beside the worker.                               *)
RestTyped ==
  /\ tip \in Commits /\ deployed \in Commits /\ head \in Commits \cup {Branch}
  /\ lastCommit \in Commits \cup {Unknown} /\ lastStable \in Commits \cup {Unknown}
  /\ lastResult \in Results
  /\ excused \in BOOLEAN

LEMMA CommandTyped ==
  ASSUME TypeOK, NEW w \in Workers, Step(w)
  PROVE  /\ RestTyped'
         /\ Moved(w)
         /\ w # Timer => ~At(w, "idle")
         /\ UNCHANGED <<origin, running, calm>>
<1> USE DEF RestTyped
<1>0. /\ CheckedOut \in Commits
      /\ origin \in Commits /\ tip \in Commits /\ deployed \in Commits
      /\ head \in Commits \cup {Branch}
      /\ lastCommit \in Commits \cup {Unknown} /\ lastStable \in Commits \cup {Unknown}
      /\ lastResult \in Results /\ {"failed", "success", "rolled_back"} \subseteq Results
      /\ excused \in BOOLEAN
      /\ work[w] \in Work
      /\ work[w].before \in Commits \cup {Unknown} /\ work[w].after \in Commits \cup {Unknown}
  BY CheckedOutTyped DEF TypeOK, Work, Results
<1>1. CASE ReadBefore(w)
  <2>1. Moved(w)
    <3> DEFINE r == [work[w] EXCEPT !.pc = "fetch", !.before = CheckedOut]
    <3>1. r \in Work /\ r.pc # "idle"
      BY <1>0 DEF Work, Commands
    <3>2. CASE work' = [work EXCEPT ![w] = r]
      <4> HIDE DEF r
      <4> QED BY <3>1, <3>2 DEF Moved
    <3>3. CASE Leave(w) \/ Go(w, "fetch")
      BY <3>3, GoMoves, LeaveMoves DEF Commands
    <3> QED BY <1>1, <3>2, <3>3 DEF ReadBefore
  <2>2. lastCommit' \in Commits \cup {Unknown}
    BY <1>0, <1>1 DEF ReadBefore
  <2> QED BY <1>0, <1>1, <2>1, <2>2 DEF ReadBefore, At, repo
<1>2. CASE Fetch(w)
  <2>1. Moved(w)
    BY <1>2, GoMoves, LeaveMoves DEF Fetch, Fail, Commands
  <2> QED BY <1>0, <1>2, <2>1 DEF Fetch, Fail, MarkFailed, Report, At, repo, fields
<1>3. CASE Checkout(w)
  <2>1. Moved(w)
    BY <1>3, GoMoves, LeaveMoves DEF Checkout, Fail, Commands
  <2>2. excused' \in BOOLEAN
    BY <1>3 DEF Checkout
  <2> QED BY <1>0, <1>3, <2>1, <2>2 DEF Checkout, Fail, MarkFailed, Report, At, repo, fields
<1>4. CASE Pull(w)
  <2>1. Moved(w)
    BY <1>4, GoMoves, LeaveMoves DEF Pull, Fail, Commands
  <2>2. excused' \in BOOLEAN
    BY <1>4 DEF Pull
  <2> QED BY <1>0, <1>4, <2>1, <2>2 DEF Pull, FastForward, Fail, MarkFailed, Report, At, repo, fields
<1>5. CASE ReadAfter(w)
  <2>1. /\ Moved(w)
        /\ lastCommit' \in Commits \cup {Unknown}
        /\ excused' \in BOOLEAN
    <3>1. CASE Leave(w) /\ UNCHANGED <<lastCommit, excused>>
      BY <1>0, <3>1, LeaveMoves
    <3>2. CASE ~(Leave(w) /\ UNCHANGED <<lastCommit, excused>>)
      <4>1. PICK commit \in {CheckedOut, work[w].before} :
              /\ work' = [work EXCEPT ![w] = [@ EXCEPT !.pc = "compose",
                                                   !.after = IF w = Timer THEN Unknown ELSE commit]]
              /\ lastCommit' = IF w = Timer THEN lastCommit ELSE commit
              /\ excused' = (excused \/ (w # Timer /\ commit # CheckedOut))
        BY <1>5, <3>2 DEF ReadAfter
      <4> DEFINE r == [work[w] EXCEPT !.pc = "compose",
                                      !.after = IF w = Timer THEN Unknown ELSE commit]
      <4>2. r \in Work /\ r.pc # "idle"
        BY <1>0 DEF Work, Commands
      <4>3. work' = [work EXCEPT ![w] = r]
        BY <4>1
      <4>4. lastCommit' \in Commits \cup {Unknown}
        BY <1>0, <4>1
      <4>5. excused' \in BOOLEAN
        BY <4>1
      <4> HIDE DEF r
      <4> QED BY <4>2, <4>3, <4>4, <4>5 DEF Moved
    <3> QED BY <3>1, <3>2
  <2>2. UNCHANGED <<repo, deployed, running, lastResult, lastStable, calm>> /\ ~At(w, "idle")
    BY <1>5 DEF ReadAfter, At
  <2> QED BY <1>0, <2>1, <2>2 DEF repo
<1>6. CASE Compose(w)
  <2>1. Moved(w)
    BY <1>6, GoMoves, LeaveMoves DEF Compose, RollBack, Commands
  <2>2. excused' \in BOOLEAN
    BY <1>6 DEF Compose
  <2> QED BY <1>0, <1>6, <2>1, <2>2
        DEF Compose, ComposeUp, ComposeFails, RollBack, MarkFailed, Report, At, repo, fields
<1>7. CASE HealthCheck(w)
  <2>1. Moved(w)
    BY <1>7, GoMoves, LeaveMoves DEF HealthCheck, Succeed, RollBack, Commands
  <2> QED BY <1>0, <1>7, <2>1 DEF HealthCheck, Succeed, RollBack, MarkFailed, Report, At, repo
<1>8. CASE BackCheckout(w)
  <2>1. Moved(w)
    BY <1>8, GoMoves, LeaveMoves DEF BackCheckout, Commands
  <2>2. excused' \in BOOLEAN
    BY <1>8 DEF BackCheckout
  <2>3. head' \in Commits \cup {Branch}
    BY <1>0, <1>8 DEF BackCheckout, Unknown, Branch
  <2> QED BY <1>0, <1>8, <2>1, <2>2, <2>3 DEF BackCheckout, At, fields
<1>9. CASE BackCompose(w)
  <2>1. Moved(w)
    BY <1>9, GoMoves DEF BackCompose, Commands
  <2>2. excused' \in BOOLEAN
    BY <1>9 DEF BackCompose
  <2> QED BY <1>0, <1>9, <2>1, <2>2 DEF BackCompose, ComposeUp, ComposeFails, At, repo, fields
<1>10. CASE BackHealth(w)
  <2>1. Moved(w)
    BY <1>10, LeaveMoves DEF BackHealth
  <2> QED BY <1>0, <1>10, <2>1 DEF BackHealth, Report, At, repo, fields
<1>11. CASE StableCheckout(w)
  <2>1. Moved(w)
    BY <1>11, GoMoves, LeaveMoves DEF StableCheckout, Fail, Commands
  <2>2. head' \in Commits \cup {Branch}
    BY <1>0, <1>11 DEF StableCheckout, Unknown, Branch
  <2> QED BY <1>0, <1>11, <2>1, <2>2 DEF StableCheckout, Fail, MarkFailed, Report, At, fields
<1>12. CASE StableCompose(w)
  <2>1. Moved(w)
    BY <1>12, GoMoves, LeaveMoves DEF StableCompose, Fail, Commands
  <2> QED BY <1>0, <1>12, <2>1
        DEF StableCompose, ComposeUp, ComposeFails, Fail, MarkFailed, Report, At, repo, fields
<1>13. CASE StableHealth(w)
  <2>1. Moved(w)
    BY <1>13, LeaveMoves DEF StableHealth, Fail
  <2> QED BY <1>0, <1>13, <2>1 DEF StableHealth, Fail, MarkFailed, Report, At, repo
<1> QED BY <1>1, <1>2, <1>3, <1>4, <1>5, <1>6, <1>7, <1>8, <1>9, <1>10, <1>11, <1>12, <1>13
      DEF Step

LEMMA EnterTyped ==
  ASSUME TypeOK, NEW c \in Callers, NEW pc \in Commands, NEW before \in Commits \cup {Unknown},
         ~running, Enter(c, pc, before)
  PROVE  TypeOK'
<1> DEFINE r == [Idle EXCEPT !.pc = pc, !.before = before]
<1>1. r \in Work /\ r.pc # "idle"
  BY DEF Idle, Work, Commands
<1>2. work' = [work EXCEPT ![c] = r]
  BY DEF Enter
<1> HIDE DEF r
<1>3. \A d \in Callers : d \in Workers /\ At(d, "idle")
  BY CallersAreNotTheTimer DEF TypeOK
<1>4. work' \in [Workers -> Work]
  BY <1>1, <1>2 DEF TypeOK
<1>5. ~At(c, "idle")' /\ \A d \in Callers : d # c => At(d, "idle")'
  BY <1>1, <1>2, <1>3 DEF At, TypeOK
<1>6. running' = TRUE /\ excused' = FALSE /\ calm' = calm
      /\ UNCHANGED <<origin, tip, head, deployed, lastResult, lastCommit, lastStable>>
  BY DEF Enter, repo
<1>7. /\ running' <=> \E d \in Callers : ~At(d, "idle")'
      /\ \A d, e \in Callers : At(d, "idle")' \/ At(e, "idle")' \/ d = e
  BY <1>5, <1>6
<1>8. {calm, excused, running}' \subseteq BOOLEAN
  BY <1>6 DEF TypeOK
<1> QED BY <1>4, <1>6, <1>7, <1>8 DEF TypeOK

(* Every variable keeps its type, and `running' stays a lock: it is on     *)
(* exactly while one call is inside (gitops/service.go:54-71, 118-139).    *)
THEOREM TypeCorrect == Spec => []TypeOK
<1>1. Init => TypeOK
  <2> SUFFICES ASSUME Init PROVE TypeOK
    OBVIOUS
  <2>1. Idle \in Work /\ Idle.pc = "idle"
    BY DEF Idle, Work
  <2>2. work \in [Workers -> Work] /\ \A c \in Callers : At(c, "idle")
    BY <2>1, CallersAreNotTheTimer DEF Init, At
  <2>3. 1 \in Commits
    BY GitOpsAssumption DEF Commits
  <2> QED BY <2>2, <2>3 DEF Init, TypeOK, Results
<1>2. TypeOK /\ [Next]_vars => TypeOK'
  <2> SUFFICES ASSUME TypeOK, [Next]_vars PROVE TypeOK'
    OBVIOUS
  <2>1. ASSUME NEW c \in Callers, SyncNow(c) PROVE TypeOK'
    BY <2>1, EnterTyped DEF SyncNow, Commands
  <2>2. ASSUME NEW c \in Callers, RollbackLastStable(c) PROVE TypeOK'
    <3>1. lastStable \in Commits \cup {Unknown}
      BY DEF TypeOK
    <3> QED BY <2>2, <3>1, EnterTyped DEF RollbackLastStable, Commands
  <2>3. ASSUME NEW c \in Callers, Finish(c) PROVE TypeOK'
    <3> DEFINE r == [work[c] EXCEPT !.pc = "idle"]
    <3>1. c \in Workers /\ work[c] \in Work
      BY CallersAreNotTheTimer DEF TypeOK
    <3>2. r \in Work /\ r.pc = "idle"
      BY <3>1 DEF Work
    <3>3. work' = [work EXCEPT ![c] = r]
      BY <2>3 DEF Finish, Go
    <3> HIDE DEF r
    <3>4. work' \in [Workers -> Work]
      BY <3>2, <3>3 DEF TypeOK
    <3>5. \A d \in Callers : d # c => At(d, "idle")
      BY <2>3 DEF Finish, At, TypeOK
    <3>6. \A d \in Callers : At(d, "idle")'
      BY <3>1, <3>2, <3>3, <3>5, CallersAreNotTheTimer DEF At, TypeOK
    <3>7. running' = FALSE /\ excused' = excused /\ calm' = calm
          /\ UNCHANGED <<origin, tip, head, deployed, lastResult, lastCommit, lastStable>>
      BY <2>3 DEF Finish, repo
    <3>8. {calm, excused, running}' \subseteq BOOLEAN
      BY <3>7 DEF TypeOK
    <3> QED BY <3>4, <3>6, <3>7, <3>8 DEF TypeOK
  <2>4. CASE StartTimer
    <3>1. Timer \in Workers
      BY DEF Workers
    <3>2. Moved(Timer) /\ running' = running
      BY <2>4, <3>1, GoMoves DEF StartTimer, Commands, fields
    <3>3. /\ work' \in [Workers -> Work]
          /\ running' <=> \E c \in Callers : ~At(c, "idle")'
          /\ \A c, d \in Callers : At(c, "idle")' \/ At(d, "idle")' \/ c = d
      BY <3>1, <3>2, MovedTyped
    <3>4. UNCHANGED <<repo, deployed, fields, calm, excused>>
      BY <2>4 DEF StartTimer
    <3> QED BY <3>3, <3>4 DEF TypeOK, repo, fields
  <2>5. ASSUME NEW w \in Workers, Step(w) PROVE TypeOK'
    <3>1. /\ RestTyped' /\ Moved(w) /\ (w # Timer => ~At(w, "idle"))
          /\ UNCHANGED <<origin, running, calm>>
      BY <2>5, CommandTyped
    <3>2. /\ work' \in [Workers -> Work]
          /\ running' <=> \E c \in Callers : ~At(c, "idle")'
          /\ \A c, d \in Callers : At(c, "idle")' \/ At(d, "idle")' \/ c = d
      BY <3>1, MovedTyped
    <3>3. {calm, excused, running}' \subseteq BOOLEAN
      BY <3>1 DEF TypeOK, RestTyped
    <3> QED BY <3>1, <3>2, <3>3 DEF TypeOK, RestTyped
  <2>6. CASE Push
    <3>1. origin' \in Commits
      BY <2>6, GitOpsAssumption DEF Push, TypeOK, Commits
    <3>2. UNCHANGED <<tip, head, deployed, fields, work, calm, excused>>
      BY <2>6 DEF Push
    <3> QED BY <3>1, <3>2 DEF TypeOK, fields, At
  <2>7. CASE Calm
    <3>1. {calm, excused, running}' \subseteq BOOLEAN
      BY <2>7 DEF Calm, TypeOK, fields
    <3> QED BY <2>7, <3>1 DEF Calm, TypeOK, repo, fields, At
  <2>8. CASE Restart
    <3>1. Idle \in Work /\ Idle.pc = "idle"
      BY DEF Idle, Work
    <3>2. work' \in [Workers -> Work]
      BY <2>8, <3>1 DEF Restart, TypeOK
    <3>3. \A c \in Callers : At(c, "idle")'
      BY <2>8, <3>1, CallersAreNotTheTimer DEF Restart, At
    <3>4. {calm, excused, running}' \subseteq BOOLEAN /\ running' = FALSE
      BY <2>8 DEF Restart, TypeOK
    <3> QED BY <2>8, <3>2, <3>3, <3>4 DEF Restart, TypeOK, repo, Results
  <2>9. CASE UNCHANGED vars
    BY <2>9 DEF vars, TypeOK, At
  <2> QED BY <2>1, <2>2, <2>3, <2>4, <2>5, <2>6, <2>7, <2>8, <2>9 DEF Next
<1> QED BY <1>1, <1>2, PTL DEF Spec

-----------------------------------------------------------------------------
(* What a call that is inside knows, unless `excused': the commit that is  *)
(* checked out before compose, the commit that is deployed after it.       *)
Told == lastResult \in {"success", "rolled_back"} => deployed = lastCommit

Knows(c) ==
  /\ At(c, "compose") => CheckedOut = work[c].after /\ lastCommit = work[c].after
  /\ At(c, "health") => deployed = work[c].after /\ lastCommit = work[c].after
  /\ work[c].pc \in {"backCompose", "stableCompose"} => CheckedOut = work[c].before
  /\ work[c].pc \in {"backHealth", "stableHealth"} => deployed = work[c].before
  /\ At(c, "leave") => Told

Going(c) ==
  /\ work[c].pc \in Back \cup Stable => work[c].before # Unknown
  /\ work[c].pc \in Back => lastResult = "failed"

Inside ==
  /\ work[Timer].pc \notin Stable
  /\ \A c \in Callers : Going(c)
  /\ ~excused => \A c \in Callers : Knows(c)

(* The script goes through none of the commands of RollbackLastStable.     *)
LEMMA TimerIsNotStable ==
  ASSUME TypeOK, Inside, Step(Timer)
  PROVE  work'[Timer].pc \notin Stable
<1>1. Timer \in Workers /\ work[Timer] \in Work
  BY DEF Workers, TypeOK
<1>2. ASSUME NEW pc \in Commands \ Stable, Go(Timer, pc)
      PROVE  work'[Timer].pc \notin Stable
  BY <1>1, <1>2 DEF Go, TypeOK, Work
<1>3. ASSUME Leave(Timer) PROVE work'[Timer].pc \notin Stable
  BY <1>1, <1>3 DEF Leave, TypeOK, Idle, Stable
<1>4. ASSUME NEW b \in Commits \cup {Unknown},
             work' = [work EXCEPT ![Timer] = [@ EXCEPT !.pc = "fetch", !.before = b]]
      PROVE  work'[Timer].pc \notin Stable
  BY <1>1, <1>4 DEF TypeOK, Work, Stable
<1>5. ASSUME NEW a \in Commits \cup {Unknown},
             work' = [work EXCEPT ![Timer] = [@ EXCEPT !.pc = "compose", !.after = a]]
      PROVE  work'[Timer].pc \notin Stable
  BY <1>1, <1>5 DEF TypeOK, Work, Stable
<1>6. {"fetch", "checkout", "pull", "after", "compose", "health",
       "backCheckout", "backCompose", "backHealth"} \subseteq Commands \ Stable
  BY DEF Commands, Stable
<1>7. ~(StableCheckout(Timer) \/ StableCompose(Timer) \/ StableHealth(Timer))
  BY DEF Inside, StableCheckout, StableCompose, StableHealth, At, Stable
<1>8. CASE ReadBefore(Timer)
  BY <1>2, <1>3, <1>4, <1>6, <1>8, CheckedOutTyped DEF ReadBefore
<1>9. CASE Fetch(Timer) \/ Checkout(Timer) \/ Pull(Timer)
  BY <1>2, <1>3, <1>6, <1>9 DEF Fetch, Checkout, Pull, Fail
<1>10. CASE ReadAfter(Timer)
  <2>1. CASE Leave(Timer)
    BY <1>3, <2>1
  <2>2. CASE ~Leave(Timer)
    <3>1. work' = [work EXCEPT ![Timer] = [@ EXCEPT !.pc = "compose", !.after = Unknown]]
      BY <1>10, <2>2 DEF ReadAfter
    <3> QED BY <1>5, <3>1
  <2> QED BY <2>1, <2>2
<1>11. CASE Compose(Timer) \/ HealthCheck(Timer)
  BY <1>2, <1>3, <1>6, <1>11 DEF Compose, HealthCheck, RollBack, Succeed
<1>12. CASE BackCheckout(Timer) \/ BackCompose(Timer) \/ BackHealth(Timer)
  BY <1>2, <1>3, <1>6, <1>12 DEF BackCheckout, BackCompose, BackHealth
<1> QED BY <1>7, <1>8, <1>9, <1>10, <1>11, <1>12 DEF Step

(* The script leaves the service's fields alone, and what it changes of    *)
(* the checkout or the containers excuses the service.                     *)
LEMMA TimerExcuses ==
  ASSUME TypeOK, Inside, Step(Timer)
  PROVE  /\ UNCHANGED fields
         /\ \A c \in Callers : work'[c] = work[c]
         /\ ~excused' => ~excused /\ UNCHANGED <<tip, head, deployed>>
<1>1. UNCHANGED fields
  BY DEF Step, Inside, Stable, At, fields, ReadBefore, Fetch, Checkout, Pull, ReadAfter, Compose,
         HealthCheck, BackCheckout, BackCompose, BackHealth, StableCheckout, StableCompose,
         StableHealth, Fail, MarkFailed, Report, RollBack, Succeed
<1>2. \A c \in Callers : work'[c] = work[c]
  <2>1. Moved(Timer)
    BY CommandTyped DEF Workers
  <2> QED BY <2>1, CallersAreNotTheTimer DEF Moved, TypeOK
<1>3. ~excused' => ~excused /\ UNCHANGED <<tip, head, deployed>>
  <2> USE DEF Step, Inside, Stable, At, repo
  <2>1. CASE ReadBefore(Timer) \/ Fetch(Timer)
    BY <2>1 DEF ReadBefore, Fetch
  <2>2. CASE Checkout(Timer)
    BY <2>2 DEF Checkout
  <2>3. CASE Pull(Timer)
    BY <2>3 DEF Pull
  <2>4. CASE ReadAfter(Timer)
    BY <2>4 DEF ReadAfter
  <2>5. CASE Compose(Timer)
    BY <2>5 DEF Compose
  <2>6. CASE HealthCheck(Timer) \/ BackHealth(Timer)
    BY <2>6 DEF HealthCheck, BackHealth
  <2>7. CASE BackCheckout(Timer)
    BY <2>7 DEF BackCheckout
  <2>8. CASE BackCompose(Timer)
    BY <2>8 DEF BackCompose
  <2>9. CASE StableCheckout(Timer) \/ StableCompose(Timer) \/ StableHealth(Timer)
    BY <2>9 DEF StableCheckout, StableCompose, StableHealth
  <2> QED BY <2>1, <2>2, <2>3, <2>4, <2>5, <2>6, <2>7, <2>8, <2>9
<1> QED BY <1>1, <1>2, <1>3

(* A call that goes on, leaves, or fails.                                  *)
LEMMA CallGoes ==
  ASSUME TypeOK, NEW c \in Callers, NEW pc \in Commands, Go(c, pc)
  PROVE  work'[c] = [work[c] EXCEPT !.pc = pc] /\ work'[c].pc = pc
         /\ work'[c].before = work[c].before /\ work'[c].after = work[c].after
BY CallersAreNotTheTimer DEF Go, TypeOK, Work

LEMMA CallLeaves ==
  ASSUME TypeOK, NEW c \in Callers, Leave(c)
  PROVE  work'[c].pc = "leave"
BY CallersAreNotTheTimer DEF Leave, TypeOK, Idle

LEMMA CallFails ==
  ASSUME TypeOK, NEW c \in Callers, Fail(c)
  PROVE  Going(c)' /\ Knows(c)'
<1>1. work'[c].pc = "leave"
  BY CallLeaves DEF Fail
<1>2. lastResult' = "failed"
  BY CallersAreNotTheTimer DEF Fail, MarkFailed, Report
<1> QED BY <1>1, <1>2 DEF Going, Knows, At, Told, Back, Stable

LEMMA CallRollsBack ==
  ASSUME TypeOK, NEW c \in Callers, RollBack(c)
  PROVE  Going(c)' /\ Knows(c)'
<1>1. lastResult' = "failed"
  BY CallersAreNotTheTimer DEF RollBack, MarkFailed, Report
<1>2. CASE Leave(c)
  BY <1>1, <1>2, CallLeaves DEF Going, Knows, At, Told, Back, Stable
<1>3. CASE work[c].before # Unknown /\ Go(c, "backCheckout")
  BY <1>1, <1>3, CallGoes DEF Going, Knows, At, Back, Stable, Commands
<1> QED BY <1>2, <1>3 DEF RollBack

(* A command that neither is nor leads to one after which the call knows   *)
(* something.                                                              *)
LEMMA EarlyKnows ==
  ASSUME NEW c \in Callers, work'[c].pc \in {"before", "fetch", "checkout", "pull", "after"}
  PROVE  Going(c)' /\ Knows(c)'
BY DEF Going, Knows, At, Back, Stable

LEMMA CallKnows ==
  ASSUME TypeOK, Inside, NEW c \in Callers, Step(c)
  PROVE  /\ Going(c)'
         /\ ~excused' => ~excused /\ Knows(c)'
<1>0. c \in Workers /\ c # Timer /\ work[c] \in Work /\ Going(c) /\ (~excused => Knows(c))
  BY CallersAreNotTheTimer DEF Inside, TypeOK
<1>1. CASE ReadBefore(c)
  <2>1. work'[c].pc = "fetch"
    <3>1. CASE Go(c, "fetch")
      BY <3>1, CallGoes DEF Commands
    <3>2. CASE ~Go(c, "fetch")
      <4>1. work' = [work EXCEPT ![c] = [@ EXCEPT !.pc = "fetch", !.before = CheckedOut]]
        BY <1>0, <1>1, <3>2 DEF ReadBefore
      <4> QED BY <1>0, <4>1 DEF TypeOK, Work
    <3> QED BY <3>1, <3>2
  <2> QED BY <1>1, <2>1, EarlyKnows DEF ReadBefore
<1>2. CASE Fetch(c)
  BY <1>2, CallGoes, CallFails, EarlyKnows DEF Fetch, Commands
<1>3. CASE Checkout(c)
  <2>1. ~excused' => ~excused
    BY <1>3 DEF Checkout
  <2> QED BY <1>3, <2>1, CallGoes, CallFails, EarlyKnows DEF Checkout, Commands
<1>4. CASE Pull(c)
  <2>1. ~excused' => ~excused
    BY <1>4 DEF Pull
  <2> QED BY <1>4, <2>1, CallGoes, CallFails, EarlyKnows DEF Pull, Commands
<1>5. CASE ReadAfter(c)
  <2>1. PICK commit \in {CheckedOut, work[c].before} :
          /\ work' = [work EXCEPT ![c] = [@ EXCEPT !.pc = "compose", !.after = commit]]
          /\ lastCommit' = commit
          /\ excused' = (excused \/ commit # CheckedOut)
    BY <1>0, <1>5 DEF ReadAfter
  <2>2. work'[c].pc = "compose" /\ work'[c].after = commit
    BY <1>0, <2>1 DEF TypeOK, Work
  <2>3. CheckedOut' = CheckedOut
    BY <1>5 DEF ReadAfter, repo, CheckedOut
  <2>4. ~excused' => ~excused /\ commit = CheckedOut
    BY <2>1
  <2>5. ~excused' => Knows(c)'
    BY <2>1, <2>2, <2>3, <2>4 DEF Knows, At
  <2>6. Going(c)'
    BY <2>2 DEF Going, Back, Stable
  <2> QED BY <2>4, <2>5, <2>6
<1>6. CASE Compose(c)
  <2>1. ~excused' => ~excused
    BY <1>6 DEF Compose
  <2>2. CASE RollBack(c)
    BY <2>1, <2>2, CallRollsBack
  <2>3. CASE ComposeUp /\ Go(c, "health") /\ UNCHANGED fields
    <3>1. work'[c].pc = "health" /\ work'[c].after = work[c].after
      BY <2>3, CallGoes DEF Commands
    <3>2. At(c, "compose") /\ deployed' = CheckedOut /\ lastCommit' = lastCommit
      BY <1>6, <2>3 DEF Compose, ComposeUp, fields
    <3>3. ~excused' => Knows(c)'
      BY <1>0, <2>1, <3>1, <3>2 DEF Knows, At
    <3> QED BY <2>1, <3>1, <3>3 DEF Going, Back, Stable
  <2> QED BY <1>6, <2>2, <2>3 DEF Compose
<1>7. CASE HealthCheck(c)
  <2>1. excused' = excused /\ deployed' = deployed
    BY <1>7 DEF HealthCheck
  <2>2. CASE RollBack(c)
    BY <2>1, <2>2, CallRollsBack
  <2>3. CASE Succeed(c)
    <3>1. work'[c].pc = "leave" /\ lastCommit' = lastCommit
      BY <2>3, CallLeaves DEF Succeed
    <3>2. ~excused => deployed = lastCommit
      BY <1>0, <1>7 DEF HealthCheck, Knows
    <3> QED BY <2>1, <3>1, <3>2 DEF Going, Knows, At, Told, Back, Stable
  <2> QED BY <1>7, <2>2, <2>3 DEF HealthCheck
<1>8. CASE BackCheckout(c)
  <2>1. work'[c].pc = "backCompose" /\ work'[c].before = work[c].before
    BY <1>0, <1>8, CallGoes DEF BackCheckout, Commands
  <2>2. ~excused' => ~excused /\ head' = work[c].before
    BY <1>0, <1>8 DEF BackCheckout
  <2>3. At(c, "backCheckout") /\ lastResult' = lastResult
    BY <1>8 DEF BackCheckout, fields
  <2>4. work[c].before # Unknown /\ lastResult = "failed"
    BY <1>0, <2>3 DEF Going, At, Back
  <2>5. ~excused' => CheckedOut' = work'[c].before
    BY <2>1, <2>2, <2>4 DEF CheckedOut, Branch, Unknown
  <2> QED BY <2>1, <2>2, <2>3, <2>4, <2>5 DEF Going, Knows, At, Back, Stable
<1>9. CASE BackCompose(c)
  <2>1. work'[c].pc = "backHealth" /\ work'[c].before = work[c].before
    BY <1>9, CallGoes DEF BackCompose, Commands
  <2>2. ~excused' => ~excused /\ deployed' = CheckedOut
    BY <1>0, <1>9 DEF BackCompose, ComposeUp
  <2>3. At(c, "backCompose") /\ lastResult' = lastResult
    BY <1>9 DEF BackCompose, fields
  <2>4. work[c].before # Unknown /\ lastResult = "failed"
        /\ (~excused => CheckedOut = work[c].before)
    BY <1>0, <2>3 DEF Going, Knows, At, Back
  <2> QED BY <2>1, <2>2, <2>3, <2>4 DEF Going, Knows, At, Back, Stable
<1>10. CASE BackHealth(c)
  <2>1. work'[c].pc = "leave" /\ excused' = excused /\ deployed' = deployed
    BY <1>10, CallLeaves DEF BackHealth
  <2>2. /\ lastResult = "failed"
        /\ ~excused => deployed = work[c].before
    BY <1>0, <1>10 DEF BackHealth, Going, Knows, At, Back
  <2>3. lastResult' = "failed" \/ lastCommit' = work[c].before
    BY <1>0, <1>10, <2>2 DEF BackHealth, Report, fields
  <2> QED BY <2>1, <2>2, <2>3 DEF Going, Knows, At, Told, Back, Stable
<1>11. CASE StableCheckout(c)
  <2>1. excused' = excused
    BY <1>11 DEF StableCheckout
  <2>2. CASE Fail(c)
    BY <2>1, <2>2, CallFails
  <2>3. CASE head' = work[c].before /\ Go(c, "stableCompose")
    <3>1. work'[c].pc = "stableCompose" /\ work'[c].before = work[c].before
      BY <2>3, CallGoes DEF Commands
    <3>2. work[c].before # Unknown
      BY <1>0, <1>11 DEF StableCheckout, Going, At, Stable
    <3>3. CheckedOut' = work'[c].before
      BY <2>3, <3>1, <3>2 DEF CheckedOut, Branch, Unknown
    <3> QED BY <2>1, <3>1, <3>2, <3>3 DEF Going, Knows, At, Back
  <2> QED BY <1>11, <2>2, <2>3 DEF StableCheckout
<1>12. CASE StableCompose(c)
  <2>1. excused' = excused
    BY <1>12 DEF StableCompose
  <2>2. CASE Fail(c)
    BY <2>1, <2>2, CallFails
  <2>3. CASE ComposeUp /\ Go(c, "stableHealth")
    <3>1. work'[c].pc = "stableHealth" /\ work'[c].before = work[c].before
      BY <2>3, CallGoes DEF Commands
    <3>2. work[c].before # Unknown /\ (~excused => CheckedOut = work[c].before)
      BY <1>0, <1>12 DEF StableCompose, Going, Knows, At, Stable
    <3> QED BY <2>1, <2>3, <3>1, <3>2 DEF ComposeUp, Going, Knows, At, Back
  <2> QED BY <1>12, <2>2, <2>3 DEF StableCompose
<1>13. CASE StableHealth(c)
  <2>1. excused' = excused /\ deployed' = deployed
    BY <1>13 DEF StableHealth
  <2>2. CASE Fail(c)
    BY <2>1, <2>2, CallFails
  <2>3. CASE Report(c, "rolled_back", work[c].before) /\ Leave(c)
    <3>1. work'[c].pc = "leave" /\ lastCommit' = work[c].before
      BY <1>0, <2>3, CallLeaves DEF Report
    <3>2. ~excused => deployed = work[c].before
      BY <1>0, <1>13 DEF StableHealth, Knows, At
    <3> QED BY <2>1, <3>1, <3>2 DEF Going, Knows, At, Told, Back, Stable
  <2> QED BY <1>13, <2>2, <2>3 DEF StableHealth
<1> QED BY <1>1, <1>2, <1>3, <1>4, <1>5, <1>6, <1>7, <1>8, <1>9, <1>10, <1>11, <1>12, <1>13
      DEF Step

(* A caller outside knows nothing, and need not.                           *)
LEMMA OutsideKnows == \A c \in Callers : At(c, "idle") => Going(c) /\ Knows(c)
BY DEF Going, Knows, At, Back, Stable

(* Between calls a status that claims success names the commit compose was *)
(* last run from, as long as the script has changed nothing since that     *)
(* call began, and the call went past no failure (gitops/service.go:92-95, *)
(* 159-160).                                                               *)
THEOREM StatusIsTrue == Spec => []StatusNamesDeployed
<1>1. Init => Inside /\ StatusNamesDeployed
  <2> SUFFICES ASSUME Init PROVE Inside /\ StatusNamesDeployed
    OBVIOUS
  <2>1. \A w \in Workers : work[w].pc = "idle"
    BY DEF Init, Idle
  <2>2. Timer \in Workers
    BY DEF Workers
  <2> QED BY <2>1, <2>2, CallersAreNotTheTimer, OutsideKnows
        DEF Init, Inside, StatusNamesDeployed, At, Stable
<1>2. TypeOK /\ TypeOK' /\ Inside /\ StatusNamesDeployed /\ [Next]_vars
        => Inside' /\ StatusNamesDeployed'
  <2> SUFFICES ASSUME TypeOK, TypeOK', Inside, StatusNamesDeployed, [Next]_vars
               PROVE  Inside' /\ StatusNamesDeployed'
    OBVIOUS
  <2>0. Timer \in Workers /\ \A c \in Callers : c \in Workers /\ c # Timer
    BY CallersAreNotTheTimer DEF Workers
  <2>1. ASSUME NEW c \in Callers, NEW pc \in {"before", "stableCheckout"},
               NEW before \in Commits \cup {Unknown},
               pc = "stableCheckout" => before # Unknown,
               ~running, Enter(c, pc, before)
        PROVE  Inside' /\ StatusNamesDeployed'
    <3>1. work' = [work EXCEPT ![c] = [Idle EXCEPT !.pc = pc, !.before = before]]
      BY <2>1 DEF Enter
    <3>2. work'[c].pc = pc /\ work'[c].before = before
      BY <2>0, <3>1 DEF TypeOK, Idle
    <3>3. \A d \in Callers : d # c => At(d, "idle")'
      BY <2>0, <2>1, <3>1 DEF TypeOK, At
    <3>4. Going(c)' /\ Knows(c)'
      BY <2>1, <3>2 DEF Going, Knows, At, Back, Stable
    <3>5. \A d \in Callers : Going(d)' /\ Knows(d)'
      BY <3>3, <3>4 DEF Going, Knows, At, Back, Stable
    <3>6. work'[Timer] = work[Timer]
      BY <2>0, <3>1 DEF TypeOK
    <3>7. running' = TRUE
      BY <2>1 DEF Enter
    <3> QED BY <3>5, <3>6, <3>7 DEF Inside, StatusNamesDeployed
  <2>2. ASSUME NEW c \in Callers, SyncNow(c) PROVE Inside' /\ StatusNamesDeployed'
    BY <2>1, <2>2 DEF SyncNow
  <2>3. ASSUME NEW c \in Callers, RollbackLastStable(c) PROVE Inside' /\ StatusNamesDeployed'
    <3>1. lastStable \in Commits \cup {Unknown}
      BY DEF TypeOK
    <3> QED BY <2>1, <2>3, <3>1 DEF RollbackLastStable
  <2>4. ASSUME NEW c \in Callers, Finish(c) PROVE Inside' /\ StatusNamesDeployed'
    <3>1. running' = FALSE /\ UNCHANGED <<deployed, lastResult, lastCommit, excused>>
      BY <2>4 DEF Finish
    <3>2. \A d \in Callers : At(d, "idle")'
      BY <3>1 DEF TypeOK
    <3>3. \A d \in Callers : Going(d)' /\ Knows(d)'
      BY <3>2 DEF Going, Knows, At, Back, Stable
    <3>4. ~excused => Told
      BY <2>4 DEF Finish, Inside, Knows
    <3>5. work'[Timer] = work[Timer]
      BY <2>0, <2>4 DEF Finish, Go, TypeOK
    <3> QED BY <3>1, <3>3, <3>4, <3>5 DEF Inside, StatusNamesDeployed, Told
  <2>5. ASSUME NEW c \in Callers, Step(c) PROVE Inside' /\ StatusNamesDeployed'
    <3>1. /\ Going(c)'
          /\ ~excused' => ~excused /\ Knows(c)'
      BY <2>5, CallKnows
    <3>2. Moved(c) /\ ~At(c, "idle") /\ running' = running
      BY <2>0, <2>5, CommandTyped
    <3>3. running
      BY <3>2 DEF TypeOK
    <3>4. \A d \in Callers : d # c => work'[d] = work[d] /\ At(d, "idle")
      BY <2>0, <3>2 DEF Moved, TypeOK
    <3>5. \A d \in Callers : d # c => Going(d)' /\ Knows(d)'
      BY <3>4 DEF Going, Knows, At, Back, Stable
    <3>6. work'[Timer] = work[Timer]
      BY <2>0, <3>2 DEF Moved, TypeOK
    <3> QED BY <3>1, <3>2, <3>3, <3>5, <3>6 DEF Inside, StatusNamesDeployed
  <2>6. ASSUME \A c \in Callers : work'[c] = work[c],
               UNCHANGED fields, work'[Timer].pc \notin Stable,
               ~excused' => ~excused /\ UNCHANGED <<tip, head, deployed>>
        PROVE  Inside' /\ StatusNamesDeployed'
    <3>1. \A c \in Callers : Going(c)'
      BY <2>6 DEF Inside, Going, fields
    <3>2. ASSUME ~excused' PROVE \A c \in Callers : Knows(c)'
      <4>1. CheckedOut' = CheckedOut
        BY <2>6, <3>2 DEF CheckedOut
      <4>2. Told' <=> Told
        BY <2>6, <3>2 DEF Told, fields
      <4> QED BY <2>6, <3>2, <4>1, <4>2 DEF Inside, Knows, At, fields
    <3>3. StatusNamesDeployed'
      BY <2>6 DEF StatusNamesDeployed, fields
    <3> QED BY <2>6, <3>1, <3>2, <3>3 DEF Inside
  <2>7. CASE StartTimer
    <3>1. work' = [work EXCEPT ![Timer] = [@ EXCEPT !.pc = "before"]]
      BY <2>7 DEF StartTimer, Go
    <3>2. work'[Timer].pc \notin Stable /\ \A c \in Callers : work'[c] = work[c]
      BY <2>0, <3>1 DEF TypeOK, Work, Stable
    <3> QED BY <2>6, <2>7, <3>2 DEF StartTimer, repo
  <2>8. ASSUME Step(Timer) PROVE Inside' /\ StatusNamesDeployed'
    BY <2>6, <2>8, TimerIsNotStable, TimerExcuses
  <2>9. CASE Push \/ Calm \/ UNCHANGED vars
    <3>1. UNCHANGED <<tip, head, deployed, fields, work, excused>>
      BY <2>9 DEF Push, Calm, vars, repo, fields
    <3> QED BY <2>6, <3>1 DEF Inside
  <2>10. CASE Restart
    <3>1. \A c \in Callers : At(c, "idle")'
      BY <2>0, <2>10 DEF Restart, At, Idle
    <3>2. \A c \in Callers : Going(c)' /\ Knows(c)'
      BY <3>1 DEF Going, Knows, At, Back, Stable
    <3>3. work'[Timer] = work[Timer] /\ lastResult' = ""
      BY <2>0, <2>10 DEF Restart
    <3> QED BY <3>2, <3>3 DEF Inside, StatusNamesDeployed
  <2> QED BY <2>2, <2>3, <2>4, <2>5, <2>7, <2>8, <2>9, <2>10 DEF Next, Workers
<1> QED BY <1>1, <1>2, TypeCorrect, PTL DEF Spec

=============================================================================
