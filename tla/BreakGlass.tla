------------------------------ MODULE BreakGlass ------------------------------
(***************************************************************************)
(* The break-glass SSH switch (breakglass/service.go): Enable, Disable and *)
(* Status, called by HTTP handlers and by the orchestrator, around a shell *)
(* hook that opens or closes SSH on the host.  A call holds the service's  *)
(* mutex while its hook runs; time passes, and other calls wait.  The      *)
(* switch lives in the process, SSH on the host: a restart forgets the one *)
(* and leaves the other.                                                   *)
(*                                                                         *)
(* Who changed the switch and when it was disabled by itself are kept by   *)
(* the code for display and left out.  Either hook's command may be blank, *)
(* which is the default of both: the hook then does nothing, and succeeds. *)
(***************************************************************************)
EXTENDS Naturals

CONSTANTS
  Callers,          \* goroutines that may be inside the service
  NoOne,            \* the mutex is free
  Durations,        \* durations requested of Enable; 0: none was given
  DefaultDuration,  \* the configured default
  MaxTime           \* BOUND: the clock

Ops == {"enable", "disable", "expire"}      \* expire: Status past the deadline
Commands == {"enable", "disable"}

ASSUME BreakGlassAssumption ==
  /\ NoOne \notin Callers
  /\ Durations \subseteq Nat
  /\ DefaultDuration \in Nat \ {0}
  /\ MaxTime \in Nat

VARIABLES
  hooks,            \* the commands that are configured
  now,              \* the wall clock
  enabled,          \* s.enabled
  enabledUntil,     \* s.enabledUntil, 0: Go's zero time
  lastError,        \* whether s.lastError is set
  ssh,              \* external: what the hooks have made of SSH
  mutex,            \* the caller that holds s.mu
  calls,            \* caller -> where it is, what it does, how its hook ended
  lapse             \* auxiliary: the last Enable or Disable that succeeded ran
                    \* no command, or since it an expiry's hook failed or ran
                    \* none, or the process died

vars == <<hooks, now, enabled, enabledUntil, lastError, ssh, mutex, calls, lapse>>

PCs  == {"idle", "hook", "write"}
Call == [pc : PCs, op : Ops, duration : Nat, ok : BOOLEAN]

(* The orchestrator raises a duration below one minute to one minute, so   *)
(* that the service, which takes 0 for its default, never sees a 0.        *)
Clamp(d) == IF d < 1 THEN 1 ELSE d
Grant(d) == IF Clamp(d) = 0 THEN DefaultDuration ELSE Clamp(d)

(* What a hook that succeeds leaves behind. *)
Effect(op) == IF op = "enable" THEN "open" ELSE "closed"

(* An expiry runs the command of Disable. *)
HasCommand(op) == (IF op = "enable" THEN "enable" ELSE "disable") \in hooks

Idle == [pc |-> "idle", op |-> "disable", duration |-> 0, ok |-> TRUE]

-----------------------------------------------------------------------------
(* Deviation: a call that does not wait for the mutex. *)
EnterUnlocked(c, op, d) ==
  /\ calls[c].pc = "idle"
  /\ mutex' = c
  /\ calls' = [calls EXCEPT ![c] = [pc |-> "hook", op |-> op, duration |-> d, ok |-> TRUE]]
  /\ UNCHANGED <<hooks, now, enabled, enabledUntil, lastError, ssh, lapse>>

Enter(c, op, d) ==
  /\ mutex = NoOne
  /\ calls[c].pc = "idle"
  /\ mutex' = c
  /\ calls' = [calls EXCEPT ![c] = [pc |-> "hook", op |-> op, duration |-> d, ok |-> TRUE]]
  /\ UNCHANGED <<hooks, now, enabled, enabledUntil, lastError, ssh, lapse>>

Enable(c, d) == Enter(c, "enable", d)

Disable(c) == Enter(c, "disable", 0)

(* Status runs the disable hook once the deadline has passed.  Before it,  *)
(* and while the switch is off, Status changes nothing.                    *)
StatusExpired(c) ==
  /\ enabled
  /\ now >= enabledUntil
  /\ Enter(c, "expire", 0)

(* runHook: the shell command succeeds, or fails having done its work or   *)
(* not (it is killed when the client goes away).  A blank command is not   *)
(* run, and that is no failure.                                            *)
RunHook(c) ==
  /\ calls[c].pc = "hook"
  /\ \/ /\ ssh' = IF HasCommand(calls[c].op) THEN Effect(calls[c].op) ELSE ssh
        /\ calls' = [calls EXCEPT ![c] = [@ EXCEPT !.pc = "write", !.ok = TRUE]]
     \/ /\ HasCommand(calls[c].op)
        /\ ssh' \in {ssh, Effect(calls[c].op)}
        /\ calls' = [calls EXCEPT ![c] = [@ EXCEPT !.pc = "write", !.ok = FALSE]]
  /\ UNCHANGED <<hooks, now, enabled, enabledUntil, lastError, mutex, lapse>>

Leave(c, op) ==
  /\ calls[c].pc = "write"
  /\ calls[c].op = op
  /\ calls' = [calls EXCEPT ![c] = [@ EXCEPT !.pc = "idle"]]
  /\ mutex' = NoOne

(* What a successful Enable or Disable makes good. *)
LapseAfter(c) == IF calls[c].ok THEN ~HasCommand(calls[c].op) ELSE lapse

(* Deviations: the error of the disable hook is dropped; a second Enable   *)
(* adds to the first one's deadline.                                       *)
DisableErrorDropped(c) ==
  /\ Leave(c, "disable")
  /\ enabled' = FALSE
  /\ enabledUntil' = 0
  /\ lastError' = FALSE
  /\ lapse' = LapseAfter(c)
  /\ UNCHANGED <<hooks, now, ssh>>

EnableExtends(c) ==
  /\ Leave(c, "enable")
  /\ lastError' = ~calls[c].ok
  /\ enabled' = (calls[c].ok \/ enabled)
  /\ lapse' = LapseAfter(c)
  /\ enabledUntil' = (IF enabled THEN enabledUntil ELSE now) + Grant(calls[c].duration)
  /\ UNCHANGED <<hooks, now, ssh>>

EnableWrite(c) ==
  /\ Leave(c, "enable")
  /\ lastError' = ~calls[c].ok
  /\ enabled' = (calls[c].ok \/ enabled)
  /\ lapse' = LapseAfter(c)
  /\ enabledUntil' = IF calls[c].ok THEN now + Grant(calls[c].duration) ELSE enabledUntil
  /\ UNCHANGED <<hooks, now, ssh>>

DisableWrite(c) ==
  /\ Leave(c, "disable")
  /\ lastError' = ~calls[c].ok
  /\ enabled' = (enabled /\ ~calls[c].ok)
  /\ lapse' = LapseAfter(c)
  /\ enabledUntil' = IF calls[c].ok THEN 0 ELSE enabledUntil
  /\ UNCHANGED <<hooks, now, ssh>>

(* autoDisableIfExpiredLocked: however the hook ended, the switch is off,  *)
(* and the error of the hook is dropped.                                   *)
ExpireWrite(c) ==
  /\ Leave(c, "expire")
  /\ enabled' = FALSE
  /\ lapse' = (lapse \/ ~calls[c].ok \/ ~HasCommand("expire"))
  /\ UNCHANGED <<hooks, now, enabledUntil, lastError, ssh>>

Tick ==
  /\ now < MaxTime
  /\ now' = now + 1
  /\ UNCHANGED <<hooks, enabled, enabledUntil, lastError, ssh, mutex, calls, lapse>>

(* The process dies and NewService starts with the switch off; a hook that *)
(* was running has done its work or not.  Nothing asks the host.           *)
Restart ==
  /\ \/ UNCHANGED ssh
     \/ \E c \in Callers : /\ calls[c].pc = "hook"
                           /\ HasCommand(calls[c].op)
                           /\ ssh' = Effect(calls[c].op)
  /\ enabled' = FALSE
  /\ enabledUntil' = 0
  /\ lastError' = FALSE
  /\ mutex' = NoOne
  /\ calls' = [c \in Callers |-> Idle]
  /\ lapse' = TRUE
  /\ UNCHANGED <<hooks, now>>

-----------------------------------------------------------------------------
Init ==
  /\ hooks \in SUBSET Commands
  /\ now = 1
  /\ enabled = FALSE
  /\ enabledUntil = 0
  /\ lastError = FALSE
  /\ ssh = "closed"
  /\ mutex = NoOne
  /\ calls = [c \in Callers |-> Idle]
  /\ lapse = FALSE

(* What a call does once it has entered. *)
Step(c) == RunHook(c) \/ EnableWrite(c) \/ DisableWrite(c) \/ ExpireWrite(c)

Next ==
  \/ \E c \in Callers : (\E d \in Durations : Enable(c, d)) \/ Disable(c)
                          \/ StatusExpired(c) \/ Step(c)
  \/ Tick \/ Restart

Spec == Init /\ [][Next]_vars

-----------------------------------------------------------------------------
(* Properties.                                                             *)

(* Every variable keeps its type, and the mutex is held by exactly the one *)
(* call that is inside the service (service.go:12-23).                     *)
TypeOK ==
  /\ hooks \subseteq Commands
  /\ now \in Nat
  /\ enabled \in BOOLEAN
  /\ enabledUntil \in Nat
  /\ lastError \in BOOLEAN
  /\ ssh \in {"open", "closed"}
  /\ mutex \in Callers \cup {NoOne}
  /\ calls \in [Callers -> Call]
  /\ \A c \in Callers : calls[c].pc # "idle" <=> mutex = c
  /\ lapse \in BOOLEAN

(* What Status says of the switch is what SSH is, enabled exactly while    *)
(* open, whenever no call is inside the service, but for four reasons: a   *)
(* hook of Enable or Disable failed, which last_error tells                *)
(* (service.go:46-49, 67-70); the last of them to succeed, or an expiry    *)
(* since, had no command to run (service.go:88-90); an expiry's hook       *)
(* failed, which nothing tells (service.go:110); or the process has        *)
(* restarted since.                                                        *)
DifferenceIsExplained ==
  mutex = NoOne /\ (enabled <=> ssh # "open") => lastError \/ lapse

(* Repeated calls of Enable do not add up: while the switch is on, its     *)
(* deadline is no further ahead than one call can set it.  It says nothing *)
(* of what happens at the deadline (service.go:51-53).                     *)
DeadlineIsGranted ==
  enabled => \E d \in Durations : enabledUntil <= now + Grant(d)

=============================================================================
