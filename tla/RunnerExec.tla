------------------------------ MODULE RunnerExec ------------------------------
(***************************************************************************)
(* Commands on the nodes: the controller (runner/controller.go) posts a    *)
(* command to the agent of a node (cmd/runner-agent/main.go) and waits     *)
(* for its answer.  Both sides have a limit of their own: the controller   *)
(* stops waiting, and nobody tells the agent, whose command goes on.       *)
(* The agents also post heartbeats to the API, each for the nodes it was   *)
(* configured with, and the health gate (health/gates.go) lets a command   *)
(* through while the heartbeats of all nodes are fresh.                    *)
(*                                                                         *)
(* Time passes in units of which the limits are multiples.  Every node is  *)
(* online, as the store has them.                                          *)
(***************************************************************************)
EXTENDS Naturals, FiniteSets

CONSTANTS
  Callers,          \* goroutines in Controller.Execute
  Clients,          \* those that serve a client, which may go away
  Nodes,            \* each with an agent
  Bridge,           \* RUNNER_HEARTBEAT_NODES of each node's agent
  Commands,         \* of the allowlist
  Limit,            \* command -> the agent's timeout for it
  Forking,          \* commands whose descendants outlive the killed process
  Patience,         \* the timeout of the controller's HTTP client
  MaxAge,           \* PROXMASTER_RUNNER_HEARTBEAT_MAX_SEC
  MaxRunning        \* BOUND: commands that run or are waited for

ASSUME RunnerAssumption ==
  /\ Clients \subseteq Callers
  /\ Bridge \in [Nodes -> SUBSET Nodes]
  /\ Limit \in [Commands -> Nat \ {0}]
  /\ Forking \subseteq Commands
  /\ Patience \in Nat \ {0}
  /\ MaxAge \in Nat
  /\ MaxRunning \in Nat

VARIABLES
  age,              \* node -> age of its LastHeartbeat
  down,             \* node -> 0: its agent is up; d: down for d - 1 units
  since,            \* auxiliary: age of the API's process
  calls,            \* caller -> the command it waits for
  orphans           \* commands that run with nobody waiting for them

vars == <<age, down, since, calls, orphans>>

(* Ages are told apart up to the first that is too old. *)
Old == MaxAge + 1
Older(a) == IF a = Old THEN a ELSE a + 1

(* over: the command has ended, or its node went down, and the caller has  *)
(* not noticed yet.  A command is as old as the wait for it.               *)
Idle == [state |-> "idle"]
Over(a) == [state |-> "over", age |-> a]
Call == [state : {"running"}, node : Nodes, command : Commands, age : Nat]
        \cup {Over(a) : a \in 0 .. Patience}

(* excused: auxiliary, the client went away or the API's process ended.    *)
Orphan == [node : Nodes, command : Commands, age : Nat, excused : BOOLEAN]

Waiting(c) == calls[c] # Idle

Running(c) == calls[c].state = "running"

OrphanOf(c, excused) == [node |-> calls[c].node, command |-> calls[c].command,
                         age |-> calls[c].age, excused |-> excused]

(* Deviation: a command may take as long as the controller waits. *)
AtPatience(run) == run.command \notin Forking /\ run.age = Patience

AtLimit(run) == run.command \notin Forking /\ run.age = Limit[run.command]

-----------------------------------------------------------------------------
(* Heartbeats and the gate.                                                *)

(* SnapshotFromState and ValidateForWrite with failClosed. *)
GateOpen == \A n \in Nodes : age[n] <= MaxAge

(* Deviation: a heartbeat is taken for one of every node. *)
HeartbeatOfAll(a, n) ==
  /\ down[a] = 0
  /\ n \in Bridge[a]
  /\ age' = [m \in Nodes |-> 0]
  /\ UNCHANGED <<down, since, calls, orphans>>

(* A post of pushHeartbeats that arrives. *)
Heartbeat(a, n) ==
  /\ down[a] = 0
  /\ n \in Bridge[a]
  /\ age' = [age EXCEPT ![n] = 0]
  /\ UNCHANGED <<down, since, calls, orphans>>

-----------------------------------------------------------------------------
(* A command.                                                              *)

(* The post reaches an agent that is up, which starts the command; a       *)
(* refused or unanswered connection is an error that changes nothing.      *)
Execute(c, n, command) ==
  /\ ~Waiting(c)
  /\ GateOpen
  /\ down[n] = 0
  /\ Cardinality({d \in Callers : Waiting(d)}) + Cardinality(orphans) < MaxRunning
  /\ calls' = [calls EXCEPT ![c] = [state |-> "running", node |-> n,
                                    command |-> command, age |-> 0]]
  /\ UNCHANGED <<age, down, since, orphans>>

(* The command ends by itself, or the context of runCommand expires and    *)
(* its process is killed.  CombinedOutput returns when the descendants     *)
(* have let go of the pipe: until then a forking command is one that runs. *)
End(c) ==
  /\ Running(c)
  /\ calls' = [calls EXCEPT ![c] = Over(@.age)]
  /\ UNCHANGED <<age, down, since, orphans>>

EndOrphan(o) ==
  /\ orphans' = orphans \ {o}
  /\ UNCHANGED <<age, down, since, calls>>

(* The answer, 200 or 400, or the broken connection.  A node that goes     *)
(* down without a word leaves its caller to its timeout.                   *)
Answer(c) ==
  /\ Waiting(c)
  /\ ~Running(c)
  /\ calls' = [calls EXCEPT ![c] = Idle]
  /\ UNCHANGED <<age, down, since, orphans>>

(* Who gives up leaves a command that runs.                                *)
Abandon(c, excused) ==
  /\ calls' = [calls EXCEPT ![c] = Idle]
  /\ orphans' = IF Running(c) THEN orphans \cup {OrphanOf(c, excused)} ELSE orphans
  /\ UNCHANGED <<age, down, since>>

(* Deviation: a timeout that is not the HTTP client's. *)
GiveUpEarly(c) == Waiting(c) /\ Abandon(c, FALSE)

(* Deviation: the timeout is of the command, not of the connection. *)
GiveUpOnCommand(c) == Running(c) /\ calls[c].age = Patience /\ Abandon(c, FALSE)

(* httpClient.Timeout. *)
GiveUp(c) == Waiting(c) /\ calls[c].age = Patience /\ Abandon(c, FALSE)

(* The request's context is cancelled. *)
ClientGone(c) == c \in Clients /\ Waiting(c) /\ Abandon(c, TRUE)

-----------------------------------------------------------------------------
(* What goes down: a node with its agent and commands, and the API.        *)

NodeDown(n) ==
  /\ down[n] = 0
  /\ down' = [down EXCEPT ![n] = 1]
  /\ calls' = [c \in Callers |-> IF Running(c) /\ calls[c].node = n
                                 THEN Over(calls[c].age) ELSE calls[c]]
  /\ orphans' = {o \in orphans : o.node # n}
  /\ UNCHANGED <<age, since>>

NodeUp(n) ==
  /\ down[n] > 0
  /\ down' = [down EXCEPT ![n] = 0]
  /\ UNCHANGED <<age, since, calls, orphans>>

(* NewMemoryStore stamps every node with the present. *)
RestartAPI ==
  /\ age' = [n \in Nodes |-> 0]
  /\ since' = 0
  /\ calls' = [c \in Callers |-> Idle]
  /\ orphans' = {[o EXCEPT !.excused = TRUE] : o \in orphans}
                  \cup {OrphanOf(c, TRUE) : c \in {d \in Callers : Running(d)}}
  /\ UNCHANGED down

-----------------------------------------------------------------------------
(* A unit of time: no caller waits longer than it may, and no command is   *)
(* left running at its limit.                                              *)
Aged(run) ==
  [run EXCEPT !.age = IF @ < Patience \/ run.command \notin Forking THEN @ + 1 ELSE @]

Tick ==
  /\ \A c \in Callers : Waiting(c) => calls[c].age < Patience
  /\ \A c \in Callers : Running(c) => ~AtLimit(calls[c])
  /\ \A o \in orphans : ~AtLimit(o)
  /\ age' = [n \in Nodes |-> Older(age[n])]
  /\ down' = [n \in Nodes |-> IF down[n] \in {0, Old + 1} THEN down[n] ELSE down[n] + 1]
  /\ since' = Older(since)
  /\ calls' = [c \in Callers |-> IF Waiting(c) THEN Aged(calls[c]) ELSE Idle]
  /\ orphans' = {Aged(o) : o \in orphans}

Init ==
  /\ age = [n \in Nodes |-> 0]
  /\ down = [n \in Nodes |-> 0]
  /\ since = 0
  /\ calls = [c \in Callers |-> Idle]
  /\ orphans = {}

Next ==
  \/ \E a, n \in Nodes : Heartbeat(a, n)
  \/ \E c \in Callers, n \in Nodes, x \in Commands : Execute(c, n, x)
  \/ \E c \in Callers : End(c) \/ Answer(c) \/ GiveUp(c) \/ ClientGone(c)
  \/ \E o \in orphans : EndOrphan(o)
  \/ \E n \in Nodes : NodeDown(n) \/ NodeUp(n)
  \/ RestartAPI
  \/ Tick

(* Time passes, and both sides' timers fire.                               *)
Fairness ==
  /\ WF_vars(Tick)
  /\ \A c \in Callers : WF_vars(End(c) /\ AtLimit(calls[c])) /\ WF_vars(GiveUp(c))
  /\ WF_vars(\E o \in orphans : AtLimit(o) /\ EndOrphan(o))

Spec == Init /\ [][Next]_vars /\ Fairness
-----------------------------------------------------------------------------
(* Every variable has its type; a caller waits no longer than its          *)
(* patience, and a command it waits for is not past its limit              *)
(* (runner/controller.go:68, cmd/runner-agent/main.go:194-199).            *)
TypeOK ==
  /\ age \in [Nodes -> 0 .. Old]
  /\ down \in [Nodes -> 0 .. Old + 1]
  /\ since \in 0 .. Old
  /\ calls \in [Callers -> Call \cup {Idle}]
  /\ orphans \subseteq Orphan
  /\ \A c \in Callers : Waiting(c) => calls[c].age <= Patience
  /\ \A c \in Callers : Running(c) /\ calls[c].command \notin Forking
                          => calls[c].age <= Limit[calls[c].command]

(* A command goes on with nobody waiting for it only when its client left, *)
(* the API restarted, or the agent gives it longer than the controller     *)
(* waits, or cannot end it; then its job failed after the controller's     *)
(* whole patience, and a retry may run beside it (runner/controller.go:68, *)
(* cmd/runner-agent/main.go:168-199).                                      *)
OrphansAreLong ==
  \A o \in orphans : ~o.excused =>
    o.age >= Patience /\ (o.command \in Forking \/ Limit[o.command] >= Patience)

(* A fresh heartbeat of a node has an agent behind it that bridges the     *)
(* node and was up no longer ago than the gate allows, or a restart of the *)
(* API that recent (health/gates.go:42, cmd/runner-agent/main.go:102-121,  *)
(* store/memory.go:136-139).                                               *)
HeartbeatsAreBacked ==
  \A n \in Nodes : age[n] <= MaxAge =>
    \/ since <= age[n]
    \/ \E a \in Nodes : n \in Bridge[a] /\ down[a] <= age[n] + 1

(* Every call has its answer, though the agent may hang, its command       *)
(* never end and its node never come back (runner/controller.go:68).       *)
CallsAreAnswered == \A c \in Callers : Waiting(c) ~> ~Waiting(c)

=============================================================================
