--------------------------- MODULE RunnerExecProofs ---------------------------
(***************************************************************************)
(* Theorems of RunnerExec, for any callers, nodes, bridges, commands and   *)
(* limits.  Each invariant is inductive beside TypeOK, which says that     *)
(* nobody waits, and no command is waited for, past its limit.             *)
(***************************************************************************)
EXTENDS RunnerExec, TLAPS

LEMMA OldIsNatural == Old \in Nat /\ Old > MaxAge
BY RunnerAssumption DEF Old

(* A call that is waited for is one of the two kinds of record.            *)
LEMMA WaitingCalls ==
  ASSUME TypeOK, NEW c \in Callers, Waiting(c)
  PROVE  /\ calls[c] \in Call
         /\ calls[c].age \in Nat /\ calls[c].age <= Patience
         /\ Running(c) => calls[c] \in [state : {"running"}, node : Nodes,
                                        command : Commands, age : Nat]
         /\ ~Running(c) => \E a \in 0 .. Patience : calls[c] = Over(a)
<1>1. calls[c] \in Call /\ calls[c].age <= Patience
  BY DEF TypeOK, Waiting
<1>2. CASE calls[c] \in [state : {"running"}, node : Nodes, command : Commands, age : Nat]
  BY <1>1, <1>2 DEF Running
<1>3. CASE \E a \in 0 .. Patience : calls[c] = Over(a)
  BY <1>1, <1>3, RunnerAssumption DEF Running, Over
<1> QED BY <1>1, <1>2, <1>3 DEF Call

LEMMA RunningIsWaiting == \A c \in Callers : Running(c) => Waiting(c)
BY DEF Running, Waiting, Idle

(* A call that has its answer.                                             *)
LEMMA IdleIsTyped ==
  ASSUME TypeOK, NEW S \in SUBSET Callers,
         calls' = [c \in Callers |-> IF c \in S THEN Idle ELSE calls[c]]
  PROVE  /\ calls' \in [Callers -> Call \cup {Idle}]
         /\ \A c \in Callers : Waiting(c)' => calls'[c].age <= Patience
         /\ \A c \in Callers : Running(c)' /\ calls'[c].command \notin Forking
                                 => calls'[c].age <= Limit[calls'[c].command]
<1>1. \A c \in Callers : c \in S => ~Waiting(c)' /\ ~Running(c)'
  BY DEF Waiting, Running, Idle
<1>2. \A c \in Callers : c \notin S => (Waiting(c)' <=> Waiting(c)) /\ (Running(c)' <=> Running(c))
  BY DEF Waiting, Running
<1> QED BY <1>1, <1>2 DEF TypeOK

(* What an abandoned call leaves behind.                                   *)
LEMMA OrphanIsTyped ==
  ASSUME TypeOK, NEW c \in Callers, Running(c), NEW e \in BOOLEAN
  PROVE  /\ OrphanOf(c, e) \in Orphan
         /\ OrphanOf(c, e).age = calls[c].age
         /\ OrphanOf(c, e).command = calls[c].command
         /\ OrphanOf(c, e).excused = e
BY RunningIsWaiting, WaitingCalls DEF OrphanOf, Orphan

(* A unit of time for a call, and for an orphan.                           *)
LEMMA CallsAge ==
  ASSUME TypeOK, NEW c \in Callers, Waiting(c), calls[c].age < Patience,
         Running(c) => ~AtLimit(calls[c])
  PROVE  LET r == Aged(calls[c])
         IN  /\ r \in Call
             /\ r # Idle
             /\ r.age <= Patience
             /\ r.state = "running" /\ r.command \notin Forking
                  => r.age <= Limit[r.command]
<1> DEFINE r == Aged(calls[c])
<1>1. r = [calls[c] EXCEPT !.age = calls[c].age + 1]
  BY DEF Aged
<1>2. CASE Running(c)
  <2> DEFINE Run == [state : {"running"}, node : Nodes, command : Commands, age : Nat]
  <2>1. calls[c] \in Run /\ calls[c].age + 1 \in Nat /\ calls[c].age + 1 <= Patience
    BY <1>2, WaitingCalls, RunnerAssumption
  <2>2. r \in Run /\ r.age = calls[c].age + 1 /\ r.command = calls[c].command
    BY <1>1, <2>1
  <2>3. r.command \notin Forking => r.age <= Limit[r.command]
    <3>1. ASSUME calls[c].command \notin Forking
          PROVE  calls[c].age + 1 <= Limit[calls[c].command]
      <4>1. calls[c].age <= Limit[calls[c].command] /\ calls[c].age # Limit[calls[c].command]
        BY <1>2, <3>1 DEF TypeOK, AtLimit
      <4>2. calls[c].age \in Nat /\ Limit[calls[c].command] \in Nat
        BY <2>1, RunnerAssumption
      <4> QED BY <4>1, <4>2
    <3> QED BY <2>2, <3>1
  <2> QED BY <2>1, <2>2, <2>3 DEF Call, Idle
<1>3. CASE ~Running(c)
  <2>1. PICK a \in 0 .. Patience : calls[c] = Over(a)
    BY <1>3, WaitingCalls
  <2>2. a + 1 \in 0 .. Patience
    BY <2>1, RunnerAssumption DEF Over
  <2>3. r = Over(a + 1)
    BY <1>1, <2>1 DEF Over
  <2>4. r \in Call /\ r.age = a + 1 /\ r.state = "over" /\ r # Idle
    BY <2>2, <2>3 DEF Call, Over, Idle
  <2> QED BY <2>2, <2>4, RunnerAssumption
<1> QED BY <1>2, <1>3

LEMMA OrphansAge ==
  ASSUME NEW o \in Orphan
  PROVE  /\ Aged(o) \in Orphan
         /\ Aged(o).age >= o.age
         /\ Aged(o).command = o.command
         /\ Aged(o).excused = o.excused
<1>1. o.age \in Nat /\ o.age + 1 \in Nat
  BY DEF Orphan
<1> QED BY <1>1 DEF Aged, Orphan

-----------------------------------------------------------------------------
(* A call that starts, or ends, or goes.                                   *)
LEMMA OneCallTyped ==
  ASSUME TypeOK, NEW c \in Callers, NEW r \in Call,
         r.age <= Patience,
         r.state = "running" /\ r.command \notin Forking => r.age <= Limit[r.command],
         calls' = [calls EXCEPT ![c] = r]
  PROVE  /\ calls' \in [Callers -> Call \cup {Idle}]
         /\ \A d \in Callers : Waiting(d)' => calls'[d].age <= Patience
         /\ \A d \in Callers : Running(d)' /\ calls'[d].command \notin Forking
                                 => calls'[d].age <= Limit[calls'[d].command]
<1>1. calls'[c] = r /\ \A d \in Callers : d # c => calls'[d] = calls[d]
  BY DEF TypeOK
<1>2. calls' \in [Callers -> Call \cup {Idle}]
  BY DEF TypeOK
<1>3. \A d \in Callers : d # c => (Waiting(d)' <=> Waiting(d)) /\ (Running(d)' <=> Running(d))
  BY <1>1 DEF Waiting, Running
<1>4. ASSUME NEW d \in Callers, Waiting(d)' PROVE calls'[d].age <= Patience
  BY <1>1, <1>3, <1>4 DEF TypeOK
<1>5. ASSUME NEW d \in Callers, Running(d)', calls'[d].command \notin Forking
      PROVE  calls'[d].age <= Limit[calls'[d].command]
  <2>1. CASE d = c
    BY <1>1, <1>5, <2>1 DEF Running
  <2>2. CASE d # c
    BY <1>1, <1>3, <1>5, <2>2 DEF TypeOK
  <2> QED BY <2>1, <2>2
<1> QED BY <1>2, <1>4, <1>5

LEMMA AbandonTyped ==
  ASSUME TypeOK, NEW c \in Callers, NEW e \in BOOLEAN, Abandon(c, e)
  PROVE  TypeOK'
<1> DEFINE S == {c}
<1>1. calls' = [d \in Callers |-> IF d \in S THEN Idle ELSE calls[d]]
  BY DEF Abandon, TypeOK
<1>2. orphans' \subseteq Orphan
  BY OrphanIsTyped DEF Abandon, TypeOK
<1>3. S \in SUBSET Callers
  OBVIOUS
<1> HIDE DEF S
<1>4. /\ calls' \in [Callers -> Call \cup {Idle}]
      /\ \A d \in Callers : Waiting(d)' => calls'[d].age <= Patience
      /\ \A d \in Callers : Running(d)' /\ calls'[d].command \notin Forking
                              => calls'[d].age <= Limit[calls'[d].command]
  BY <1>1, <1>3, IdleIsTyped
<1>5. UNCHANGED <<age, down, since>>
  BY DEF Abandon
<1> QED BY <1>2, <1>4, <1>5 DEF TypeOK

(* Every variable keeps its type, and no wait and no command that can be   *)
(* ended goes past its limit (runner/controller.go:68-111,                 *)
(* cmd/runner-agent/main.go:168-226).                                      *)
THEOREM TypeCorrect == Spec => []TypeOK
<1>1. Init => TypeOK
  BY OldIsNatural DEF Init, TypeOK, Waiting, Running, Idle
<1>2. TypeOK /\ [Next]_vars => TypeOK'
  <2> SUFFICES ASSUME TypeOK, [Next]_vars PROVE TypeOK'
    OBVIOUS
  <2>1. ASSUME NEW a \in Nodes, NEW n \in Nodes, Heartbeat(a, n) PROVE TypeOK'
    BY <2>1, OldIsNatural DEF Heartbeat, TypeOK, Waiting, Running
  <2>2. ASSUME NEW c \in Callers, NEW n \in Nodes, NEW x \in Commands, Execute(c, n, x)
        PROVE  TypeOK'
    <3> DEFINE r == [state |-> "running", node |-> n, command |-> x, age |-> 0]
    <3>1. r \in Call /\ r.age = 0 /\ r.command = x
      BY DEF Call
    <3>2. 0 <= Patience /\ 0 <= Limit[x]
      BY RunnerAssumption
    <3>3. calls' = [calls EXCEPT ![c] = r]
      BY <2>2 DEF Execute
    <3> HIDE DEF r
    <3>4. /\ calls' \in [Callers -> Call \cup {Idle}]
          /\ \A d \in Callers : Waiting(d)' => calls'[d].age <= Patience
          /\ \A d \in Callers : Running(d)' /\ calls'[d].command \notin Forking
                                  => calls'[d].age <= Limit[calls'[d].command]
      BY <3>1, <3>2, <3>3, OneCallTyped
    <3>5. UNCHANGED <<age, down, since, orphans>>
      BY <2>2 DEF Execute
    <3> QED BY <3>4, <3>5 DEF TypeOK
  <2>3. ASSUME NEW c \in Callers, End(c) PROVE TypeOK'
    <3>1. calls[c].age \in 0 .. Patience
      BY <2>3, RunningIsWaiting, WaitingCalls, RunnerAssumption DEF End
    <3> DEFINE r == Over(calls[c].age)
    <3>2. r \in Call /\ r.age <= Patience /\ r.state # "running"
      BY <3>1 DEF Call, Over
    <3>3. calls' = [calls EXCEPT ![c] = r]
      BY <2>3 DEF End
    <3> HIDE DEF r
    <3> QED BY <2>3, <3>2, <3>3, OneCallTyped DEF End, TypeOK
  <2>4. ASSUME NEW c \in Callers, Answer(c) PROVE TypeOK'
    <3>1. calls' = [d \in Callers |-> IF d \in {c} THEN Idle ELSE calls[d]]
      BY <2>4 DEF Answer, TypeOK
    <3>2. {c} \in SUBSET Callers
      OBVIOUS
    <3> QED BY <2>4, <3>1, <3>2, IdleIsTyped DEF Answer, TypeOK
  <2>5. ASSUME NEW c \in Callers, GiveUp(c) \/ ClientGone(c) PROVE TypeOK'
    BY <2>5, AbandonTyped DEF GiveUp, ClientGone
  <2>6. ASSUME NEW o \in orphans, EndOrphan(o) PROVE TypeOK'
    BY <2>6 DEF EndOrphan, TypeOK, Waiting, Running
  <2>7. ASSUME NEW n \in Nodes, NodeDown(n) PROVE TypeOK'
    <3> DEFINE S == {c \in Callers : Running(c) /\ calls[c].node = n}
    <3>1. calls' = [c \in Callers |-> IF c \in S THEN Over(calls[c].age) ELSE calls[c]]
      BY <2>7 DEF NodeDown
    <3>2. ASSUME NEW c \in S
          PROVE  /\ Over(calls[c].age) \in Call
                 /\ Over(calls[c].age).age <= Patience
                 /\ Over(calls[c].age).state # "running"
      <4>1. calls[c].age \in 0 .. Patience
        BY RunningIsWaiting, WaitingCalls, RunnerAssumption
      <4> QED BY <4>1 DEF Call, Over
    <3>3. calls' \in [Callers -> Call \cup {Idle}]
      BY <3>1, <3>2 DEF TypeOK
    <3>4. \A c \in Callers : Waiting(c)' => calls'[c].age <= Patience
      BY <3>1, <3>2 DEF TypeOK, Waiting
    <3>5. \A c \in Callers : Running(c)' /\ calls'[c].command \notin Forking
                              => calls'[c].age <= Limit[calls'[c].command]
      BY <3>1, <3>2 DEF TypeOK, Running
    <3>6. down' \in [Nodes -> 0 .. Old + 1] /\ orphans' \subseteq Orphan
      BY <2>7, OldIsNatural DEF NodeDown, TypeOK
    <3> QED BY <2>7, <3>3, <3>4, <3>5, <3>6 DEF NodeDown, TypeOK
  <2>8. ASSUME NEW n \in Nodes, NodeUp(n) PROVE TypeOK'
    BY <2>8, OldIsNatural DEF NodeUp, TypeOK, Waiting, Running
  <2>9. CASE RestartAPI
    <3> DEFINE S == Callers
    <3>1. calls' = [c \in Callers |-> IF c \in S THEN Idle ELSE calls[c]]
      BY <2>9 DEF RestartAPI
    <3>2. {[o EXCEPT !.excused = TRUE] : o \in orphans} \subseteq Orphan
      BY DEF TypeOK, Orphan
    <3>3. {OrphanOf(c, TRUE) : c \in {d \in Callers : Running(d)}} \subseteq Orphan
      BY OrphanIsTyped
    <3>4. orphans' \subseteq Orphan
      BY <2>9, <3>2, <3>3 DEF RestartAPI
    <3>5. S \in SUBSET Callers
      OBVIOUS
    <3>6. age' \in [Nodes -> 0 .. Old] /\ down' = down /\ since' \in 0 .. Old
      BY <2>9, OldIsNatural DEF RestartAPI
    <3> HIDE DEF S
    <3>7. /\ calls' \in [Callers -> Call \cup {Idle}]
          /\ \A d \in Callers : Waiting(d)' => calls'[d].age <= Patience
          /\ \A d \in Callers : Running(d)' /\ calls'[d].command \notin Forking
                                  => calls'[d].age <= Limit[calls'[d].command]
      BY <3>1, <3>5, IdleIsTyped
    <3> QED BY <3>4, <3>6, <3>7 DEF TypeOK
  <2>10. CASE Tick
    <3>1. calls' = [c \in Callers |-> IF Waiting(c) THEN Aged(calls[c]) ELSE Idle]
      BY <2>10 DEF Tick
    <3>2. \A c \in Callers : Waiting(c) => calls[c].age < Patience /\ (Running(c) => ~AtLimit(calls[c]))
      BY <2>10 DEF Tick
    <3>3. calls' \in [Callers -> Call \cup {Idle}]
      BY <3>1, <3>2, CallsAge
    <3>4. \A c \in Callers : Waiting(c)' => Waiting(c)
      BY <3>1 DEF Waiting
    <3>5. \A c \in Callers : Running(c)' => Waiting(c)
      BY <3>1 DEF Running, Idle
    <3>6. \A c \in Callers : Waiting(c)' => calls'[c].age <= Patience
      BY <3>1, <3>2, <3>4, CallsAge
    <3>7. \A c \in Callers : Running(c)' /\ calls'[c].command \notin Forking
                              => calls'[c].age <= Limit[calls'[c].command]
      <4>1. ASSUME NEW c \in Callers, Running(c)', calls'[c].command \notin Forking
            PROVE  calls'[c].age <= Limit[calls'[c].command]
        <5>1. calls'[c] = Aged(calls[c]) /\ Waiting(c) /\ calls'[c].state = "running"
          BY <3>1, <3>5, <4>1 DEF Running
        <5> QED BY <3>2, <4>1, <5>1, CallsAge
      <4> QED BY <4>1
    <3>8. orphans' \subseteq Orphan
      BY <2>10, OrphansAge DEF Tick, TypeOK
    <3>9. age' \in [Nodes -> 0 .. Old] /\ down' \in [Nodes -> 0 .. Old + 1] /\ since' \in 0 .. Old
      BY <2>10, OldIsNatural DEF Tick, TypeOK, Older
    <3> QED BY <3>3, <3>6, <3>7, <3>8, <3>9 DEF TypeOK
  <2>11. CASE UNCHANGED vars
    BY <2>11 DEF vars, TypeOK, Waiting, Running
  <2> QED BY <2>1, <2>2, <2>3, <2>4, <2>5, <2>6, <2>7, <2>8, <2>9, <2>10, <2>11 DEF Next
<1> QED BY <1>1, <1>2, PTL DEF Spec

(* Who outlives its call without an excuse is a command the agent gives    *)
(* as long as the controller waits, or cannot end                          *)
(* (runner/controller.go:64, cmd/runner-agent/main.go:168-226).            *)
THEOREM LongOrphans == Spec => []OrphansAreLong
<1>1. Init => OrphansAreLong
  BY DEF Init, OrphansAreLong
<1>2. TypeOK /\ OrphansAreLong /\ [Next]_vars => OrphansAreLong'
  <2> SUFFICES ASSUME TypeOK, OrphansAreLong, [Next]_vars PROVE OrphansAreLong'
    OBVIOUS
  <2> USE DEF OrphansAreLong
  <2>1. ASSUME NEW c \in Callers, GiveUp(c) PROVE OrphansAreLong'
    <3>1. CASE ~Running(c)
      BY <2>1, <3>1 DEF GiveUp, Abandon
    <3>2. CASE Running(c)
      <4>1. calls[c].command \in Forking \/ Limit[calls[c].command] >= Patience
        <5>1. calls[c].age = Patience /\ calls[c].command \in Commands
          BY <2>1, <3>2, RunningIsWaiting, WaitingCalls DEF GiveUp
        <5>2. Patience \in Nat /\ Limit[calls[c].command] \in Nat
          BY <5>1, RunnerAssumption
        <5> QED BY <3>2, <5>1, <5>2 DEF TypeOK
      <4>2. OrphanOf(c, FALSE).age >= Patience
        <5> DEFINE a == OrphanOf(c, FALSE).age
        <5>1. a = calls[c].age
          BY DEF OrphanOf
        <5>2. calls[c].age = Patience /\ Patience \in Nat
          BY <2>1, RunnerAssumption DEF GiveUp
        <5>3. a = Patience
          BY <5>1, <5>2
        <5> HIDE DEF a
        <5>4. a >= Patience
          BY <5>2, <5>3
        <5> QED BY <5>4 DEF a
      <4>3. orphans' = orphans \cup {OrphanOf(c, FALSE)}
        BY <2>1, <3>2 DEF GiveUp, Abandon
      <4> QED BY <3>2, <4>1, <4>2, <4>3, OrphanIsTyped
    <3> QED BY <3>1, <3>2
  <2>2. ASSUME NEW c \in Callers, ClientGone(c) PROVE OrphansAreLong'
    BY <2>2, OrphanIsTyped DEF ClientGone, Abandon
  <2>3. CASE RestartAPI
    <3>1. \A o \in orphans : [o EXCEPT !.excused = TRUE].excused
      BY DEF TypeOK, Orphan
    <3> QED BY <2>3, <3>1, OrphanIsTyped DEF RestartAPI
  <2>4. CASE Tick
    <3>1. \A o \in orphans : o \in Orphan /\ o.age \in Nat /\ Aged(o).age \in Nat
      BY OrphansAge DEF TypeOK, Orphan
    <3>2. \A o \in orphans' : \E p \in orphans : o = Aged(p)
      BY <2>4 DEF Tick
    <3> QED BY <3>1, <3>2, OrphansAge, RunnerAssumption
  <2>5. CASE orphans' \subseteq orphans
    BY <2>5
  <2>6. ASSUME NEW a \in Nodes, NEW n \in Nodes, Heartbeat(a, n) PROVE OrphansAreLong'
    BY <2>5, <2>6 DEF Heartbeat
  <2>7. ASSUME NEW c \in Callers, \/ \E n \in Nodes, x \in Commands : Execute(c, n, x)
                                  \/ End(c) \/ Answer(c)
        PROVE  OrphansAreLong'
    BY <2>5, <2>7 DEF Execute, End, Answer
  <2>8. ASSUME NEW o \in orphans, EndOrphan(o) PROVE OrphansAreLong'
    BY <2>5, <2>8 DEF EndOrphan
  <2>9. ASSUME NEW n \in Nodes, NodeDown(n) \/ NodeUp(n) PROVE OrphansAreLong'
    BY <2>5, <2>9 DEF NodeDown, NodeUp
  <2>10. CASE UNCHANGED vars
    BY <2>5, <2>10 DEF vars
  <2> QED BY <2>1, <2>2, <2>3, <2>4, <2>6, <2>7, <2>8, <2>9, <2>10 DEF Next
<1> QED BY <1>1, <1>2, TypeCorrect, PTL DEF Spec

(* Behind a fresh heartbeat there is an agent that posts for the node, or  *)
(* a restart of the API (cmd/runner-agent/main.go:99-120,                  *)
(* store/memory.go:134-147).                                               *)
THEOREM BackedHeartbeats == Spec => []HeartbeatsAreBacked
<1>1. Init => HeartbeatsAreBacked
  BY DEF Init, HeartbeatsAreBacked
<1>2. TypeOK /\ HeartbeatsAreBacked /\ [Next]_vars => HeartbeatsAreBacked'
  <2> SUFFICES ASSUME TypeOK, HeartbeatsAreBacked, [Next]_vars PROVE HeartbeatsAreBacked'
    OBVIOUS
  <2>1. CASE UNCHANGED <<age, down, since>>
    BY <2>1 DEF HeartbeatsAreBacked
  <2>2. ASSUME NEW a \in Nodes, NEW n \in Nodes, Heartbeat(a, n) PROVE HeartbeatsAreBacked'
    BY <2>2 DEF Heartbeat, HeartbeatsAreBacked, TypeOK
  <2>3. ASSUME NEW n \in Nodes, NodeDown(n) PROVE HeartbeatsAreBacked'
    <3>1. \A a, m \in Nodes : down[a] <= age[m] + 1 => down'[a] <= age[m] + 1
      BY <2>3, OldIsNatural DEF NodeDown, TypeOK
    <3> QED BY <2>3, <3>1 DEF NodeDown, HeartbeatsAreBacked
  <2>4. ASSUME NEW n \in Nodes, NodeUp(n) PROVE HeartbeatsAreBacked'
    <3>1. \A a, m \in Nodes : down[a] <= age[m] + 1 => down'[a] <= age[m] + 1
      BY <2>4, OldIsNatural DEF NodeUp, TypeOK
    <3> QED BY <2>4, <3>1 DEF NodeUp, HeartbeatsAreBacked
  <2>5. CASE RestartAPI
    BY <2>5 DEF RestartAPI, HeartbeatsAreBacked
  <2>6. CASE Tick
    <3> SUFFICES ASSUME NEW n \in Nodes, age'[n] <= MaxAge
                 PROVE  \/ since' <= age'[n]
                        \/ \E a \in Nodes : n \in Bridge[a] /\ down'[a] <= age'[n] + 1
      BY DEF HeartbeatsAreBacked
    <3>1. age[n] \in Nat /\ age'[n] = age[n] + 1 /\ age[n] <= MaxAge
      BY <2>6, OldIsNatural, RunnerAssumption DEF Tick, TypeOK, Older, Old
    <3>2. CASE since <= age[n]
      <4>1. since' <= since + 1
        BY <2>6, OldIsNatural DEF Tick, TypeOK, Older
      <4> QED BY <2>6, <3>1, <3>2, <4>1, OldIsNatural DEF Tick, TypeOK, Older
    <3>3. CASE \E a \in Nodes : n \in Bridge[a] /\ down[a] <= age[n] + 1
      <4>1. PICK a \in Nodes : n \in Bridge[a] /\ down[a] <= age[n] + 1
        BY <3>3
      <4>2. down'[a] <= age[n] + 2
        BY <2>6, <3>1, <4>1, OldIsNatural DEF Tick, TypeOK
      <4> QED BY <3>1, <4>1, <4>2
    <3> QED BY <3>1, <3>2, <3>3 DEF HeartbeatsAreBacked
  <2>7. ASSUME NEW c \in Callers,
               \/ \E n \in Nodes, x \in Commands : Execute(c, n, x)
               \/ End(c) \/ Answer(c) \/ GiveUp(c) \/ ClientGone(c)
        PROVE  HeartbeatsAreBacked'
    BY <2>1, <2>7 DEF Execute, End, Answer, GiveUp, ClientGone, Abandon
  <2>8. ASSUME NEW o \in orphans, EndOrphan(o) PROVE HeartbeatsAreBacked'
    BY <2>1, <2>8 DEF EndOrphan
  <2>9. CASE UNCHANGED vars
    BY <2>1, <2>9 DEF vars
  <2> QED BY <2>2, <2>3, <2>4, <2>5, <2>6, <2>7, <2>8, <2>9 DEF Next
<1> QED BY <1>1, <1>2, TypeCorrect, PTL DEF Spec

=============================================================================
