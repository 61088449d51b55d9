--------------------------- MODULE BreakGlassProofs ---------------------------
(***************************************************************************)
(* Theorems of BreakGlass, for any number of callers, any durations and    *)
(* any bound of the clock.  TypeOK, which holds the mutual exclusion, is   *)
(* inductive; the other two are strengthened by what a call inside the     *)
(* service knows.                                                          *)
(***************************************************************************)
EXTENDS BreakGlass, TLAPS

(* A call that enables was asked for one of the durations. *)
DurationsAreRequested ==
  \A c \in Callers : calls[c].pc # "idle" /\ calls[c].op = "enable"
                       => calls[c].duration \in Durations

(* A command that succeeded has left its effect, until its call has        *)
(* written the switch.                                                     *)
EffectsStand ==
  \A c \in Callers : calls[c].pc = "write" /\ calls[c].ok /\ HasCommand(calls[c].op)
                       => ssh = Effect(calls[c].op)

(* Unless a hook has run and its call has not written the switch yet, a    *)
(* difference is explained.                                                *)
ExplainedOutsideWrites ==
  \/ \E c \in Callers : calls[c].pc = "write"
  \/ enabled <=> ssh = "open"
  \/ lastError
  \/ lapse

Inside == DurationsAreRequested /\ EffectsStand

-----------------------------------------------------------------------------
LEMMA GrantIsNatural == ASSUME NEW d \in Nat PROVE Grant(d) \in Nat
BY BreakGlassAssumption DEF Grant, Clamp

LEMMA IdleIsACall == Idle \in Call
BY DEF Idle, Call, PCs, Ops

(* What entering and leaving do to the one call, as facts of its record.   *)
LEMMA EnterEffect ==
  ASSUME TypeOK, NEW c \in Callers, NEW op \in Ops, NEW d \in Nat, Enter(c, op, d)
  PROVE  /\ mutex = NoOne /\ mutex' = c
         /\ calls' \in [Callers -> Call]
         /\ \A e \in Callers : calls[e].pc = "idle"
         /\ \A e \in Callers : e # c => calls'[e] = calls[e]
         /\ calls'[c].pc = "hook" /\ calls'[c].op = op /\ calls'[c].duration = d
         /\ UNCHANGED <<hooks, now, enabled, enabledUntil, lastError, ssh, lapse>>
<1>1. [pc |-> "hook", op |-> op, duration |-> d, ok |-> TRUE] \in Call
  BY DEF Call, PCs
<1>2. \A e \in Callers : calls[e].pc = "idle"
  BY BreakGlassAssumption DEF TypeOK, Enter
<1>3. calls'[c] = [pc |-> "hook", op |-> op, duration |-> d, ok |-> TRUE]
  BY DEF TypeOK, Enter
<1> QED BY <1>1, <1>2, <1>3 DEF TypeOK, Enter

(* After entering, and after leaving, the mutex is held by the one inside. *)
LEMMA EnterTypeOK ==
  ASSUME TypeOK, NEW c \in Callers, NEW op \in Ops, NEW d \in Nat, Enter(c, op, d)
  PROVE  TypeOK'
<1>1. \A e \in Callers : calls'[e].pc # "idle" <=> mutex' = e
  BY EnterEffect
<1> QED BY <1>1, EnterEffect DEF TypeOK, Enter

LEMMA LeaveEffect ==
  ASSUME TypeOK, NEW c \in Callers, NEW op \in Ops, Leave(c, op)
  PROVE  /\ mutex = c /\ mutex' = NoOne
         /\ calls[c].pc = "write" /\ calls[c].op = op
         /\ calls' \in [Callers -> Call]
         /\ \A e \in Callers : calls'[e].pc = "idle"
<1>1. calls[c] \in Call
  BY DEF TypeOK
<1>2. [calls[c] EXCEPT !.pc = "idle"] \in Call
  BY <1>1 DEF Call, PCs
<1>3. [calls[c] EXCEPT !.pc = "idle"].pc = "idle"
  BY <1>1 DEF Call
<1>4. mutex = c /\ \A e \in Callers : e # c => calls[e].pc = "idle"
  BY DEF TypeOK, Leave
<1> QED BY <1>1, <1>2, <1>3, <1>4 DEF TypeOK, Leave

LEMMA HookEffect ==
  ASSUME TypeOK, NEW c \in Callers, RunHook(c)
  PROVE  /\ mutex = c /\ calls[c].pc = "hook"
         /\ calls' \in [Callers -> Call]
         /\ \A e \in Callers : e # c => calls'[e] = calls[e] /\ calls[e].pc = "idle"
         /\ calls'[c].pc = "write"
         /\ calls'[c].op = calls[c].op /\ calls'[c].duration = calls[c].duration
         /\ calls'[c].ok /\ HasCommand(calls[c].op) => ssh' = Effect(calls[c].op)
         /\ ssh' \in {ssh, Effect(calls[c].op)}
         /\ UNCHANGED <<hooks, now, enabled, enabledUntil, lastError, mutex, lapse>>
<1>1. calls[c] \in Call
  BY DEF TypeOK
<1>2. ASSUME NEW b \in BOOLEAN
      PROVE  LET r == [calls[c] EXCEPT !.pc = "write", !.ok = b]
             IN  r \in Call /\ r.pc = "write" /\ r.op = calls[c].op
                   /\ r.duration = calls[c].duration /\ r.ok = b
  BY <1>1 DEF Call, PCs
<1>3. mutex = c /\ \A e \in Callers : e # c => calls[e].pc = "idle"
  BY DEF TypeOK, RunHook
<1>4. CASE /\ ssh' = IF HasCommand(calls[c].op) THEN Effect(calls[c].op) ELSE ssh
           /\ calls' = [calls EXCEPT ![c] = [@ EXCEPT !.pc = "write", !.ok = TRUE]]
  BY <1>1, <1>2, <1>3, <1>4 DEF TypeOK, RunHook
<1>5. CASE /\ ssh' \in {ssh, Effect(calls[c].op)}
           /\ calls' = [calls EXCEPT ![c] = [@ EXCEPT !.pc = "write", !.ok = FALSE]]
  BY <1>1, <1>2, <1>3, <1>5 DEF TypeOK, RunHook
<1> QED BY <1>4, <1>5 DEF RunHook

-----------------------------------------------------------------------------
(* The service is entered by one call at a time, and every variable keeps  *)
(* its type (service.go:12-113).                                           *)
THEOREM TypeCorrect == Spec => []TypeOK
<1>1. Init => TypeOK
  <2>1. \A c \in Callers : Idle.pc = "idle" /\ c # NoOne
    BY BreakGlassAssumption DEF Idle
  <2>2. ASSUME Init PROVE TypeOK
    <3>1. calls \in [Callers -> Call] /\ \A c \in Callers : calls[c].pc # "idle" <=> mutex = c
      BY <2>1, <2>2, IdleIsACall DEF Init
    <3> QED BY <2>2, <3>1 DEF Init, TypeOK
  <2> QED BY <2>2
<1>2. TypeOK /\ [Next]_vars => TypeOK'
  <2> SUFFICES ASSUME TypeOK, [Next]_vars PROVE TypeOK'
    OBVIOUS
  <2>1. ASSUME NEW c \in Callers, NEW d \in Durations, Enable(c, d) PROVE TypeOK'
    <3>1. d \in Nat /\ "enable" \in Ops
      BY BreakGlassAssumption DEF Ops
    <3> QED BY <2>1, <3>1, EnterTypeOK DEF Enable
  <2>2. ASSUME NEW c \in Callers, Disable(c) PROVE TypeOK'
    <3>1. 0 \in Nat /\ "disable" \in Ops
      BY DEF Ops
    <3> QED BY <2>2, <3>1, EnterTypeOK DEF Disable
  <2>3. ASSUME NEW c \in Callers, StatusExpired(c) PROVE TypeOK'
    <3>1. 0 \in Nat /\ "expire" \in Ops
      BY DEF Ops
    <3> QED BY <2>3, <3>1, EnterTypeOK DEF StatusExpired
  <2>4. ASSUME NEW c \in Callers, RunHook(c) PROVE TypeOK'
    BY <2>4, HookEffect DEF TypeOK, Effect
  <2>5. ASSUME NEW c \in Callers, EnableWrite(c) PROVE TypeOK'
    <3>1. "enable" \in Ops /\ calls[c].duration \in Nat /\ calls[c].ok \in BOOLEAN
      BY DEF Ops, TypeOK, Call
    <3>2. Grant(calls[c].duration) \in Nat
      BY <3>1, GrantIsNatural
    <3>3. lapse' \in BOOLEAN
      BY <2>5 DEF EnableWrite, LapseAfter, TypeOK
    <3>4. enabledUntil' \in Nat
      BY <2>5, <3>2 DEF EnableWrite, TypeOK
    <3>5. enabled' \in BOOLEAN /\ lastError' \in BOOLEAN
      BY <2>5, <3>1 DEF EnableWrite, TypeOK
    <3>6. /\ UNCHANGED <<hooks, now, ssh>> /\ mutex' = NoOne
          /\ calls' \in [Callers -> Call]
          /\ \A e \in Callers : calls'[e].pc = "idle"
      BY <2>5, <3>1, LeaveEffect DEF EnableWrite
    <3> QED BY <3>3, <3>4, <3>5, <3>6, BreakGlassAssumption DEF TypeOK
  <2>6. ASSUME NEW c \in Callers, DisableWrite(c) PROVE TypeOK'
    <3>1. "disable" \in Ops /\ calls[c].ok \in BOOLEAN
      BY DEF Ops, TypeOK, Call
    <3> QED BY <2>6, <3>1, LeaveEffect, BreakGlassAssumption
           DEF DisableWrite, LapseAfter, TypeOK
  <2>7. ASSUME NEW c \in Callers, ExpireWrite(c) PROVE TypeOK'
    <3>1. "expire" \in Ops /\ calls[c].ok \in BOOLEAN
      BY DEF Ops, TypeOK, Call
    <3> QED BY <2>7, <3>1, LeaveEffect, BreakGlassAssumption DEF ExpireWrite, TypeOK
  <2>8. CASE Tick
    BY <2>8 DEF Tick, TypeOK
  <2>9. CASE Restart
    <3>1. \A c \in Callers : Idle.pc = "idle" /\ c # NoOne
      BY BreakGlassAssumption DEF Idle
    <3>2. ssh' \in {"open", "closed"}
      BY <2>9 DEF Restart, TypeOK, Effect
    <3> QED BY <2>9, <3>1, <3>2, IdleIsACall DEF Restart, TypeOK
  <2>10. CASE UNCHANGED vars
    BY <2>10 DEF vars, TypeOK
  <2> QED BY <2>1, <2>2, <2>3, <2>4, <2>5, <2>6, <2>7, <2>8, <2>9, <2>10 DEF Next, Step
<1> QED BY <1>1, <1>2, PTL DEF Spec

-----------------------------------------------------------------------------
LEMMA InsideInitially == Init => Inside
BY DEF Init, Inside, DurationsAreRequested, EffectsStand, Idle

(* What a call inside knows stays true: no other call can be inside.       *)
LEMMA InsideStep == TypeOK /\ Inside /\ [Next]_vars => Inside'
<1> SUFFICES ASSUME TypeOK, Inside, [Next]_vars PROVE Inside'
  OBVIOUS
<1> USE DEF Inside, DurationsAreRequested, EffectsStand, HasCommand
<1>1. ASSUME NEW c \in Callers, NEW op \in Ops, NEW d \in Nat, Enter(c, op, d),
             op = "enable" => d \in Durations
      PROVE  Inside'
  BY <1>1, EnterEffect
<1>2. ASSUME NEW c \in Callers, NEW op \in Ops, Leave(c, op) PROVE Inside'
  BY <1>2, LeaveEffect
<1>3. ASSUME NEW c \in Callers, NEW d \in Durations, Enable(c, d) PROVE Inside'
  BY <1>1, <1>3, BreakGlassAssumption DEF Enable, Ops
<1>4. ASSUME NEW c \in Callers, Disable(c) PROVE Inside'
  BY <1>1, <1>4 DEF Disable, Ops
<1>5. ASSUME NEW c \in Callers, StatusExpired(c) PROVE Inside'
  BY <1>1, <1>5 DEF StatusExpired, Ops
<1>6. ASSUME NEW c \in Callers, RunHook(c) PROVE Inside'
  BY <1>6, HookEffect
<1>7. ASSUME NEW c \in Callers, EnableWrite(c) PROVE Inside'
  BY <1>2, <1>7 DEF EnableWrite, Ops
<1>8. ASSUME NEW c \in Callers, DisableWrite(c) PROVE Inside'
  BY <1>2, <1>8 DEF DisableWrite, Ops
<1>9. ASSUME NEW c \in Callers, ExpireWrite(c) PROVE Inside'
  BY <1>2, <1>9 DEF ExpireWrite, Ops
<1>10. CASE Tick
  BY <1>10 DEF Tick
<1>11. CASE Restart
  BY <1>11 DEF Restart, Idle
<1>12. CASE UNCHANGED vars
  BY <1>12 DEF vars
<1> QED BY <1>3, <1>4, <1>5, <1>6, <1>7, <1>8, <1>9, <1>10, <1>11, <1>12 DEF Next, Step

(* What Status says is what SSH is, but for a failure that is told, a      *)
(* change without a command to run, an expiry's hook that failed, and a    *)
(* restart (service.go:36-113).                                            *)
THEOREM DifferencesExplained == Spec => []DifferenceIsExplained
<1> DEFINE IInv == ExplainedOutsideWrites
<1>1. Init => IInv
  BY DEF Init, ExplainedOutsideWrites
<1>2. TypeOK /\ Inside /\ IInv /\ [Next]_vars => IInv'
  <2> SUFFICES ASSUME TypeOK, Inside, IInv, [Next]_vars PROVE IInv'
    OBVIOUS
  <2> USE DEF ExplainedOutsideWrites
  <2>1. ASSUME NEW c \in Callers, NEW op \in Ops, NEW d \in Nat, Enter(c, op, d)
        PROVE  IInv'
    <3>1. \A e \in Callers : calls[e].pc # "write"
      BY <2>1, EnterEffect
    <3> QED BY <2>1, <3>1, EnterEffect
  <2>2. ASSUME NEW c \in Callers, NEW d \in Durations, Enable(c, d) PROVE IInv'
    BY <2>1, <2>2, BreakGlassAssumption DEF Enable, Ops
  <2>3. ASSUME NEW c \in Callers, Disable(c) PROVE IInv'
    BY <2>1, <2>3 DEF Disable, Ops
  <2>4. ASSUME NEW c \in Callers, StatusExpired(c) PROVE IInv'
    BY <2>1, <2>4 DEF StatusExpired, Ops
  <2>5. ASSUME NEW c \in Callers, RunHook(c) PROVE IInv'
    BY <2>5, HookEffect
  <2>6. ASSUME NEW c \in Callers, EnableWrite(c) PROVE IInv'
    <3>1. calls[c].ok /\ HasCommand("enable") => ssh = "open"
      BY <2>6 DEF Inside, EffectsStand, EnableWrite, Leave, Effect
    <3> QED BY <2>6, <3>1 DEF EnableWrite, Leave, LapseAfter, TypeOK, Call
  <2>7. ASSUME NEW c \in Callers, DisableWrite(c) PROVE IInv'
    <3>1. calls[c].ok /\ HasCommand("disable") => ssh = "closed"
      BY <2>7 DEF Inside, EffectsStand, DisableWrite, Leave, Effect
    <3> QED BY <2>7, <3>1 DEF DisableWrite, Leave, LapseAfter, TypeOK, Call
  <2>8. ASSUME NEW c \in Callers, ExpireWrite(c) PROVE IInv'
    <3>1. calls[c].ok /\ HasCommand("expire") => ssh = "closed"
      BY <2>8 DEF Inside, EffectsStand, ExpireWrite, Leave, Effect
    <3> QED BY <2>8, <3>1 DEF ExpireWrite, Leave, LapseAfter, TypeOK, Call
  <2>9. CASE Tick
    BY <2>9 DEF Tick
  <2>10. CASE Restart
    BY <2>10 DEF Restart
  <2>11. CASE UNCHANGED vars
    BY <2>11 DEF vars
  <2> QED BY <2>2, <2>3, <2>4, <2>5, <2>6, <2>7, <2>8, <2>9, <2>10, <2>11 DEF Next, Step
<1>3. TypeOK /\ IInv => DifferenceIsExplained
  <2> SUFFICES ASSUME TypeOK, IInv, mutex = NoOne PROVE DifferenceIsExplained
    BY DEF DifferenceIsExplained
  <2>1. \A c \in Callers : calls[c].pc # "write"
    BY BreakGlassAssumption DEF TypeOK
  <2> QED BY <2>1 DEF ExplainedOutsideWrites, DifferenceIsExplained, TypeOK
<1> QED BY <1>1, <1>2, <1>3, TypeCorrect, InsideInitially, InsideStep, PTL DEF Spec

(* No call of Enable, and no number of them, sets the deadline further     *)
(* ahead than one call can (service.go:43-58).                             *)
THEOREM DeadlinesGranted == Spec => []DeadlineIsGranted
<1>1. Init => DeadlineIsGranted
  BY DEF Init, DeadlineIsGranted
<1>2. TypeOK /\ Inside /\ DeadlineIsGranted /\ [Next]_vars => DeadlineIsGranted'
  <2> SUFFICES ASSUME TypeOK, Inside, DeadlineIsGranted, [Next]_vars PROVE DeadlineIsGranted'
    OBVIOUS
  <2>1. CASE UNCHANGED <<now, enabled, enabledUntil>>
    BY <2>1 DEF DeadlineIsGranted
  <2>2. ASSUME NEW c \in Callers, EnableWrite(c) PROVE DeadlineIsGranted'
    <3>1. CASE ~calls[c].ok
      BY <2>2, <3>1, <2>1 DEF EnableWrite, TypeOK
    <3>2. CASE calls[c].ok
      <4>1. calls[c].duration \in Durations
        BY <2>2 DEF Inside, DurationsAreRequested, EnableWrite, Leave
      <4>2. Grant(calls[c].duration) \in Nat /\ now \in Nat
        BY <4>1, GrantIsNatural, BreakGlassAssumption DEF TypeOK
      <4>3. now' = now /\ enabledUntil' = now + Grant(calls[c].duration)
        BY <2>2, <3>2 DEF EnableWrite
      <4> QED BY <4>1, <4>2, <4>3 DEF DeadlineIsGranted
    <3> QED BY <3>1, <3>2
  <2>3. ASSUME NEW c \in Callers, DisableWrite(c) PROVE DeadlineIsGranted'
    BY <2>1, <2>3 DEF DisableWrite, DeadlineIsGranted, TypeOK
  <2>4. ASSUME NEW c \in Callers, ExpireWrite(c) PROVE DeadlineIsGranted'
    BY <2>4 DEF ExpireWrite, DeadlineIsGranted
  <2>5. CASE Tick
    <3>1. \A d \in Durations : Grant(d) \in Nat
      BY GrantIsNatural, BreakGlassAssumption
    <3> HIDE DEF Grant
    <3> QED BY <2>5, <3>1 DEF Tick, DeadlineIsGranted, TypeOK
  <2>6. CASE Restart
    BY <2>6 DEF Restart, DeadlineIsGranted
  <2>7. ASSUME NEW c \in Callers, \/ \E d \in Durations : Enable(c, d)
                                  \/ Disable(c) \/ StatusExpired(c) \/ RunHook(c)
        PROVE  DeadlineIsGranted'
    BY <2>1, <2>7 DEF Enable, Disable, StatusExpired, Enter, RunHook
  <2>8. CASE UNCHANGED vars
    BY <2>1, <2>8 DEF vars
  <2> QED BY <2>2, <2>3, <2>4, <2>5, <2>6, <2>7, <2>8 DEF Next, Step
<1> QED BY <1>1, <1>2, TypeCorrect, InsideInitially, InsideStep, PTL DEF Spec

=============================================================================
