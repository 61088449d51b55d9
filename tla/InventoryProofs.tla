---------------------------- MODULE InventoryProofs ----------------------------
(***************************************************************************)
(* Theorems of Inventory, for any callers, blueprints, policies and        *)
(* machine IDs that clients choose, and any number of machines.  What a    *)
(* record says of a machine is true from the moment the machine is added,  *)
(* and stays true because the counter never gives an ID again (Counted,    *)
(* Known).  What the selection loop ends with is shown over all orders and *)
(* all turns.                                                              *)
(*                                                                         *)
(* In the last section, the theorems of SelfMigration, whose operations    *)
(* write the same inventory.                                               *)
(***************************************************************************)
EXTENDS Inventory, SelfMigration, FiniteSetTheorems, WellFoundedInduction, TLAPS

(* Among the intervals that start at 0, inclusion is the order of their    *)
(* ends, and it is well-founded.                                           *)
LEMMA LeastOf ==
  ASSUME NEW T \in SUBSET Nat, T # {}
  PROVE  \E x \in T : \A y \in T : ~(y < x)
<1> DEFINE F == {0 .. x : x \in T}
<1>1. F \subseteq FiniteSubsetsOf(Nat) /\ F # {}
  <2>1. ASSUME NEW x \in T PROVE 0 .. x \in FiniteSubsetsOf(Nat)
    <3>1. IsFiniteSet(0 .. x)
      BY FS_Interval
    <3> QED BY <3>1 DEF FiniteSubsetsOf
  <2> QED BY <2>1
<1>2. PICK I \in F : \A J \in F : <<J, I>> \notin StrictSubsetOrdering(Nat)
  <2> HIDE DEF F
  <2> QED BY <1>1, FS_StrictSubsetOrderingWellFounded, WFMin
<1>3. PICK x \in T : I = 0 .. x
  OBVIOUS
<1>4. ASSUME NEW y \in T, y < x PROVE FALSE
  <2>1. (0 .. y) \subseteq (0 .. x) /\ x \notin 0 .. y /\ x \in 0 .. x
    BY <1>4
  <2>2. (0 .. y) # (0 .. x) /\ (0 .. y) \in SUBSET Nat /\ (0 .. x) \in SUBSET Nat
    BY <2>1
  <2>3. <<0 .. y, 0 .. x>> \in StrictSubsetOrdering(Nat)
    BY <2>1, <2>2 DEF StrictSubsetOrdering
  <2> QED BY <1>2, <1>3, <2>3
<1> QED BY <1>4

(* A lookup finds a machine that has the ID.                               *)
LEMMA LookupFinds ==
  ASSUME vms \in Seq(Nat), NEW i \in DOMAIN vms
  PROVE  Lookup(vms[i]) \in DOMAIN vms /\ vms[Lookup(vms[i])] = vms[i]
<1> DEFINE T == {j \in DOMAIN vms : vms[j] = vms[i]}
<1>1. DOMAIN vms = 1 .. Len(vms) /\ Len(vms) \in Nat
  OBVIOUS
<1>2. T \in SUBSET Nat /\ i \in T
  BY <1>1
<1>3. PICK x \in T : \A y \in T : ~(y < x)
  BY <1>2, LeastOf
<1>4. x \in DOMAIN vms /\ vms[x] = vms[i] /\ \A j \in 1 .. (x - 1) : vms[j] # vms[i]
  BY <1>1, <1>3
<1> QED BY <1>4 DEF Lookup

-----------------------------------------------------------------------------
(* Every ID the counter gave is one it has counted to.                     *)
Counted == \A i \in DOMAIN vms \ given : vms[i] <= 200 + vmIDSeq

(* A machine the counter gave its ID, and the ID.                          *)
Named(d) == d.at \in DOMAIN vms \ given /\ vms[d.at] = d.id

Deploys == [name : Blueprints \cup {"none"}, id : Nat, at : Nat]
Known ==
  /\ records \in [Blueprints -> [id : Nat, at : Nat]]
  /\ deploys \in [Callers -> Deploys]
  /\ \A b \in Blueprints : records[b].at # 0 => Named(records[b])
  /\ \A c \in Callers : deploys[c].name # "none" => Named(deploys[c])

LEMMA MadeIsFinite ==
  ASSUME MachinesOK
  PROVE  IsFiniteSet(DOMAIN vms \ given) /\ vmIDSeq \in Nat
<1>1. DOMAIN vms = 1 .. Len(vms) /\ Len(vms) \in Int
  BY DEF MachinesOK
<1>2. IsFiniteSet(DOMAIN vms)
  BY <1>1, FS_Interval
<1>3. IsFiniteSet(DOMAIN vms \ given)
  BY <1>2, FS_Subset
<1> QED BY <1>3, FS_CardinalityType DEF MachinesOK

(* Adding a machine leaves the others where they are.                      *)
LEMMA AppendKeeps ==
  ASSUME MachinesOK, NEW id \in Nat, vms' = Append(vms, id)
  PROVE  /\ vms' \in Seq(Nat)
         /\ DOMAIN vms' = DOMAIN vms \cup {Len(vms) + 1}
         /\ Len(vms) + 1 \notin DOMAIN vms
         /\ vms'[Len(vms) + 1] = id
         /\ \A i \in DOMAIN vms : vms'[i] = vms[i]
BY DEF MachinesOK

(* A machine with an ID of the counter.                                    *)
LEMMA CreateKeeps ==
  ASSUME MachinesOK, Counted, CreateVM
  PROVE  /\ MachinesOK' /\ Counted'
         /\ Len(vms) + 1 \in DOMAIN vms' \ given' /\ vms'[Len(vms) + 1] = NextVMID
         /\ \A d : Named(d) => Named(d)'
<1> DEFINE n == Len(vms) + 1
<1>1. vmIDSeq \in Nat /\ NextVMID \in Nat /\ NextVMID = 200 + vmIDSeq'
  BY MadeIsFinite DEF NextVMID, CreateVM
<1>2. /\ vms' \in Seq(Nat) /\ DOMAIN vms' = DOMAIN vms \cup {n} /\ n \notin DOMAIN vms
      /\ vms'[n] = NextVMID /\ \A i \in DOMAIN vms : vms'[i] = vms[i]
  BY <1>1, AppendKeeps DEF CreateVM
<1> HIDE DEF n
<1>3. given' = given /\ given \subseteq DOMAIN vms /\ vmIDSeq' = vmIDSeq + 1
  BY DEF CreateVM, MachinesOK
<1>4. DOMAIN vms' \ given' = (DOMAIN vms \ given) \cup {n} /\ n \notin DOMAIN vms \ given
  BY <1>2, <1>3
<1>5. vmIDSeq' = Cardinality(DOMAIN vms' \ given')
  BY <1>1, <1>3, <1>4, MadeIsFinite, FS_AddElement DEF MachinesOK
<1>6. \A i \in DOMAIN vms \ given : vms'[i] = vms[i] /\ vms[i] \in Nat /\ vms[i] < NextVMID
  <2>1. ASSUME NEW i \in DOMAIN vms \ given PROVE vms[i] \in Nat /\ vms[i] <= 200 + vmIDSeq
    <3>1. vms \in Seq(Nat) /\ i \in DOMAIN vms
      BY DEF MachinesOK
    <3>2. vms[i] \in Nat
      BY <3>1
    <3> QED BY <3>2 DEF Counted
  <2>2. NextVMID = 200 + vmIDSeq + 1
    BY DEF NextVMID
  <2> HIDE DEF NextVMID
  <2> QED BY <1>1, <1>2, <2>1, <2>2
<1>7. Counted'
  BY <1>1, <1>2, <1>3, <1>4, <1>6 DEF Counted
<1>8. \A i, j \in DOMAIN vms' \ given' : vms'[i] = vms'[j] => i = j
  BY <1>1, <1>2, <1>4, <1>6 DEF MachinesOK
<1>9. \A d : Named(d) => Named(d)'
  BY <1>4, <1>6 DEF Named
<1> QED BY <1>2, <1>3, <1>4, <1>5, <1>7, <1>8, <1>9 DEF MachinesOK, n

(* A machine with an ID of the client's.                                   *)
LEMMA CloneKeeps ==
  ASSUME MachinesOK, Counted, NEW id \in GivenIDs, CloneAs(id)
  PROVE  MachinesOK' /\ Counted' /\ \A d : Named(d) => Named(d)'
<1> DEFINE n == Len(vms) + 1
<1>1. id \in Nat
  BY InventoryAssumption
<1>2. /\ vms' \in Seq(Nat) /\ DOMAIN vms' = DOMAIN vms \cup {n} /\ n \notin DOMAIN vms
      /\ \A i \in DOMAIN vms : vms'[i] = vms[i]
  BY <1>1, AppendKeeps DEF CloneAs
<1>3. given' = given \cup {n} /\ given \subseteq DOMAIN vms /\ vmIDSeq' = vmIDSeq
  BY DEF CloneAs, MachinesOK
<1> HIDE DEF n
<1>4. DOMAIN vms' \ given' = DOMAIN vms \ given /\ given' \subseteq DOMAIN vms'
  BY <1>2, <1>3
<1>5. \A i \in DOMAIN vms \ given : vms'[i] = vms[i]
  BY <1>2
<1>6. MachinesOK'
  BY <1>2, <1>3, <1>4, <1>5 DEF MachinesOK
<1>7. Counted'
  BY <1>3, <1>4, <1>5 DEF Counted
<1>8. \A d : Named(d) => Named(d)'
  BY <1>4, <1>5 DEF Named
<1> QED BY <1>6, <1>7, <1>8

LEMMA KnownKeeps ==
  ASSUME Known, \A d : Named(d) => Named(d)', UNCHANGED <<records, deploys>>
  PROVE  Known'
BY DEF Known

(* What the names and positions of machines rest on.                       *)
MachineInv == MachinesOK /\ Counted /\ Known

LEMMA MachineInvHolds == Spec => []MachineInv
<1>1. Init => MachineInv
  <2> SUFFICES ASSUME Init PROVE MachineInv
    OBVIOUS
  <2>1. vms \in Seq(Nat) /\ given = DOMAIN vms /\ vmIDSeq = 0
    BY DEF Init, Seeds
  <2>2. Cardinality(DOMAIN vms \ given) = 0
    BY <2>1, FS_EmptySet
  <2> QED BY <2>1, <2>2 DEF Init, MachineInv, MachinesOK, Counted, Known, Deploys
<1>2. MachineInv /\ [Next]_vars => MachineInv'
  <2> SUFFICES ASSUME MachineInv, [Next]_vars PROVE MachineInv'
    OBVIOUS
  <2> USE DEF MachineInv
  <2>1. CASE MakeMachine
    <3>1. MachinesOK' /\ Counted' /\ \A d : Named(d) => Named(d)'
      BY <2>1, CreateKeeps, CloneKeeps DEF MakeMachine
    <3>2. UNCHANGED <<records, deploys>>
      BY <2>1 DEF MakeMachine
    <3> QED BY <3>1, <3>2, KnownKeeps
  <2>2. ASSUME NEW c \in Callers, NEW b \in Blueprints, Provision(c, b) PROVE MachineInv'
    <3>0. PICK r : r = [name |-> b, id |-> NextVMID, at |-> Len(vms) + 1]
      OBVIOUS
    <3>1. /\ MachinesOK' /\ Counted' /\ \A d : Named(d) => Named(d)'
          /\ Len(vms) + 1 \in DOMAIN vms' \ given' /\ vms'[Len(vms) + 1] = NextVMID
      BY <2>2, CreateKeeps DEF Provision
    <3>2. Named(r)'
      BY <3>0, <3>1 DEF Named
    <3>3. r \in Deploys
      BY <3>0, MadeIsFinite DEF Deploys, NextVMID, MachinesOK
    <3>4. deploys' = [deploys EXCEPT ![c] = r] /\ records' = records
      BY <2>2, <3>0 DEF Provision
    <3>5. Known'
      BY <3>1, <3>2, <3>3, <3>4 DEF Known
    <3> QED BY <3>1, <3>5
  <2>3. ASSUME NEW c \in Callers, Record(c) PROVE MachineInv'
    <3> DEFINE d == deploys[c]
               r == [id |-> d.id, at |-> d.at]
               none == [name |-> "none", id |-> 0, at |-> 0]
    <3>1. d.name \in Blueprints /\ r \in [id : Nat, at : Nat] /\ Named(r)
      BY <2>3 DEF Record, Known, Deploys, Named
    <3>2. none \in Deploys /\ none.name = "none"
      BY DEF Deploys
    <3>3. /\ records' = [records EXCEPT ![d.name] = r]
          /\ deploys' = [deploys EXCEPT ![c] = none]
          /\ UNCHANGED <<vms, vmIDSeq, given>>
      BY <2>3 DEF Record, machineVars
    <3> HIDE DEF d, r, none
    <3>4. \A e : Named(e) => Named(e)'
      BY <3>3 DEF Named
    <3>5. Known'
      BY <3>1, <3>2, <3>3, <3>4 DEF Known
    <3> QED BY <3>3, <3>5 DEF MachinesOK, Counted
  <2>4. CASE UNCHANGED <<machineVars, records, deploys>>
    BY <2>4, KnownKeeps DEF machineVars, MachinesOK, Counted, Named
  <2>5. ASSUME NEW id \in PolicyIDs, NEW p \in Policy, Upsert(id, p) PROVE MachineInv'
    BY <2>4, <2>5 DEF Upsert
  <2>6. ASSUME NEW w \in Workloads, Explain(w) PROVE MachineInv'
    BY <2>4, <2>6 DEF Explain
  <2>7. CASE UNCHANGED vars
    BY <2>4, <2>7 DEF vars
  <2> QED BY <2>1, <2>2, <2>3, <2>5, <2>6, <2>7 DEF Next
<1> QED BY <1>1, <1>2, PTL DEF Spec

(* The record of a deployed blueprint leads to the machine the deployment  *)
(* made, unless a machine whose ID no counter gave comes before it         *)
(* (store/memory.go:190-193, 361-404, proxmox/client.go:607-641).          *)
THEOREM RecordsLead == Spec => []RecordsResolve
<1>1. MachineInv => RecordsResolve
  <2> SUFFICES ASSUME MachineInv, NEW b \in Blueprints, records[b].at # 0
               PROVE  Lookup(records[b].id) \in {records[b].at} \cup given
    BY DEF RecordsResolve
  <2> DEFINE at == records[b].at
             found == Lookup(records[b].id)
  <2>1. at \in DOMAIN vms \ given /\ vms[at] = records[b].id
    BY DEF MachineInv, Known, Named
  <2>2. found \in DOMAIN vms /\ vms[found] = vms[at]
    BY <2>1, LookupFinds DEF MachineInv, MachinesOK
  <2> HIDE DEF at, found
  <2>3. found \in {at} \cup given
    BY <2>1, <2>2 DEF MachineInv, MachinesOK
  <2> QED BY <2>3 DEF at, found
<1> QED BY <1>1, MachineInvHolds, PTL

-----------------------------------------------------------------------------
(* What the loop over a workload's policies can select.  Facts about every *)
(* turn of the loop are shown at the least turn that would break them.     *)
PoliciesOK ==
  /\ policies \in [DOMAIN policies -> Policy] /\ DOMAIN policies \subseteq PolicyIDs
  /\ IsFiniteSet(DOMAIN policies)

LEMMA CandidatesTyped ==
  ASSUME PoliciesOK, NEW w
  PROVE  /\ IsFiniteSet(Candidates(w)) /\ Cardinality(Candidates(w)) \in Nat
         /\ Candidates(w) # {} => Cardinality(Candidates(w)) > 0
         /\ \A id \in Candidates(w) : /\ id \in PolicyIDs
                                      /\ policies[id].priority \in Nat
                                      /\ policies[id].override \in BOOLEAN
<1>1. Candidates(w) \subseteq DOMAIN policies
  BY DEF Candidates
<1>2. IsFiniteSet(Candidates(w))
  BY <1>1, FS_Subset DEF PoliciesOK
<1>3. \A id \in Candidates(w) : policies[id] \in Policy
  BY <1>1 DEF PoliciesOK
<1>4. \A id \in Candidates(w) : policies[id].priority \in Nat /\ policies[id].override \in BOOLEAN
  BY <1>3, InventoryAssumption DEF Policy
<1>5. Cardinality(Candidates(w)) \in Nat /\ (Candidates(w) # {} => Cardinality(Candidates(w)) # 0)
  BY <1>2, FS_CardinalityType, FS_EmptySet
<1> QED BY <1>1, <1>2, <1>4, <1>5 DEF PoliciesOK

LEMMA OutcomesAreCandidates ==
  ASSUME PoliciesOK, NEW w, Candidates(w) # {}, NEW id \in Outcomes(w)
  PROVE  id \in Candidates(w)
<1> DEFINE n == Cardinality(Candidates(w))
<1>1. n \in Nat /\ n > 0
  BY CandidatesTyped
<1>2. PICK s \in [1 .. n -> Candidates(w)] : id = s[n]
  BY DEF Outcomes
<1> QED BY <1>1, <1>2

(* The orders of a finite set: one exists, each has every element, and     *)
(* exchanging two positions of one makes another.                          *)
LEMMA OrderExists ==
  ASSUME NEW S, IsFiniteSet(S)
  PROVE  \E order : order \in SetToSeqs(S)
<1>1. PICK n \in Nat : ExistsBijection(1 .. n, S)
  BY FS_NatBijection
<1>2. Cardinality(S) = n
  BY <1>1, FS_CountingElements
<1>3. PICK f : f \in Bijection(1 .. n, S)
  BY <1>1 DEF ExistsBijection
<1>4. f \in [1 .. n -> S] /\ \A i, j \in 1 .. n : i # j => f[i] # f[j]
  BY <1>3 DEF Bijection, Injection, IsInjective
<1> QED BY <1>2, <1>4 DEF SetToSeqs

LEMMA OrderHas ==
  ASSUME NEW S, IsFiniteSet(S), NEW order \in SetToSeqs(S)
  PROVE  /\ order \in [1 .. Cardinality(S) -> S] /\ Len(order) = Cardinality(S)
         /\ \A i, j \in 1 .. Cardinality(S) : i # j => order[i] # order[j]
         /\ \A x \in S : \E i \in 1 .. Cardinality(S) : order[i] = x
<1> DEFINE n == Cardinality(S)
<1>1. n \in Nat
  BY FS_CardinalityType
<1>2. order \in [1 .. n -> S] /\ \A i, j \in 1 .. n : i # j => order[i] # order[j]
  BY DEF SetToSeqs
<1>3. Len(order) = n
  BY <1>1, <1>2
<1>4. IsFiniteSet(1 .. n) /\ Cardinality(1 .. n) = n
  BY <1>1, FS_Interval
<1>5. order \in Injection(1 .. n, S)
  BY <1>2 DEF Injection, IsInjective
<1>6. order \in Surjection(1 .. n, S)
  BY <1>4, <1>5, FS_Injection
<1> QED BY <1>2, <1>3, <1>6 DEF Surjection

Exchange(order, a, b) ==
  [i \in DOMAIN order |-> IF i = a THEN order[b] ELSE IF i = b THEN order[a] ELSE order[i]]

LEMMA ExchangeOrders ==
  ASSUME NEW S, IsFiniteSet(S), NEW order \in SetToSeqs(S),
         NEW a \in 1 .. Cardinality(S), NEW b \in 1 .. Cardinality(S)
  PROVE  /\ Exchange(order, a, b) \in SetToSeqs(S)
         /\ Exchange(order, a, b)[a] = order[b]
         /\ \A i \in 1 .. Cardinality(S) : i # a /\ i # b => Exchange(order, a, b)[i] = order[i]
<1>1. order \in [1 .. Cardinality(S) -> S]
      /\ \A i, j \in 1 .. Cardinality(S) : i # j => order[i] # order[j]
  BY DEF SetToSeqs
<1>2. PICK e : e = Exchange(order, a, b)
  OBVIOUS
<1>3. /\ e \in [1 .. Cardinality(S) -> S]
      /\ \A i \in 1 .. Cardinality(S) :
           e[i] = IF i = a THEN order[b] ELSE IF i = b THEN order[a] ELSE order[i]
  BY <1>1, <1>2 DEF Exchange
<1>4. \A i, j \in 1 .. Cardinality(S) : i # j => e[i] # e[j]
  BY <1>1, <1>3
<1> QED BY <1>2, <1>3, <1>4 DEF SetToSeqs

(* An order with x at a position.                                          *)
LEMMA OrderWith ==
  ASSUME NEW S, IsFiniteSet(S), NEW x \in S, NEW a \in 1 .. Cardinality(S)
  PROVE  \E order \in SetToSeqs(S) : order[a] = x
<1>1. PICK order : order \in SetToSeqs(S)
  BY OrderExists
<1>2. PICK b \in 1 .. Cardinality(S) : order[b] = x
  BY <1>1, OrderHas
<1> QED BY <1>1, <1>2, ExchangeOrders

(* An order with x and, right after it, y at the end.                      *)
LEMMA OrderEnding ==
  ASSUME NEW S, IsFiniteSet(S), NEW x \in S, NEW y \in S, x # y
  PROVE  /\ Cardinality(S) \in Nat /\ Cardinality(S) > 1
         /\ \E order \in SetToSeqs(S) :
              order[Cardinality(S)] = y /\ order[Cardinality(S) - 1] = x
<1> DEFINE n == Cardinality(S)
<1>1. n \in Nat /\ n # 0
  BY FS_CardinalityType, FS_EmptySet
<1>2. PICK order \in SetToSeqs(S) : order[n] = y
  BY <1>1, OrderWith
<1>3. PICK b \in 1 .. n : order[b] = x
  BY <1>2, OrderHas
<1>4. b # n /\ n > 1 /\ n - 1 \in 1 .. n /\ n \in 1 .. n /\ n - 1 # n
  BY <1>1, <1>2, <1>3
<1>5. PICK a \in 1 .. n : a = n - 1
  BY <1>4
<1>6. PICK e : e = Exchange(order, a, b)
  OBVIOUS
<1>7. /\ e \in SetToSeqs(S) /\ e[a] = order[b]
      /\ \A i \in 1 .. n : i # a /\ i # b => e[i] = order[i]
  BY <1>6, ExchangeOrders
<1>8. e[n] = y /\ e[n - 1] = x
  BY <1>2, <1>3, <1>4, <1>5, <1>7
<1> QED BY <1>1, <1>4, <1>7, <1>8

(* A run of the loop over an order, up to turn k.                          *)
RunsTo(order, s, k) ==
  /\ s[1] = order[1]
  /\ \A i \in 2 .. k : s[i] = IF Beats(order[i], s[i - 1]) THEN order[i] ELSE s[i - 1]

(* Every order has a run.                                                  *)
LEMMA RunExists ==
  ASSUME NEW S, NEW n \in Nat, n > 0, NEW order \in [1 .. n -> S]
  PROVE  \E s \in [1 .. n -> S] : RunsTo(order, s, n)
<1> DEFINE T == {k \in 1 .. n : ~\E s \in [1 .. k -> S] : RunsTo(order, s, k)}
<1>1. SUFFICES ASSUME T # {} PROVE FALSE
  OBVIOUS
<1>2. T \in SUBSET Nat
  OBVIOUS
<1>3. PICK k \in T : \A j \in T : ~(j < k)
  <2> HIDE DEF T
  <2> QED BY <1>1, <1>2, LeastOf
<1>4. k \in 1 .. n /\ ~\E s \in [1 .. k -> S] : RunsTo(order, s, k)
  OBVIOUS
<1>5. CASE k = 1
  <2>1. [i \in 1 .. 1 |-> order[1]] \in [1 .. 1 -> S]
    OBVIOUS
  <2>2. RunsTo(order, [i \in 1 .. 1 |-> order[1]], 1)
    BY DEF RunsTo
  <2> QED BY <1>4, <1>5, <2>1, <2>2
<1>6. CASE k # 1
  <2>1. k - 1 \in 1 .. n /\ k - 1 < k /\ k \in Nat /\ k > 1
    BY <1>4, <1>6
  <2>2. PICK s \in [1 .. (k - 1) -> S] : RunsTo(order, s, k - 1)
    BY <1>3, <2>1
  <2>3. PICK t : t = [i \in 1 .. k |->
                        IF i < k THEN s[i]
                        ELSE IF Beats(order[k], s[k - 1]) THEN order[k] ELSE s[k - 1]]
    OBVIOUS
  <2>4. t \in [1 .. k -> S]
    BY <1>4, <2>1, <2>2, <2>3
  <2>5. \A i \in 1 .. (k - 1) : t[i] = s[i]
    BY <2>1, <2>3
  <2>6. t[k] = IF Beats(order[k], t[k - 1]) THEN order[k] ELSE t[k - 1]
    BY <2>1, <2>3, <2>5
  <2>7. t[1] = order[1]
    BY <2>1, <2>2, <2>5 DEF RunsTo
  <2>8. ASSUME NEW i \in 2 .. k
        PROVE  t[i] = IF Beats(order[i], t[i - 1]) THEN order[i] ELSE t[i - 1]
    <3>1. CASE i = k
      BY <2>6, <3>1
    <3>2. CASE i # k
      <4>1. i \in 2 .. (k - 1) /\ i \in 1 .. (k - 1) /\ i - 1 \in 1 .. (k - 1)
        BY <2>1, <3>2
      <4>2. s[i] = IF Beats(order[i], s[i - 1]) THEN order[i] ELSE s[i - 1]
        BY <2>2, <4>1 DEF RunsTo
      <4> QED BY <2>5, <4>1, <4>2
    <3> QED BY <3>1, <3>2
  <2>9. RunsTo(order, t, k)
    BY <2>7, <2>8 DEF RunsTo
  <2> QED BY <1>4, <2>4, <2>9
<1> QED BY <1>5, <1>6

(* The end of a run is an outcome.                                         *)
LEMMA RunEnds ==
  ASSUME PoliciesOK, NEW w, NEW order \in SetToSeqs(Candidates(w)),
         NEW s \in [1 .. Cardinality(Candidates(w)) -> Candidates(w)],
         RunsTo(order, s, Cardinality(Candidates(w)))
  PROVE  s[Cardinality(Candidates(w))] \in Outcomes(w)
<1>1. Len(order) = Cardinality(Candidates(w))
  BY CandidatesTyped, OrderHas
<1>2. Selects(order, s)
  BY <1>1 DEF Selects, RunsTo
<1> QED BY <1>2 DEF Outcomes

LEMMA OutcomeRuns ==
  ASSUME PoliciesOK, NEW w, NEW id \in Outcomes(w)
  PROVE  \E order \in SetToSeqs(Candidates(w)),
            s \in [1 .. Cardinality(Candidates(w)) -> Candidates(w)] :
           RunsTo(order, s, Cardinality(Candidates(w))) /\ id = s[Cardinality(Candidates(w))]
<1>1. PICK s \in [1 .. Cardinality(Candidates(w)) -> Candidates(w)],
           order \in SetToSeqs(Candidates(w)) :
        Selects(order, s) /\ id = s[Cardinality(Candidates(w))]
  BY DEF Outcomes
<1>2. Len(order) = Cardinality(Candidates(w))
  BY CandidatesTyped, OrderHas
<1> QED BY <1>1, <1>2 DEF Selects, RunsTo

(* Without an override, the loop ends at a highest priority, and, where    *)
(* one comes first, stays there.                                           *)
Highest(w) ==
  {id \in Candidates(w) : \A j \in Candidates(w) : policies[id].priority >= policies[j].priority}

LEMMA HighestSelected ==
  ASSUME PoliciesOK, NEW w, Candidates(w) # {},
         \A id \in Candidates(w) : ~policies[id].override
  PROVE  Outcomes(w) = Highest(w)
<1> DEFINE C == Candidates(w)
           n == Cardinality(C)
<1>0. /\ n \in Nat /\ n > 0 /\ IsFiniteSet(C)
      /\ \A id \in C : policies[id].priority \in Nat
  BY CandidatesTyped
<1>1. ASSUME NEW id \in Outcomes(w) PROVE id \in Highest(w)
  <2>1. PICK order \in SetToSeqs(C), s \in [1 .. n -> C] : RunsTo(order, s, n) /\ id = s[n]
    BY OutcomeRuns
  <2>2. order \in [1 .. n -> C] /\ \A x \in C : \E i \in 1 .. n : order[i] = x
    BY <1>0, OrderHas
  <2> DEFINE T == {k \in 1 .. n : \E j \in 1 .. k :
                                    policies[order[j]].priority > policies[s[k]].priority}
  <2>3. T = {}
    <3>1. SUFFICES ASSUME T # {} PROVE FALSE
      OBVIOUS
    <3>2. T \in SUBSET Nat
      OBVIOUS
    <3>3. PICK k \in T : \A j \in T : ~(j < k)
      <4> HIDE DEF T
      <4> QED BY <3>1, <3>2, LeastOf
    <3>4. k \in 1 .. n
      OBVIOUS
    <3>5. PICK j \in 1 .. k : policies[order[j]].priority > policies[s[k]].priority
      OBVIOUS
    <3>6. CASE k = 1
      <4>1. s[1] = order[1] /\ j = 1 /\ 1 \in 1 .. n
        BY <1>0, <2>1, <3>6 DEF RunsTo
      <4>2. s[k] \in C /\ order[j] = s[k]
        BY <2>1, <3>4, <3>6, <4>1
      <4> HIDE DEF C, n
      <4> QED BY <1>0, <3>5, <4>2
    <3>7. CASE k # 1
      <4>1. k - 1 \in 1 .. n /\ k - 1 < k /\ k \in 2 .. n
        BY <1>0, <3>4, <3>7
      <4>2. \A i \in 1 .. (k - 1) :
              ~(policies[order[i]].priority > policies[s[k - 1]].priority)
        BY <3>3, <4>1
      <4>3. s[k] = IF Beats(order[k], s[k - 1]) THEN order[k] ELSE s[k - 1]
        BY <2>1, <4>1 DEF RunsTo
      <4>0. j \in 1 .. n
        BY <1>0, <3>4
      <4>4. s[k] \in C /\ s[k - 1] \in C /\ order[k] \in C /\ order[j] \in C
        BY <2>1, <2>2, <3>4, <4>0, <4>1
      <4>5. j = k \/ j \in 1 .. (k - 1)
        BY <1>0, <3>4
      <4> HIDE DEF C, n, T
      <4>6. PICK a, b, c, d \in Nat : /\ a = policies[s[k]].priority /\ b = policies[s[k - 1]].priority
                                /\ c = policies[order[k]].priority /\ d = policies[order[j]].priority
        BY <1>0, <4>4
      <4>7. a = (IF c > b THEN c ELSE b)
        BY <4>3, <4>4, <4>6 DEF Beats, C
      <4>8. d = c \/ ~(d > b)
        BY <4>2, <4>5, <4>6
      <4> QED BY <3>5, <4>6, <4>7, <4>8
    <3> QED BY <3>6, <3>7
  <2>4. ASSUME NEW x \in C PROVE policies[id].priority >= policies[x].priority
    <3>1. PICK j \in 1 .. n : order[j] = x
      BY <2>2
    <3>2. ~(policies[order[j]].priority > policies[s[n]].priority)
      BY <1>0, <2>3
    <3>3. s[n] \in C
      BY <1>0, <2>1
    <3> QED BY <1>0, <2>1, <3>1, <3>2, <3>3
  <2>5. id \in C
    BY <1>0, <2>1
  <2> QED BY <2>4, <2>5 DEF Highest
<1>2. ASSUME NEW id \in Highest(w) PROVE id \in Outcomes(w)
  <2>1. id \in C /\ \A x \in C : policies[id].priority >= policies[x].priority
    BY DEF Highest
  <2>2. PICK order \in SetToSeqs(C) : order[1] = id
    BY <1>0, <2>1, OrderWith
  <2>3. order \in [1 .. n -> C]
    BY <1>0, OrderHas
  <2>4. PICK s : s = [i \in 1 .. n |-> id]
    OBVIOUS
  <2>5. s \in [1 .. n -> C] /\ s[n] = id
    BY <1>0, <2>1, <2>4
  <2>6. ASSUME NEW i \in 2 .. n PROVE ~Beats(order[i], id)
    <3>1. order[i] \in C
      BY <2>3
    <3>2. policies[id].priority >= policies[order[i]].priority /\ ~policies[order[i]].override
      BY <2>1, <3>1
    <3> QED BY <1>0, <2>1, <3>1, <3>2 DEF Beats
  <2>7. \A i \in 2 .. n : s[i] = id /\ s[i - 1] = id
    BY <1>0, <2>4
  <2>8. RunsTo(order, s, n)
    BY <1>0, <2>2, <2>4, <2>6, <2>7 DEF RunsTo
  <2> QED BY <2>5, <2>8, RunEnds
<1> QED BY <1>1, <1>2

(* With overrides, the loop ends at one of them or at what outranks one,   *)
(* and any of these can come last.                                         *)
Overriding(w) == {id \in Candidates(w) : policies[id].override}
Reachable(w) ==
  Overriding(w) \cup {id \in Candidates(w) : \E o \in Overriding(w) :
                                               policies[id].priority > policies[o].priority}

LEMMA ReachableSelected ==
  ASSUME PoliciesOK, NEW w, Overriding(w) # {}
  PROVE  Outcomes(w) = Reachable(w)
<1> DEFINE C == Candidates(w)
           n == Cardinality(C)
           O == Overriding(w)
           R == Reachable(w)
<1>a. O \subseteq C /\ O \subseteq R /\ C # {} /\ R \subseteq C
  BY DEF Overriding, Reachable
<1>0. /\ n \in Nat /\ n > 0 /\ IsFiniteSet(C)
      /\ \A id \in C : policies[id].priority \in Nat
  BY <1>a, CandidatesTyped
<1>b. ASSUME NEW x \in C, NEW y \in R, policies[x].priority > policies[y].priority
      PROVE  x \in R
  <2>1. PICK o \in O : y = o \/ policies[y].priority > policies[o].priority
    BY DEF Reachable
  <2>2. o \in C /\ y \in C
    BY <1>a, <2>1
  <2>3. policies[x].priority > policies[o].priority
    BY <1>0, <1>b, <2>1, <2>2
  <2> QED BY <2>1, <2>3 DEF Reachable
<1>1. ASSUME NEW id \in Outcomes(w) PROVE id \in R
  <2>1. PICK order \in SetToSeqs(C), s \in [1 .. n -> C] : RunsTo(order, s, n) /\ id = s[n]
    BY OutcomeRuns
  <2>2. order \in [1 .. n -> C] /\ \A x \in C : \E i \in 1 .. n : order[i] = x
    BY <1>0, OrderHas
  <2> DEFINE T == {k \in 1 .. n : (\E j \in 1 .. k : order[j] \in O) /\ s[k] \notin R}
  <2>3. T = {}
    <3>1. SUFFICES ASSUME T # {} PROVE FALSE
      OBVIOUS
    <3>2. T \in SUBSET Nat
      OBVIOUS
    <3>3. PICK k \in T : \A j \in T : ~(j < k)
      <4> HIDE DEF T
      <4> QED BY <3>1, <3>2, LeastOf
    <3>4. k \in 1 .. n /\ s[k] \notin R
      OBVIOUS
    <3>5. PICK j \in 1 .. k : order[j] \in O
      OBVIOUS
    <3>6. CASE k = 1
      <4>1. s[1] = order[1] /\ j = 1
        BY <2>1, <3>6 DEF RunsTo
      <4> QED BY <1>a, <3>4, <3>5, <3>6, <4>1
    <3>7. CASE k # 1
      <4>1. k - 1 \in 1 .. n /\ k - 1 < k /\ k \in 2 .. n
        BY <1>0, <3>4, <3>7
      <4>2. (\E i \in 1 .. (k - 1) : order[i] \in O) => s[k - 1] \in R
        BY <3>3, <4>1
      <4>3. s[k] = IF Beats(order[k], s[k - 1]) THEN order[k] ELSE s[k - 1]
        BY <2>1, <4>1 DEF RunsTo
      <4>4. s[k - 1] \in C /\ order[k] \in C
        BY <2>1, <2>2, <4>1
      <4>5. j = k \/ j \in 1 .. (k - 1)
        BY <1>0, <3>4
      <4> HIDE DEF C, n, T, O, R
      <4>6. order[k] \notin O
        <5>1. SUFFICES ASSUME order[k] \in O PROVE FALSE
          OBVIOUS
        <5>2. policies[order[k]].override
          BY <5>1 DEF O, Overriding
        <5>3. s[k] = order[k]
          BY <4>3, <5>2 DEF Beats
        <5> QED BY <1>a, <3>4, <5>1, <5>3
      <4>7. s[k - 1] \in R
        BY <3>5, <4>2, <4>5, <4>6
      <4>8. ~policies[order[k]].override
        BY <4>4, <4>6 DEF C, O, Overriding
      <4>9. Beats(order[k], s[k - 1])
        BY <3>4, <4>3, <4>7
      <4>10. policies[order[k]].priority > policies[s[k - 1]].priority
        BY <4>8, <4>9 DEF Beats
      <4>11. order[k] \in R
        BY <1>b, <4>4, <4>7, <4>10
      <4> QED BY <3>4, <4>3, <4>7, <4>11
    <3> QED BY <3>6, <3>7
  <2>4. PICK x \in O : TRUE
    OBVIOUS
  <2>5. \E j \in 1 .. n : order[j] \in O
    BY <1>a, <2>2, <2>4
  <2>6. s[n] \in R
    BY <1>0, <2>3, <2>5
  <2> QED BY <2>1, <2>6
<1>2. ASSUME NEW id \in O PROVE id \in Outcomes(w)
  <2>1. id \in C /\ policies[id].override
    BY DEF Overriding
  <2>2. PICK order \in SetToSeqs(C) : order[n] = id
    BY <1>0, <2>1, OrderWith
  <2>3. order \in [1 .. n -> C]
    BY <1>0, OrderHas
  <2>4. PICK s \in [1 .. n -> C] : RunsTo(order, s, n)
    BY <1>0, <2>3, RunExists
  <2>5. s[n] = id
    <3>1. CASE n = 1
      BY <2>2, <2>4, <3>1 DEF RunsTo
    <3>2. CASE n # 1
      <4>1. n \in 2 .. n
        BY <1>0, <3>2
      <4>2. Beats(order[n], s[n - 1])
        BY <2>1, <2>2 DEF Beats
      <4> QED BY <2>2, <2>4, <4>1, <4>2 DEF RunsTo
    <3> QED BY <3>1, <3>2
  <2> QED BY <2>4, <2>5, RunEnds
<1>3. ASSUME NEW id \in R, id \notin O PROVE id \in Outcomes(w)
  <2>1. PICK o \in O : id \in C /\ policies[id].priority > policies[o].priority
    BY <1>3 DEF Reachable
  <2>2. o \in C /\ o # id /\ policies[o].override
    BY <1>3, <2>1 DEF Overriding
  <2>3. n > 1 /\ \E order \in SetToSeqs(C) : order[n] = id /\ order[n - 1] = o
    BY <1>0, <2>1, <2>2, OrderEnding
  <2>4. PICK order \in SetToSeqs(C) : order[n] = id /\ order[n - 1] = o
    BY <2>3
  <2>5. order \in [1 .. n -> C]
    BY <1>0, OrderHas
  <2>6. PICK s \in [1 .. n -> C] : RunsTo(order, s, n)
    BY <1>0, <2>5, RunExists
  <2>7. s[n - 1] = o
    <3>1. PICK k : k = n - 1
      OBVIOUS
    <3>2. k \in 1 .. n /\ order[k] = o
      BY <1>0, <2>3, <2>4, <3>1
    <3>3. CASE k = 1
      BY <2>6, <3>1, <3>2, <3>3 DEF RunsTo
    <3>4. CASE k # 1
      <4>1. k \in 2 .. n
        BY <1>0, <3>2, <3>4
      <4>2. Beats(order[k], s[k - 1])
        BY <2>2, <3>2 DEF Beats
      <4> QED BY <2>6, <3>1, <3>2, <4>1, <4>2 DEF RunsTo
    <3> QED BY <3>3, <3>4
  <2>8. n \in 2 .. n
    BY <1>0, <2>3
  <2>9. Beats(order[n], s[n - 1])
    BY <2>1, <2>4, <2>7 DEF Beats
  <2>10. s[n] = id
    BY <2>4, <2>6, <2>8, <2>9 DEF RunsTo
  <2> QED BY <2>6, <2>10, RunEnds
<1> QED BY <1>1, <1>2, <1>3

-----------------------------------------------------------------------------
(* The types of the policies and of the newest decision.                   *)
DecisionOK ==
  decision # NoDecision => decision \in [workload : Workloads, policy : PolicyIDs]

LEMMA PoliciesHold == Spec => [](PoliciesOK /\ DecisionOK)
<1>1. Init => PoliciesOK /\ DecisionOK
  <2> SUFFICES ASSUME Init PROVE PoliciesOK /\ DecisionOK
    OBVIOUS
  <2>1. policies = <<>> /\ decision = NoDecision
    BY DEF Init
  <2>2. DOMAIN policies = {} /\ policies \in [DOMAIN policies -> Policy]
    BY <2>1
  <2> QED BY <2>1, <2>2, FS_EmptySet DEF PoliciesOK, DecisionOK
<1>2. PoliciesOK /\ DecisionOK /\ [Next]_vars => PoliciesOK' /\ DecisionOK'
  <2> SUFFICES ASSUME PoliciesOK, DecisionOK, [Next]_vars PROVE PoliciesOK' /\ DecisionOK'
    OBVIOUS
  <2>1. CASE UNCHANGED policyVars
    BY <2>1 DEF policyVars, PoliciesOK, DecisionOK
  <2>2. CASE MakeMachine
    BY <2>1, <2>2 DEF MakeMachine
  <2>3. ASSUME NEW c \in Callers, NEW b \in Blueprints, Provision(c, b)
        PROVE  PoliciesOK' /\ DecisionOK'
    BY <2>1, <2>3 DEF Provision
  <2>4. ASSUME NEW c \in Callers, Record(c) PROVE PoliciesOK' /\ DecisionOK'
    BY <2>1, <2>4 DEF Record
  <2>5. ASSUME NEW id \in PolicyIDs, NEW p \in Policy, Upsert(id, p)
        PROVE  PoliciesOK' /\ DecisionOK'
    <3>1. /\ policies' = [i \in DOMAIN policies \cup {id} |-> IF i = id THEN p ELSE policies[i]]
          /\ decision' = decision
      BY <2>5 DEF Upsert
    <3>2. DOMAIN policies' = DOMAIN policies \cup {id}
      BY <3>1
    <3>3. IsFiniteSet(DOMAIN policies')
      BY <3>2, FS_AddElement DEF PoliciesOK
    <3>4. policies' \in [DOMAIN policies' -> Policy] /\ DOMAIN policies' \subseteq PolicyIDs
      BY <3>1, <3>2 DEF PoliciesOK
    <3> QED BY <3>1, <3>3, <3>4 DEF PoliciesOK, DecisionOK
  <2>6. ASSUME NEW w \in Workloads, Explain(w) PROVE PoliciesOK' /\ DecisionOK'
    <3>1. PICK id \in Outcomes(w) : decision' = [workload |-> w, policy |-> id]
      BY <2>6 DEF Explain
    <3>2. id \in PolicyIDs
      BY <2>6, OutcomesAreCandidates, CandidatesTyped DEF Explain
    <3>3. policies' = policies
      BY <2>6 DEF Explain
    <3> QED BY <3>1, <3>2, <3>3 DEF PoliciesOK, DecisionOK
  <2>7. CASE UNCHANGED vars
    BY <2>1, <2>7 DEF vars, policyVars
  <2> QED BY <2>2, <2>3, <2>4, <2>5, <2>6, <2>7 DEF Next
<1> QED BY <1>1, <1>2, PTL DEF Spec

(* Every variable keeps its type, and the counter repeats none of its IDs  *)
(* (store/memory.go:190-193, 361-404).                                     *)
THEOREM TypeCorrect == Spec => []TypeOK
<1>1. MachineInv /\ PoliciesOK /\ DecisionOK => TypeOK
  BY DEF MachineInv, Known, Deploys, PoliciesOK, DecisionOK, TypeOK
<1> QED BY <1>1, MachineInvHolds, PoliciesHold, PTL

(* What the loop can select: without an override a highest priority, with  *)
(* overrides any of them and whatever outranks one, for any number of      *)
(* policies (store/memory.go:585-597).                                     *)
THEOREM SelectionsMatch == Spec => []SelectionMatches
<1>1. PoliciesOK => SelectionMatches
  <2> SUFFICES ASSUME PoliciesOK, NEW w \in Workloads, Candidates(w) # {}
               PROVE  Outcomes(w) = IF Overriding(w) = {} THEN Highest(w) ELSE Reachable(w)
    BY DEF SelectionMatches, Candidates, Overriding, Highest, Reachable
  <2>1. CASE Overriding(w) = {}
    BY <2>1, HighestSelected DEF Overriding
  <2>2. CASE Overriding(w) # {}
    BY <2>2, ReachableSelected
  <2> QED BY <2>1, <2>2
<1> QED BY <1>1, PoliciesHold, PTL

-----------------------------------------------------------------------------
(* SelfMigration, for any callers, machines, nodes and targets, with and   *)
(* without the Proxmox API.  What a call does reaches its own machine and  *)
(* the endpoint only (CallFrame); a call that is still alone on its machine *)
(* finds at each step what it left at the step before (LoneCall), and      *)
(* whoever is on a machine that is not spoiled is alone (Agreement).       *)

PCs == {"idle", "check", "source", "post", "store", "switch"}

(* A call that goes on, or returns. *)
Moves(c, pc) ==
  /\ calls' \in [Migrators -> Call]
  /\ calls'[c].pc = pc
  /\ pc # "idle" => /\ calls'[c].op = calls[c].op /\ calls'[c].vm = calls[c].vm
                    /\ calls'[c].target = calls[c].target
                    /\ calls'[c].alone = calls[c].alone
  /\ \A d \in Migrators : d # c => calls'[d] = calls[d]

LEMMA IdleTyped == IdleCall \in Call /\ IdleCall.pc = "idle"
BY MigrationAssumption DEF IdleCall, Call, Ops, Place, Home

LEMMA GoMoves ==
  ASSUME MTypeOK, NEW c \in Migrators, NEW pc \in PCs, Go(c, pc)
  PROVE  Moves(c, pc)
<1>1. calls \in [Migrators -> Call] /\ calls[c] \in Call
  BY DEF MTypeOK
<1> DEFINE r == [calls[c] EXCEPT !.pc = pc]
<1>2. /\ r \in Call /\ r.pc = pc /\ r.op = calls[c].op /\ r.vm = calls[c].vm
      /\ r.target = calls[c].target /\ r.alone = calls[c].alone
  BY <1>1 DEF Call, PCs
<1>3. calls' = [calls EXCEPT ![c] = r]
  BY DEF Go
<1> HIDE DEF r
<1> QED BY <1>1, <1>2, <1>3 DEF Moves

LEMMA ReturnMoves ==
  ASSUME MTypeOK, NEW c \in Migrators, Return(c)
  PROVE  Moves(c, "idle")
BY IdleTyped DEF MTypeOK, Return, Moves

LEMMA ReadSourceMoves ==
  ASSUME MTypeOK, NEW c \in Migrators, ReadSource(c)
  PROVE  Moves(c, "post")
<1>1. PICK source \in {live[calls[c].vm], stored[calls[c].vm]} :
        calls' = [calls EXCEPT ![c] = [calls[c] EXCEPT !.pc = "post", !.source = source]]
  BY DEF ReadSource
<1>2. calls \in [Migrators -> Call] /\ calls[c] \in Call
  BY DEF MTypeOK
<1>3. source \in Place
  BY <1>2 DEF MTypeOK, Call
<1> DEFINE r == [calls[c] EXCEPT !.pc = "post", !.source = source]
<1>4. /\ r \in Call /\ r.pc = "post" /\ r.op = calls[c].op /\ r.vm = calls[c].vm
      /\ r.target = calls[c].target /\ r.alone = calls[c].alone
  BY <1>2, <1>3 DEF Call
<1>5. calls' = [calls EXCEPT ![c] = r]
  BY <1>1
<1> HIDE DEF r
<1> QED BY <1>2, <1>4, <1>5 DEF Moves

(* A call that begins. *)
LEMMA BeginSets ==
  ASSUME MTypeOK, NEW c \in Migrators, NEW op \in Ops, NEW vm \in Guests,
         NEW t \in Targets, Begin(c, op, vm, t)
  PROVE  /\ calls' \in [Migrators -> Call]
         /\ calls[c].pc = "idle"
         /\ calls'[c].pc = IF op = "self" THEN "check" ELSE MigrateEntry
         /\ calls'[c].op = op /\ calls'[c].vm = vm
         /\ calls'[c].alone = (On(vm) = {})
         /\ \A d \in Migrators : d # c =>
              /\ calls'[d].pc = calls[d].pc /\ calls'[d].op = calls[d].op
              /\ calls'[d].vm = calls[d].vm /\ calls'[d].target = calls[d].target
              /\ calls'[d].alone = (calls[d].alone /\ d \notin On(vm))
<1>1. calls \in [Migrators -> Call]
  BY DEF MTypeOK
<1> DEFINE b == [pc |-> IF op = "self" THEN "check" ELSE MigrateEntry, op |-> op, vm |-> vm,
                 target |-> t, source |-> Home, alone |-> On(vm) = {}]
           k(d) == [calls[d] EXCEPT !.alone = calls[d].alone /\ d \notin On(vm)]
<1>2. /\ b \in Call /\ b.pc = (IF op = "self" THEN "check" ELSE MigrateEntry)
      /\ b.op = op /\ b.vm = vm /\ b.alone = (On(vm) = {})
  BY MigrationAssumption DEF Call, Place, MigrateEntry, Home
<1>3. ASSUME NEW d \in Migrators
      PROVE  /\ k(d) \in Call /\ k(d).pc = calls[d].pc /\ k(d).op = calls[d].op
             /\ k(d).vm = calls[d].vm /\ k(d).target = calls[d].target
             /\ k(d).alone = (calls[d].alone /\ d \notin On(vm))
  <2>1. calls[d] \in Call
    BY <1>1
  <2> QED BY <2>1 DEF Call
<1>4. calls' = [d \in Migrators |-> IF d = c THEN b ELSE k(d)]
  BY DEF Begin
<1>5. calls[c].pc = "idle"
  BY DEF Begin
<1> HIDE DEF b, k
<1>6. calls'[c] = b /\ \A d \in Migrators : d # c => calls'[d] = k(d)
  BY <1>4
<1>7. calls' \in [Migrators -> Call]
  BY <1>2, <1>3, <1>4
<1> QED BY <1>2, <1>3, <1>5, <1>6, <1>7

-----------------------------------------------------------------------------
(* What a call in progress does. *)
Acts(c) == \/ Check(c) \/ ReadSource(c) \/ PostOK(c) \/ PostError(c) \/ PostLost(c)
           \/ StoreMigration(c) \/ SwitchTo(c)

(* Where it goes; only a self-migration goes to the endpoint. *)
LEMMA ActMoves ==
  ASSUME MTypeOK, NEW c \in Migrators, Acts(c)
  PROVE  /\ calls[c].pc # "idle"
         /\ \E pc \in PCs : Moves(c, pc) /\ (pc \in {"check", "switch"} => calls[c].op = "self")
<1>1. CASE Check(c)
  <2>1. Go(c, MigrateEntry) \/ Return(c)
    BY <1>1 DEF Check
  <2>2. MigrateEntry \in PCs /\ MigrateEntry \notin {"check", "switch"}
    BY DEF MigrateEntry, PCs
  <2>3. Moves(c, MigrateEntry) \/ Moves(c, "idle")
    BY <2>1, <2>2, GoMoves, ReturnMoves
  <2> QED BY <1>1, <2>2, <2>3 DEF Check, PCs
<1>2. CASE ReadSource(c)
  BY <1>2, ReadSourceMoves DEF ReadSource, PCs
<1>3. CASE PostOK(c)
  <2>1. Moves(c, "store")
    BY <1>3, GoMoves DEF PostOK, PCs
  <2> QED BY <1>3, <2>1 DEF PostOK, StartTask, PCs
<1>4. CASE PostError(c) \/ PostLost(c) \/ SwitchTo(c)
  BY <1>4, ReturnMoves DEF PostError, PostLost, StartTask, SwitchTo, PCs
<1>5. CASE StoreMigration(c)
  <2>1. CASE calls[c].op = "self"
    <3>1. Moves(c, "switch")
      BY <1>5, <2>1, GoMoves DEF StoreMigration, PCs
    <3> QED BY <1>5, <2>1, <3>1 DEF StoreMigration, Store, PCs
  <2>2. CASE calls[c].op # "self"
    BY <1>5, <2>2, ReturnMoves DEF StoreMigration, Store, PCs
  <2> QED BY <2>1, <2>2
<1> QED BY <1>1, <1>2, <1>3, <1>4, <1>5 DEF Acts

(* What it writes, and that it leaves every other machine alone. *)
LEMMA ActTypes ==
  ASSUME MTypeOK, NEW c \in Migrators, Acts(c)
  PROVE  /\ live' \in [Guests -> Place] /\ heading' \in [Guests -> Place]
         /\ stored' \in [Guests -> Place] /\ currentNode' \in Place
         /\ handed' \in BOOLEAN /\ spoiled' \subseteq Guests
<1>1. calls[c].vm \in Guests /\ calls[c].target \in Place /\ calls[c].op \in Ops
  BY DEF MTypeOK, Call
<1>2. CASE Check(c) \/ ReadSource(c) \/ PostError(c)
  BY <1>2 DEF Check, ReadSource, PostError, MTypeOK
<1>3. CASE PostOK(c) \/ PostLost(c)
  BY <1>1, <1>3 DEF PostOK, PostLost, StartTask, MTypeOK
<1>4. CASE StoreMigration(c)
  BY <1>1, <1>4 DEF StoreMigration, Store, MTypeOK
<1>5. CASE SwitchTo(c)
  BY <1>1, <1>5 DEF SwitchTo, MTypeOK
<1> QED BY <1>2, <1>3, <1>4, <1>5 DEF Acts

LEMMA CallFrame ==
  ASSUME MTypeOK, NEW c \in Migrators, Acts(c), NEW vm \in Guests, vm # calls[c].vm
  PROVE  /\ heading'[vm] = heading[vm] /\ stored'[vm] = stored[vm]
         /\ vm \in spoiled' <=> vm \in spoiled
<1>1. CASE Check(c) \/ ReadSource(c) \/ PostError(c) \/ SwitchTo(c)
  BY <1>1 DEF Check, ReadSource, PostError, SwitchTo
<1>2. CASE PostOK(c) \/ PostLost(c)
  BY <1>2 DEF PostOK, PostLost, StartTask, MTypeOK
<1>3. CASE StoreMigration(c)
  BY <1>3 DEF StoreMigration, Store, MTypeOK
<1> QED BY <1>1, <1>2, <1>3 DEF Acts

LEMMA MigrationTyping ==
  ASSUME MTypeOK, [MNext]_mvars
  PROVE  MTypeOK'
<1>1. ASSUME NEW c \in Migrators, NEW op \in Ops, NEW vm \in Guests, NEW t \in Targets,
             Begin(c, op, vm, t)
      PROVE  MTypeOK'
  <2>1. \A d \in Migrators : calls'[d].pc \in {"check", "switch"} => calls'[d].op = "self"
    BY <1>1, BeginSets DEF MTypeOK, MigrateEntry
  <2>2. spoiled' \subseteq Guests /\ UNCHANGED <<live, heading, stored, currentNode, handed>>
    BY <1>1 DEF Begin, MTypeOK
  <2>3. calls' \in [Migrators -> Call]
    BY <1>1, BeginSets
  <2> QED BY <2>1, <2>2, <2>3 DEF MTypeOK
<1>2. ASSUME NEW c \in Migrators, Acts(c) PROVE MTypeOK'
  <2>1. PICK pc \in PCs : Moves(c, pc) /\ (pc \in {"check", "switch"} => calls[c].op = "self")
    BY <1>2, ActMoves
  <2>2. \A d \in Migrators : calls'[d].pc \in {"check", "switch"} => calls'[d].op = "self"
    BY <2>1 DEF Moves, MTypeOK
  <2> QED BY <1>2, <2>1, <2>2, ActTypes DEF Moves, MTypeOK
<1>3. ASSUME NEW vm \in Guests, TaskDone(vm) \/ TaskFails(vm) PROVE MTypeOK'
  BY <1>3 DEF TaskDone, TaskFails, MTypeOK
<1>4. CASE Restart
  <2>1. Home \in Place /\ Seed \in [Guests -> Place]
    BY MigrationAssumption DEF Place, Home
  <2>2. calls' \in [Migrators -> Call] /\ \A c \in Migrators : calls'[c].pc = "idle"
    BY <1>4, IdleTyped DEF Restart
  <2> QED BY <1>4, <2>1, <2>2 DEF Restart, MTypeOK
<1>5. CASE UNCHANGED mvars
  BY <1>5 DEF mvars, MTypeOK
<1> QED BY <1>1, <1>2, <1>3, <1>4, <1>5 DEF MNext, Acts

(* Every variable keeps its type, and only a self-migration is on its way  *)
(* to the endpoint (proxmox/client.go:113-139, 184-237).                   *)
THEOREM MigrationTypeCorrect == MSpec => []MTypeOK
<1>1. MInit => MTypeOK
  <2> SUFFICES ASSUME MInit PROVE MTypeOK
    OBVIOUS
  <2>1. Home \in Place /\ Nodes \subseteq Place /\ Seed \in [Guests -> Place]
    BY MigrationAssumption DEF Place, Home
  <2>2. calls \in [Migrators -> Call] /\ \A c \in Migrators : calls[c].pc = "idle"
    BY IdleTyped DEF MInit
  <2>3. live \in [Guests -> Place]
    BY <2>1 DEF MInit
  <2> QED BY <2>1, <2>2, <2>3 DEF MInit, MTypeOK
<1>2. MTypeOK /\ [MNext]_mvars => MTypeOK'
  BY MigrationTyping
<1> QED BY <1>1, <1>2, PTL DEF MSpec

-----------------------------------------------------------------------------
LoneCall(c) ==
  calls[c].alone /\ calls[c].pc # "idle" =>
    /\ \A d \in Migrators : calls[d].pc # "idle" /\ calls[d].vm = calls[c].vm => d = c
    /\ calls[c].pc = "store" /\ RealAPI
         => calls[c].vm \in spoiled \/ heading[calls[c].vm] = calls[c].target
    /\ calls[c].pc = "switch"
         => /\ stored[calls[c].vm] = calls[c].target
            /\ calls[c].vm \in spoiled \/ heading[calls[c].vm] = calls[c].target

(* The step of the call itself. *)
LEMMA LoneCallActs ==
  ASSUME MTypeOK, NEW c \in Migrators, LoneCall(c), Acts(c)
  PROVE  LoneCall(c)'
<1>1. calls[c].pc # "idle" /\ calls[c].vm \in Guests
  BY ActMoves DEF MTypeOK, Call
<1> DEFINE vm == calls[c].vm
<1>2. ASSUME NEW pc \in PCs, Moves(c, pc),
             calls[c].alone /\ pc = "store" /\ RealAPI => heading'[vm] = calls[c].target,
             calls[c].alone /\ pc = "switch" =>
               stored'[vm] = calls[c].target /\ (vm \in spoiled' \/ heading'[vm] = calls[c].target)
      PROVE  LoneCall(c)'
  <2>1. CASE pc = "idle"
    BY <1>2, <2>1 DEF LoneCall, Moves
  <2>2. CASE pc # "idle"
    BY <1>1, <1>2, <2>2 DEF LoneCall, Moves
  <2> QED BY <2>1, <2>2
<1>3. CASE Check(c)
  <2>1. Go(c, MigrateEntry) \/ Return(c)
    BY <1>3 DEF Check
  <2>2. MigrateEntry \in PCs /\ MigrateEntry # "switch" /\ (MigrateEntry = "store" => ~RealAPI)
    BY DEF MigrateEntry, PCs
  <2>3. CASE Go(c, MigrateEntry)
    BY <1>2, <2>2, <2>3, GoMoves
  <2>4. CASE Return(c)
    BY <1>2, <2>4, ReturnMoves DEF PCs
  <2> QED BY <2>1, <2>3, <2>4
<1>4. CASE ReadSource(c)
  BY <1>2, <1>4, ReadSourceMoves DEF PCs
<1>5. CASE PostOK(c)
  <2>1. heading'[vm] = calls[c].target /\ Go(c, "store")
    BY <1>1, <1>5 DEF PostOK, StartTask, MTypeOK
  <2> QED BY <1>2, <2>1, GoMoves DEF PCs
<1>6. CASE PostError(c) \/ PostLost(c) \/ SwitchTo(c)
  BY <1>2, <1>6, ReturnMoves DEF PostError, PostLost, SwitchTo, PCs
<1>7. CASE StoreMigration(c)
  <2>1. /\ calls[c].pc = "store" /\ stored'[vm] = calls[c].target
        /\ heading'[vm] = IF RealAPI THEN heading[vm] ELSE calls[c].target
        /\ RealAPI => spoiled' = spoiled
    BY <1>1, <1>7 DEF StoreMigration, Store, MTypeOK
  <2>2. Go(c, "switch") \/ Return(c)
    BY <1>7 DEF StoreMigration
  <2>3. calls[c].alone => vm \in spoiled' \/ heading'[vm] = calls[c].target
    BY <2>1 DEF LoneCall
  <2>4. CASE Go(c, "switch")
    BY <1>2, <2>1, <2>3, <2>4, GoMoves DEF PCs
  <2>5. CASE Return(c)
    BY <1>2, <2>5, ReturnMoves DEF PCs
  <2> QED BY <2>2, <2>4, <2>5
<1> QED BY <1>3, <1>4, <1>5, <1>6, <1>7 DEF Acts

LEMMA LoneCallStep ==
  ASSUME MTypeOK, \A e \in Migrators : LoneCall(e), [MNext]_mvars,
         NEW d \in Migrators
  PROVE  LoneCall(d)'
<1>1. ASSUME NEW c \in Migrators, NEW op \in Ops, NEW vm \in Guests, NEW t \in Targets,
             Begin(c, op, vm, t)
      PROVE  LoneCall(d)'
  <2>1. UNCHANGED <<heading, stored>> /\ spoiled \subseteq spoiled'
    BY <1>1 DEF Begin
  <2>2. CASE d = c
    <3>1. calls'[c].pc # "switch" /\ (calls'[c].pc = "store" => ~RealAPI)
      BY <1>1, BeginSets DEF MigrateEntry
    <3>2. calls'[c].alone => \A e \in Migrators :
            (calls'[e].pc # "idle" /\ calls'[e].vm = vm) => e = c
      <4>1. calls'[c].alone => On(vm) = {}
        <5>1. calls'[c].alone = (On(vm) = {})
          BY <1>1, BeginSets
        <5> QED BY <5>1, Zenon
      <4>2. \A e \in Migrators : e # c => /\ calls'[e].pc = calls[e].pc
                                         /\ calls'[e].vm = calls[e].vm
        BY <1>1, BeginSets
      <4> QED BY <4>1, <4>2 DEF On
    <3>3. calls'[c].vm = vm
      BY <1>1, BeginSets
    <3> QED BY <2>2, <3>1, <3>2, <3>3 DEF LoneCall
  <2>3. CASE d # c
    <3>1. /\ calls'[d].pc = calls[d].pc /\ calls'[d].vm = calls[d].vm
          /\ calls'[d].target = calls[d].target
          /\ calls'[d].alone = (calls[d].alone /\ d \notin On(vm))
      BY <1>1, <2>3, BeginSets
    <3>2. ASSUME calls'[d].alone, calls'[d].pc # "idle", NEW e \in Migrators,
                 calls'[e].pc # "idle", calls'[e].vm = calls'[d].vm
          PROVE  e = d
      <4>1. calls[d].vm # vm
        BY <3>1, <3>2 DEF On
      <4>2. e # c
        BY <1>1, <3>1, <3>2, <4>1, BeginSets
      <4>3. calls[e].pc # "idle" /\ calls[e].vm = calls[d].vm
        BY <1>1, <3>1, <3>2, <4>2, BeginSets
      <4> QED BY <3>1, <3>2, <4>3 DEF LoneCall
    <3> QED BY <2>1, <3>1, <3>2 DEF LoneCall
  <2> QED BY <2>2, <2>3
<1>2. ASSUME NEW c \in Migrators, Acts(c) PROVE LoneCall(d)'
  <2>1. CASE d = c
    BY <1>2, <2>1, LoneCallActs
  <2>2. CASE d # c
    <3>1. PICK pc \in PCs : Moves(c, pc)
      BY <1>2, ActMoves
    <3>2. calls'[d] = calls[d] /\ calls[c].pc # "idle"
      BY <1>2, <2>2, <3>1, ActMoves DEF Moves
    <3>3. SUFFICES ASSUME calls[d].alone, calls[d].pc # "idle" PROVE LoneCall(d)'
      BY <3>2 DEF LoneCall
    <3>4. calls[d].vm \in Guests /\ calls[c].vm # calls[d].vm
      BY <2>2, <3>2, <3>3 DEF LoneCall, MTypeOK, Call
    <3>5. /\ heading'[calls[d].vm] = heading[calls[d].vm]
          /\ stored'[calls[d].vm] = stored[calls[d].vm]
          /\ calls[d].vm \in spoiled' <=> calls[d].vm \in spoiled
      BY <1>2, <3>4, CallFrame
    <3>6. \A e \in Migrators : calls'[e].pc # "idle" /\ calls'[e].vm = calls[d].vm => e = d
      BY <3>1, <3>2, <3>3, <3>4 DEF LoneCall, Moves
    <3> QED BY <3>2, <3>3, <3>5, <3>6 DEF LoneCall
  <2> QED BY <2>1, <2>2
<1>3. ASSUME NEW vm \in Guests, TaskDone(vm) PROVE LoneCall(d)'
  BY <1>3 DEF TaskDone, LoneCall
<1>4. ASSUME NEW vm \in Guests, TaskFails(vm) PROVE LoneCall(d)'
  <2>1. /\ UNCHANGED <<calls, stored>> /\ spoiled' = spoiled \cup {vm}
        /\ \A w \in Guests : w # vm => heading'[w] = heading[w]
    BY <1>4 DEF TaskFails, MTypeOK
  <2>2. calls[d].vm \in Guests
    BY DEF MTypeOK, Call
  <2> QED BY <2>1, <2>2 DEF LoneCall
<1>5. CASE Restart
  BY <1>5, IdleTyped DEF Restart, LoneCall
<1>6. CASE UNCHANGED mvars
  BY <1>6 DEF mvars, LoneCall
<1> QED BY <1>1, <1>2, <1>3, <1>4, <1>5, <1>6 DEF MNext, Acts

LEMMA LoneCallsHold == MSpec => [](\A c \in Migrators : LoneCall(c))
<1>1. MInit => \A c \in Migrators : LoneCall(c)
  BY IdleTyped DEF MInit, LoneCall
<1>2. MTypeOK /\ (\A c \in Migrators : LoneCall(c)) /\ [MNext]_mvars
        => (\A c \in Migrators : LoneCall(c))'
  BY LoneCallStep
<1> QED BY <1>1, <1>2, MigrationTypeCorrect, PTL DEF MSpec

(* A self-migration nobody overlaps on its machine switches the endpoint   *)
(* to where the inventory has the machine, which is there or on its way    *)
(* there unless its task has failed (proxmox/client.go:192-223).           *)
THEOREM LoneMovesAgree == MSpec => LoneMoveAgrees
<1> DEFINE A == \A c \in Migrators : SwitchTo(c) /\ calls[c].alone =>
                  LET vm == calls[c].vm
                  IN  /\ stored[vm] = calls[c].target
                      /\ currentNode' = stored[vm]
                      /\ vm \in spoiled \/ heading[vm] = stored[vm]
<1>1. (\A c \in Migrators : LoneCall(c)) => A
  BY DEF LoneCall, SwitchTo
<1>2. LoneMoveAgrees <=> [][A]_mvars
  BY DEF LoneMoveAgrees
<1> HIDE DEF A
<1> QED BY <1>1, <1>2, LoneCallsHold, PTL

-----------------------------------------------------------------------------
(* Whoever is on a machine that is not spoiled is alone there. *)
OverlapSpoils ==
  \A c \in Migrators : calls[c].pc # "idle" /\ ~calls[c].alone => calls[c].vm \in spoiled

(* The inventory is right but for a move that is not stored yet, ... *)
Located(vm) ==
  /\ vm \notin spoiled
  /\ \A c \in Migrators : calls[c].pc = "store" => calls[c].vm # vm
  => stored[vm] = heading[vm]

(* ... and the endpoint but for one it has not been switched after. *)
EndpointFollows ==
  /\ handed
  /\ Management \notin spoiled
  /\ \A c \in Migrators : calls[c].pc \in {"store", "switch"} => calls[c].vm # Management
  => currentNode = stored[Management]

Agreement ==
  /\ OverlapSpoils
  /\ \A vm \in Guests : Located(vm)
  /\ EndpointFollows

LEMMA OverlapStep ==
  ASSUME MTypeOK, \A c \in Migrators : LoneCall(c), OverlapSpoils,
         NEW c \in Migrators, Acts(c)
  PROVE  OverlapSpoils'
<1>1. PICK pc \in PCs : Moves(c, pc)
  BY ActMoves
<1>2. calls[c].pc # "idle" /\ calls[c].vm \in Guests
  BY ActMoves DEF MTypeOK, Call
<1>3. ~calls[c].alone => spoiled \subseteq spoiled'
  BY DEF Acts, Check, ReadSource, PostOK, PostError, PostLost, StoreMigration, Store, SwitchTo
<1> SUFFICES ASSUME NEW d \in Migrators, calls'[d].pc # "idle", ~calls'[d].alone
             PROVE  calls'[d].vm \in spoiled'
  BY DEF OverlapSpoils
<1>4. calls[d].pc # "idle" /\ ~calls[d].alone /\ calls'[d].vm = calls[d].vm
  BY <1>1, <1>2 DEF Moves
<1>5. calls[d].vm \in spoiled /\ calls[d].vm \in Guests
  BY <1>4 DEF OverlapSpoils, MTypeOK, Call
<1>6. CASE calls[d].vm # calls[c].vm
  BY <1>4, <1>5, <1>6, CallFrame
<1>7. CASE calls[d].vm = calls[c].vm
  <2>1. ~calls[c].alone
    BY <1>2, <1>4, <1>7 DEF LoneCall
  <2> QED BY <1>3, <1>4, <1>5, <2>1
<1> QED BY <1>6, <1>7

LEMMA LocatedStep ==
  ASSUME MTypeOK, \A c \in Migrators : LoneCall(c), OverlapSpoils,
         NEW vm \in Guests, Located(vm), NEW c \in Migrators, Acts(c)
  PROVE  Located(vm)'
<1>1. PICK pc \in PCs : Moves(c, pc)
  BY ActMoves
<1>2. calls[c].pc # "idle"
  BY ActMoves
<1> SUFFICES ASSUME vm \notin spoiled',
                    \A d \in Migrators : calls'[d].pc = "store" => calls'[d].vm # vm
             PROVE  stored'[vm] = heading'[vm]
  BY DEF Located
<1>3. \A d \in Migrators : d # c /\ calls[d].pc = "store" => calls[d].vm # vm
  BY <1>1 DEF Moves
<1>4. CASE vm # calls[c].vm
  BY <1>3, <1>4, CallFrame DEF Located
<1>5. CASE vm = calls[c].vm /\ (Check(c) \/ ReadSource(c) \/ PostError(c) \/ SwitchTo(c))
  BY <1>3, <1>5 DEF Located, Check, ReadSource, PostError, SwitchTo
<1>6. CASE vm = calls[c].vm /\ PostOK(c)
  <2>1. Moves(c, "store")
    BY <1>6, GoMoves DEF PostOK, PCs
  <2> QED BY <1>6, <2>1 DEF Moves
<1>7. CASE vm = calls[c].vm /\ PostLost(c)
  BY <1>7 DEF PostLost
<1>8. CASE vm = calls[c].vm /\ StoreMigration(c)
  <2>1. /\ calls[c].pc = "store" /\ stored'[vm] = calls[c].target
        /\ heading'[vm] = IF RealAPI THEN heading[vm] ELSE calls[c].target
        /\ RealAPI => spoiled' = spoiled
    BY <1>8 DEF StoreMigration, Store, MTypeOK
  <2>2. CASE RealAPI
    <3>1. calls[c].alone
      BY <1>2, <1>8, <2>1, <2>2 DEF OverlapSpoils
    <3> QED BY <1>8, <2>1, <2>2, <3>1 DEF LoneCall
  <2>3. CASE ~RealAPI
    BY <2>1, <2>3
  <2> QED BY <2>2, <2>3
<1> QED BY <1>4, <1>5, <1>6, <1>7, <1>8 DEF Acts

LEMMA EndpointStep ==
  ASSUME MTypeOK, \A c \in Migrators : LoneCall(c), OverlapSpoils, EndpointFollows,
         NEW c \in Migrators, Acts(c)
  PROVE  EndpointFollows'
<1>1. PICK pc \in PCs : Moves(c, pc)
  BY ActMoves
<1>2. calls[c].pc # "idle"
  BY ActMoves
<1> SUFFICES ASSUME handed', Management \notin spoiled',
                    \A d \in Migrators : calls'[d].pc \in {"store", "switch"}
                                           => calls'[d].vm # Management
             PROVE  currentNode' = stored'[Management]
  BY DEF EndpointFollows
<1>3. \A d \in Migrators : d # c /\ calls[d].pc \in {"store", "switch"} => calls[d].vm # Management
  BY <1>1 DEF Moves
<1>4. CASE Check(c) \/ ReadSource(c) \/ PostError(c)
  BY <1>3, <1>4 DEF EndpointFollows, Check, ReadSource, PostError
<1>5. CASE PostOK(c)
  <2>1. calls[c].vm # Management
    <3>1. Moves(c, "store")
      BY <1>5, GoMoves DEF PostOK, PCs
    <3> QED BY <3>1 DEF Moves
  <2>2. Management \notin spoiled
    BY <2>1, CallFrame, MigrationAssumption
  <2> QED BY <1>3, <1>5, <2>1, <2>2 DEF EndpointFollows, PostOK
<1>6. CASE PostLost(c)
  <2>1. calls[c].pc = "post" /\ UNCHANGED <<stored, currentNode, handed>>
        /\ spoiled' = spoiled \cup {calls[c].vm}
    BY <1>6 DEF PostLost, StartTask
  <2> QED BY <1>3, <2>1 DEF EndpointFollows
<1>7. CASE StoreMigration(c)
  <2>1. calls[c].vm # Management
    <3>1. CASE calls[c].op = "self"
      <4>1. Moves(c, "switch")
        BY <1>7, <3>1, GoMoves DEF StoreMigration, PCs
      <4> QED BY <4>1 DEF Moves
    <3>2. CASE calls[c].op # "self"
      BY <1>7, <3>2 DEF StoreMigration
    <3> QED BY <3>1, <3>2
  <2>2. /\ Management \notin spoiled /\ stored'[Management] = stored[Management]
    BY <2>1, CallFrame, MigrationAssumption
  <2>3. handed /\ currentNode' = currentNode
    BY <1>7 DEF StoreMigration, Store
  <2> QED BY <1>3, <2>1, <2>2, <2>3 DEF EndpointFollows
<1>8. CASE SwitchTo(c)
  <2>1. /\ calls[c].pc = "switch" /\ calls[c].vm = Management
        /\ currentNode' = calls[c].target /\ UNCHANGED <<stored, spoiled>>
    BY <1>8 DEF SwitchTo
  <2>2. calls[c].alone
    BY <1>2, <2>1 DEF OverlapSpoils
  <2> QED BY <2>1, <2>2 DEF LoneCall
<1> QED BY <1>4, <1>5, <1>6, <1>7, <1>8 DEF Acts

LEMMA AgreementStep ==
  ASSUME MTypeOK, \A c \in Migrators : LoneCall(c), Agreement, [MNext]_mvars
  PROVE  Agreement'
<1>1. ASSUME NEW c \in Migrators, NEW op \in Ops, NEW vm \in Guests, NEW t \in Targets,
             Begin(c, op, vm, t)
      PROVE  Agreement'
  <2>1. /\ UNCHANGED <<live, heading, stored, currentNode, handed>>
        /\ spoiled' = IF On(vm) = {} THEN spoiled ELSE spoiled \cup {vm}
    BY <1>1 DEF Begin
  <2>2. OverlapSpoils'
    <3> SUFFICES ASSUME NEW d \in Migrators, calls'[d].pc # "idle", ~calls'[d].alone
                 PROVE  calls'[d].vm \in spoiled'
      BY DEF OverlapSpoils
    <3>1. CASE d = c
      BY <1>1, <2>1, <3>1, BeginSets
    <3>2. CASE d # c
      <4>1. calls[d].pc # "idle" /\ calls'[d].vm = calls[d].vm
            /\ (~calls[d].alone \/ d \in On(vm))
        <5>1. /\ calls'[d].pc = calls[d].pc /\ calls'[d].vm = calls[d].vm
              /\ calls'[d].alone = (calls[d].alone /\ d \notin On(vm))
          BY <1>1, <3>2, BeginSets
        <5>2. ~(calls[d].alone /\ d \notin On(vm))
          BY <5>1, Zenon
        <5> QED BY <5>1, <5>2
      <4> QED BY <2>1, <4>1 DEF Agreement, OverlapSpoils, On
    <3> QED BY <3>1, <3>2
  <2>3. \A d \in Migrators : calls[d].pc # "idle" => calls'[d].pc = calls[d].pc
                                                   /\ calls'[d].vm = calls[d].vm
    BY <1>1, BeginSets
  <2>4. ASSUME NEW w \in Guests PROVE Located(w)'
    BY <2>1, <2>3 DEF Agreement, Located
  <2>5. EndpointFollows'
    BY <2>1, <2>3 DEF Agreement, EndpointFollows
  <2> QED BY <2>2, <2>4, <2>5 DEF Agreement
<1>2. ASSUME NEW c \in Migrators, Acts(c) PROVE Agreement'
  <2>1. OverlapSpoils'
    BY <1>2, OverlapStep DEF Agreement
  <2>2. ASSUME NEW w \in Guests PROVE Located(w)'
    BY <1>2, LocatedStep DEF Agreement
  <2>3. EndpointFollows'
    BY <1>2, EndpointStep DEF Agreement
  <2> QED BY <2>1, <2>2, <2>3 DEF Agreement
<1>3. ASSUME NEW vm \in Guests, TaskDone(vm) PROVE Agreement'
  BY <1>3 DEF TaskDone, Agreement, OverlapSpoils, Located, EndpointFollows
<1>4. ASSUME NEW vm \in Guests, TaskFails(vm) PROVE Agreement'
  <2>1. /\ UNCHANGED <<calls, stored, currentNode, handed>> /\ spoiled' = spoiled \cup {vm}
        /\ \A w \in Guests : w # vm => heading'[w] = heading[w]
    BY <1>4 DEF TaskFails, MTypeOK
  <2>2. OverlapSpoils' /\ EndpointFollows'
    BY <2>1 DEF Agreement, OverlapSpoils, EndpointFollows
  <2>3. ASSUME NEW w \in Guests PROVE Located(w)'
    BY <2>1 DEF Agreement, Located
  <2> QED BY <2>2, <2>3 DEF Agreement
<1>5. CASE Restart
  <2>1. \A c \in Migrators : calls'[c].pc = "idle"
    BY <1>5, IdleTyped DEF Restart
  <2>2. OverlapSpoils' /\ EndpointFollows'
    BY <1>5, <2>1, MigrationAssumption DEF Restart, OverlapSpoils, EndpointFollows, Home
  <2>3. ASSUME NEW w \in Guests PROVE Located(w)'
    BY <1>5 DEF Restart, Located
  <2> QED BY <2>2, <2>3 DEF Agreement
<1>6. CASE UNCHANGED mvars
  BY <1>6 DEF mvars, Agreement, OverlapSpoils, Located, EndpointFollows
<1> QED BY <1>1, <1>2, <1>3, <1>4, <1>5, <1>6 DEF MNext, Acts

(* With no call in progress the inventory names the node each machine is   *)
(* on or on its way to, and the endpoint, where it was last switched for   *)
(* the management VM, that one's, but for what overlapping calls on a      *)
(* machine, lost answers, failed tasks and restarts have spoiled since a   *)
(* call on its own last moved it (proxmox/client.go:130-138, 216-223).     *)
THEOREM CopiesAgreeAlways == MSpec => []CopiesAgree
<1>1. MInit => Agreement
  <2> SUFFICES ASSUME MInit PROVE Agreement
    OBVIOUS
  <2>1. \A c \in Migrators : calls[c].pc = "idle"
    BY IdleTyped DEF MInit
  <2>2. OverlapSpoils /\ EndpointFollows
    BY <2>1, MigrationAssumption DEF MInit, OverlapSpoils, EndpointFollows, Home
  <2>3. ASSUME NEW w \in Guests PROVE Located(w)
    BY DEF MInit, Located
  <2> QED BY <2>2, <2>3 DEF Agreement
<1>2. MTypeOK /\ (\A c \in Migrators : LoneCall(c)) /\ Agreement /\ [MNext]_mvars
        => Agreement'
  BY AgreementStep
<1>3. Agreement => CopiesAgree
  BY DEF Agreement, Located, EndpointFollows, CopiesAgree, Quiet
<1> QED BY <1>1, <1>2, <1>3, MigrationTypeCorrect, LoneCallsHold, PTL DEF MSpec

=============================================================================
