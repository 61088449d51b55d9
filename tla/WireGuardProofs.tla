---------------------------- MODULE WireGuardProofs ----------------------------
(***************************************************************************)
(* Theorems of WireGuard, for any callers, clients and numbers of calls    *)
(* and keys.  The argument is one of phases: as long as nothing is         *)
(* spoiled, there is no key pair yet, or one call makes it and no other    *)
(* has begun, or there is one pair and all that is read, written, running  *)
(* or answered is of that pair (Phase).                                    *)
(***************************************************************************)
EXTENDS WireGuard, TLAPS

Readers == {"readPublic", "conf", "enable", "restart"}

LEMMA Numbers ==
  /\ Missing \in File /\ Empty \in File /\ Keys \subseteq File
  /\ Missing \notin Keys /\ Empty \notin Keys /\ Missing # Empty
BY WireGuardAssumption DEF File, Keys, Missing, Empty

-----------------------------------------------------------------------------
(* Types: what a call needs at its commands.                               *)
Fine(c) ==
  /\ calls[c].pc \in {"private", "public", "readPrivate", "readPublic"}
       => privatekey # Missing /\ publickey # Missing
  /\ calls[c].pc \in {"private", "public"} => calls[c].key \in Keys
  /\ calls[c].pc \in Readers => calls[c].private \in Keys \cup {Empty}
  /\ calls[c].pc # "idle" => calls[c].peer \in Clients

Typed == TypeOK /\ \A c \in Callers : Fine(c)

CallsTyped == calls \in [Callers -> Call] /\ \A c \in Callers : Fine(c)

(* No file is ever taken away. *)
FilesStay == (privatekey # Missing => privatekey' # Missing)
             /\ (publickey # Missing => publickey' # Missing)

LEMMA IdleTyped == Idle \in Call /\ Idle.pc = "idle" /\ Idle.alone = FALSE
BY Numbers DEF Idle, Call, PCs

LEMMA OneCallTyped ==
  ASSUME CallsTyped, NEW c \in Callers, NEW r \in Call,
         calls' = [calls EXCEPT ![c] = r], FilesStay, Fine(c)'
  PROVE  CallsTyped'
<1>1. calls' \in [Callers -> Call] /\ \A d \in Callers : d # c => calls'[d] = calls[d]
  BY DEF CallsTyped
<1>2. \A d \in Callers : d # c => Fine(d)'
  BY <1>1 DEF CallsTyped, Fine, FilesStay
<1> QED BY <1>1, <1>2 DEF CallsTyped

LEMMA ReturnTyped ==
  ASSUME CallsTyped, NEW c \in Callers, Return(c), FilesStay
  PROVE  CallsTyped'
<1>1. calls'[c] = Idle
  BY DEF CallsTyped, Return
<1>2. Fine(c)'
  BY <1>1, IdleTyped DEF Fine, Readers
<1> QED BY <1>2, IdleTyped, OneCallTyped DEF Return

(* A call goes on with one variable set.                                   *)
LEMMA GoSets ==
  ASSUME CallsTyped, NEW c \in Callers, NEW pc \in PCs, Go(c, pc)
  PROVE  /\ calls' = [calls EXCEPT ![c] = [calls[c] EXCEPT !.pc = pc]]
         /\ calls'[c] \in Call /\ calls'[c].pc = pc
         /\ calls'[c].key = calls[c].key /\ calls'[c].private = calls[c].private
         /\ calls'[c].public = calls[c].public /\ calls'[c].peer = calls[c].peer
         /\ calls'[c].alone = calls[c].alone
         /\ \A d \in Callers : d # c => calls'[d] = calls[d]
         /\ calls' = [calls EXCEPT ![c] = calls'[c]]
<1>1. calls \in [Callers -> Call] /\ calls[c] \in Call
  BY DEF CallsTyped
<1> DEFINE r == [calls[c] EXCEPT !.pc = pc]
<1>2. /\ r \in Call /\ r.pc = pc /\ r.key = calls[c].key /\ r.private = calls[c].private
      /\ r.public = calls[c].public /\ r.peer = calls[c].peer /\ r.alone = calls[c].alone
  BY <1>1 DEF Call
<1>3. calls' = [calls EXCEPT ![c] = r]
  BY DEF Go
<1> HIDE DEF r
<1> QED BY <1>1, <1>2, <1>3 DEF r

LEMMA CommandTyped ==
  ASSUME Typed, NEW c \in Callers, Step(c)
  PROVE  /\ FilesStay /\ CallsTyped'
         /\ {privatekey, publickey}' \subseteq File
<1>0. /\ CallsTyped /\ Fine(c) /\ calls[c] \in Call
      /\ privatekey \in File /\ publickey \in File
      /\ calls[c].key \in File
  BY DEF Typed, TypeOK, CallsTyped, Call
<1> DEFINE Goal == FilesStay /\ CallsTyped' /\ {privatekey, publickey}' \subseteq File
<1>1. ASSUME NEW peer \in Clients, Begin(c, peer) PROVE Goal
  <2>0. UNCHANGED files /\ FilesStay
    BY <1>1 DEF Begin, files, FilesStay
  <2> DEFINE b == [Idle EXCEPT !.pc = IF KeysMissing THEN "generate" ELSE "readPrivate",
                               !.peer = peer, !.alone = Quiet]
  <2>1. /\ b \in Call /\ b.peer = peer
        /\ b.pc = IF KeysMissing THEN "generate" ELSE "readPrivate"
    BY Numbers DEF Idle, Call, PCs, Quiet
  <2>2. calls' = [d \in Callers |-> IF d # c THEN [calls[d] EXCEPT !.alone = FALSE] ELSE b]
    BY <1>1 DEF Begin
  <2> HIDE DEF b
  <2>3. calls'[c] = b
    BY <2>2
  <2>4. Fine(c)'
    BY <2>0, <2>1, <2>3 DEF Fine, KeysMissing, Readers, files
  <2>5. ASSUME NEW d \in Callers, d # c PROVE calls'[d] \in Call /\ Fine(d)'
    <3>1. calls'[d] = [calls[d] EXCEPT !.alone = FALSE] /\ calls[d] \in Call /\ Fine(d)
      BY <1>0, <2>2, <2>5 DEF CallsTyped
    <3>2. /\ calls'[d] \in Call /\ calls'[d].pc = calls[d].pc /\ calls'[d].key = calls[d].key
          /\ calls'[d].private = calls[d].private /\ calls'[d].peer = calls[d].peer
      BY <3>1 DEF Call
    <3> QED BY <2>0, <3>1, <3>2 DEF Fine, files
  <2>6. calls' \in [Callers -> Call]
    BY <2>1, <2>2, <2>3, <2>5
  <2> QED BY <1>0, <2>0, <2>4, <2>5, <2>6 DEF CallsTyped, files
<1>2. CASE Generate(c)
  <2> DEFINE r == [calls[c] EXCEPT !.pc = "private", !.key = generated + 1]
  <2>1. generated + 1 \in Keys
    BY <1>2, WireGuardAssumption DEF Generate, Typed, TypeOK, Keys
  <2>2. r \in Call /\ r.pc = "private" /\ r.key = generated + 1 /\ r.peer = calls[c].peer
    BY <1>0, <2>1, Numbers DEF Call, PCs
  <2>3. calls' = [calls EXCEPT ![c] = r] /\ privatekey' = Empty /\ publickey' = Empty
    BY <1>2 DEF Generate
  <2> HIDE DEF r
  <2>4. Fine(c)'
    BY <1>0, <1>2, <2>1, <2>2, <2>3, Numbers DEF Fine, Readers, CallsTyped, Generate, At
  <2> QED BY <1>0, <2>2, <2>3, <2>4, Numbers, OneCallTyped DEF FilesStay
<1>3. CASE WritePrivate(c)
  <2>1. Go(c, "public") /\ privatekey' = calls[c].key /\ publickey' = publickey /\ At(c, "private")
    BY <1>3 DEF WritePrivate
  <2>2. FilesStay /\ privatekey' # Missing /\ privatekey' \in File
    BY <1>0, <2>1, Numbers DEF FilesStay, Fine, At
  <2>3. Fine(c)'
    BY <1>0, <2>1, <2>2, GoSets DEF Fine, At, Readers, PCs
  <2> QED BY <1>0, <2>1, <2>2, <2>3, GoSets, OneCallTyped DEF PCs
<1>4. CASE WritePublic(c)
  <2>1. Go(c, "readPrivate") /\ publickey' = calls[c].key /\ privatekey' = privatekey /\ At(c, "public")
    BY <1>4 DEF WritePublic
  <2>2. FilesStay /\ publickey' # Missing /\ publickey' \in File
    BY <1>0, <2>1, Numbers DEF FilesStay, Fine, At
  <2>3. Fine(c)'
    BY <1>0, <2>1, <2>2, GoSets DEF Fine, At, Readers, PCs
  <2> QED BY <1>0, <2>1, <2>2, <2>3, GoSets, OneCallTyped DEF PCs
<1>5. CASE GenerateFails(c)
  BY <1>0, <1>5, Numbers, ReturnTyped DEF GenerateFails, FilesStay
<1>6. CASE ReadPrivate(c)
  <2> DEFINE r == [calls[c] EXCEPT !.pc = "readPublic", !.private = privatekey]
  <2>1. /\ calls' = [calls EXCEPT ![c] = r] /\ UNCHANGED files /\ At(c, "readPrivate")
    BY <1>6 DEF ReadPrivate
  <2>2. r \in Call /\ r.pc = "readPublic" /\ r.private = privatekey /\ r.peer = calls[c].peer
    BY <1>0 DEF Call, PCs
  <2> HIDE DEF r
  <2>3. privatekey \in Keys \cup {Empty}
    BY <1>0, <2>1 DEF Fine, At, File
  <2>4. Fine(c)'
    BY <1>0, <2>1, <2>2, <2>3 DEF Fine, At, Readers, files, CallsTyped
  <2> QED BY <1>0, <2>1, <2>2, <2>4, OneCallTyped DEF FilesStay, files
<1>7. CASE ReadPublic(c)
  <2> DEFINE r == [calls[c] EXCEPT !.pc = "conf", !.public = publickey]
  <2>1. /\ calls' = [calls EXCEPT ![c] = r] /\ UNCHANGED files /\ At(c, "readPublic")
    BY <1>7 DEF ReadPublic
  <2>2. r \in Call /\ r.pc = "conf" /\ r.private = calls[c].private /\ r.peer = calls[c].peer
    BY <1>0 DEF Call, PCs
  <2> HIDE DEF r
  <2>4. Fine(c)'
    BY <1>0, <2>1, <2>2 DEF Fine, At, Readers, files, CallsTyped
  <2> QED BY <1>0, <2>1, <2>2, <2>4, OneCallTyped DEF FilesStay, files
<1>8. CASE UNCHANGED files /\ Return(c)
  BY <1>0, <1>8, ReturnTyped DEF FilesStay, files
<1>9. ASSUME NEW pc \in {"enable", "restart"}, UNCHANGED files, Go(c, pc),
             calls[c].pc \in {"conf", "enable"}
      PROVE  Goal
  <2>1. Fine(c)'
    BY <1>0, <1>9, GoSets DEF Fine, Readers, PCs
  <2> QED BY <1>0, <1>9, <2>1, GoSets, OneCallTyped DEF FilesStay, files, PCs
<1>10. CASE WriteConf(c) \/ Enable(c) \/ Restart(c) \/ Killed(c)
  BY <1>8, <1>9, <1>10 DEF WriteConf, Enable, Restart, Killed, Answer, At
<1> QED BY <1>1, <1>2, <1>3, <1>4, <1>5, <1>6, <1>7, <1>10 DEF Step

(* The rest of the state, a command at a time.                             *)
RestTyped ==
  /\ conf \in Configuration \cup {Broken}
  /\ iface \in Configuration \cup {Down}
  /\ iface # Down => iface.key # Empty
  /\ enabled \in BOOLEAN
  /\ generated \in 0 .. MaxKeys
  /\ applies \in 0 .. MaxApplies
  /\ answered \subseteq File
  /\ last = None \/ last \in [peer : Clients, key : File]

LEMMA CommandRest ==
  ASSUME Typed, NEW c \in Callers, Step(c)
  PROVE  RestTyped'
<1>0. RestTyped /\ Fine(c) /\ calls[c] \in Call /\ calls[c].public \in File
  BY DEF Typed, TypeOK, RestTyped, Call
<1>1. ASSUME NEW peer \in Clients, Begin(c, peer) PROVE RestTyped'
  BY <1>0, <1>1, WireGuardAssumption DEF Begin, tunnel, RestTyped
<1>2. CASE Generate(c)
  BY <1>0, <1>2, WireGuardAssumption DEF Generate, tunnel, seen, RestTyped
<1>3. CASE UNCHANGED <<tunnel, counts, seen>>
  BY <1>0, <1>3 DEF tunnel, counts, seen, RestTyped
<1>4. CASE WriteConf(c)
  <2>1. conf' \in Configuration \cup {Broken}
    BY <1>0, <1>4 DEF WriteConf, At, Fine, Readers, Configuration
  <2> QED BY <1>0, <1>4, <2>1 DEF WriteConf, counts, seen, RestTyped
<1>5. CASE Enable(c)
  BY <1>0, <1>5 DEF Enable, counts, seen, RestTyped
<1>6. CASE Restart(c)
  <2>1. iface' \in Configuration \cup {Down} /\ (iface' # Down => iface'.key # Empty)
    BY <1>0, <1>6 DEF Restart, Valid, RestTyped
  <2>2. answered' \subseteq File /\ (last' = None \/ last' \in [peer : Clients, key : File])
    BY <1>0, <1>6 DEF Restart, Answer, At, Fine, seen, RestTyped
  <2> QED BY <1>0, <1>6, <2>1, <2>2 DEF Restart, counts, RestTyped
<1> QED BY <1>1, <1>2, <1>3, <1>4, <1>5, <1>6
      DEF Step, WritePrivate, WritePublic, GenerateFails, ReadPrivate, ReadPublic, Killed

LEMMA BootTyped ==
  ASSUME Typed, Boot
  PROVE  CallsTyped' /\ RestTyped' /\ UNCHANGED files
<1>1. UNCHANGED files
  BY DEF Boot
<1>2. CallsTyped'
  BY IdleTyped DEF Boot, CallsTyped, Fine, Readers
<1>3. RestTyped'
  BY DEF Boot, counts, seen, Valid, Typed, TypeOK, RestTyped
<1> QED BY <1>1, <1>2, <1>3

LEMMA TypedHolds == Spec => []Typed
<1>1. Init => Typed
  <2> SUFFICES ASSUME Init PROVE Typed
    OBVIOUS
  <2>1. calls \in [Callers -> Call] /\ \A c \in Callers : calls[c].pc = "idle"
    BY IdleTyped DEF Init
  <2>2. \A c \in Callers : Fine(c)
    BY <2>1 DEF Fine, Readers
  <2>3. {privatekey, publickey} \subseteq File /\ {enabled, spoiled} \subseteq BOOLEAN
    BY Numbers DEF Init
  <2>4. 0 \in 0 .. MaxKeys /\ 0 \in 0 .. MaxApplies
    BY WireGuardAssumption
  <2>5. \A c \in Callers : calls[c].pc \notin {"readPrivate", "readPublic"}
    BY <2>1
  <2> QED BY <2>1, <2>2, <2>3, <2>4, <2>5 DEF Init, Typed, TypeOK
<1>2. Typed /\ [Next]_vars => Typed'
  <2> SUFFICES ASSUME Typed, [Next]_vars PROVE Typed'
    OBVIOUS
  <2>1. CASE Next
    <3>1. CallsTyped' /\ RestTyped' /\ {privatekey, publickey}' \subseteq File
      <4>1. CASE \E c \in Callers : Step(c)
        BY <4>1, CommandTyped, CommandRest
      <4>2. CASE Boot
        BY <4>2, BootTyped DEF files, Typed, TypeOK
      <4> QED BY <2>1, <4>1, <4>2 DEF Next
    <3>2. spoiled' \in BOOLEAN
      BY <2>1 DEF Next
    <3>3. \A c \in Callers : calls'[c].pc \in {"readPrivate", "readPublic"}
                              => Missing \notin {privatekey, publickey}'
      BY <3>1 DEF CallsTyped, Fine
    <3> QED BY <3>1, <3>2, <3>3 DEF Typed, TypeOK, CallsTyped, RestTyped
  <2>2. CASE UNCHANGED vars
    BY <2>2 DEF vars, Typed, TypeOK, Fine
  <2> QED BY <2>1, <2>2
<1> QED BY <1>1, <1>2, PTL DEF Spec

(* Every variable keeps its type; a call that reads the keys finds both    *)
(* files, and no empty private key reaches the interface                   *)
(* (vpn/wireguard.go:200-227).                                             *)
THEOREM TypeCorrect == Spec => []TypeOK
<1>1. Typed => TypeOK
  BY DEF Typed
<1> QED BY <1>1, TypedHolds, PTL

-----------------------------------------------------------------------------
(* The phases of what is not spoiled.                                      *)
Nothing == conf = Broken /\ iface = Down /\ answered = {} /\ last = None

NoKeys ==
  /\ Nothing
  /\ privatekey = Missing /\ publickey = Missing
  /\ \A c \in Callers : calls[c].pc \in {"idle", "generate"}

Making(c) ==
  /\ Nothing
  /\ \A d \in Callers : d # c => At(d, "idle")
  /\ \/ At(c, "private") /\ privatekey = Empty /\ publickey = Empty
     \/ At(c, "public") /\ privatekey = calls[c].key /\ publickey = Empty

Same(c, k) ==
  /\ calls[c].pc \in {"idle", "readPrivate"} \cup Readers
  /\ calls[c].pc \in Readers => calls[c].private = k
  /\ calls[c].pc \in Readers \ {"readPublic"} => calls[c].public = k

Whole(k) ==
  /\ privatekey = k /\ publickey = k
  /\ \A c \in Callers : Same(c, k)
  /\ conf = Broken \/ conf.key = k
  /\ iface # Down => iface.key = k
  /\ answered \subseteq {k}
  /\ last # None => last.key = k

Phase == NoKeys \/ (\E c \in Callers : Making(c)) \/ (\E k \in Keys : Whole(k))

(* What a call that begins does to the calls.                              *)
LEMMA BeginSets ==
  ASSUME Typed, NEW c \in Callers, NEW peer \in Clients, Begin(c, peer)
  PROVE  /\ calls'[c].pc = IF KeysMissing THEN "generate" ELSE "readPrivate"
         /\ calls'[c].alone = Quiet
         /\ \A d \in Callers : d # c =>
              /\ calls'[d].pc = calls[d].pc /\ calls'[d].private = calls[d].private
              /\ calls'[d].public = calls[d].public /\ calls'[d].alone = FALSE
         /\ UNCHANGED files /\ UNCHANGED tunnel /\ answered' = answered /\ last' = None
         /\ At(c, "idle")
<1> DEFINE b == [Idle EXCEPT !.pc = IF KeysMissing THEN "generate" ELSE "readPrivate",
                             !.peer = peer, !.alone = Quiet]
<1>1. b.pc = (IF KeysMissing THEN "generate" ELSE "readPrivate") /\ b.alone = Quiet
  BY DEF Idle
<1>2. calls' = [d \in Callers |-> IF d # c THEN [calls[d] EXCEPT !.alone = FALSE] ELSE b]
  BY DEF Begin
<1> HIDE DEF b
<1>3. ASSUME NEW d \in Callers, d # c
      PROVE  /\ calls'[d].pc = calls[d].pc /\ calls'[d].private = calls[d].private
             /\ calls'[d].public = calls[d].public /\ calls'[d].alone = FALSE
  <2>1. calls'[d] = [calls[d] EXCEPT !.alone = FALSE] /\ calls[d] \in Call
    BY <1>2, <1>3 DEF Typed, TypeOK
  <2> QED BY <2>1 DEF Call
<1> QED BY <1>1, <1>2, <1>3 DEF Begin

LEMMA ReturnSets ==
  ASSUME Typed, NEW c \in Callers, Return(c)
  PROVE  /\ calls'[c] = Idle /\ At(c, "idle")' /\ calls'[c].alone = FALSE
         /\ \A d \in Callers : d # c => calls'[d] = calls[d]
BY IdleTyped DEF Return, Typed, TypeOK, At

LEMMA TypedCalls == Typed => CallsTyped
BY DEF Typed, TypeOK, CallsTyped

(* From no keys: another call that is about to make a pair as well would   *)
(* spoil it.                                                               *)
LEMMA NoKeysStep ==
  ASSUME Typed, NoKeys, NEW c \in Callers, Step(c), ~Racing', ~Cut(c)
  PROVE  Phase'
<1>1. ASSUME NEW peer \in Clients, Begin(c, peer) PROVE Phase'
  <2>1. NoKeys'
    BY <1>1, BeginSets DEF NoKeys, Nothing, KeysMissing, files, tunnel
  <2> QED BY <2>1 DEF Phase
<1>2. CASE Generate(c)
  <2> DEFINE r == [calls[c] EXCEPT !.pc = "private", !.key = generated + 1]
  <2>1. r.pc = "private"
    BY DEF Typed, TypeOK, Call
  <2>2. calls' = [calls EXCEPT ![c] = r] /\ privatekey' = Empty /\ publickey' = Empty
        /\ UNCHANGED <<tunnel, seen>>
    BY <1>2 DEF Generate
  <2> HIDE DEF r
  <2>3. calls'[c].pc = "private" /\ \A d \in Callers : d # c => calls'[d] = calls[d]
    BY <2>1, <2>2 DEF Typed, TypeOK
  <2>4. ASSUME NEW d \in Callers, d # c PROVE At(d, "idle")'
    <3>1. ~NeedsKeys(d)'
      BY <2>3, <2>4 DEF Racing, MakesKeys
    <3> QED BY <2>3, <2>4, <3>1 DEF NeedsKeys, NoKeys, At
  <2>5. Making(c)'
    BY <2>2, <2>3, <2>4 DEF Making, NoKeys, Nothing, tunnel, seen, At
  <2> QED BY <2>5 DEF Phase
<1>3. CASE GenerateFails(c) \/ Killed(c)
  <2>1. Return(c) /\ UNCHANGED <<tunnel, seen>> /\ (files' = files \/ At(c, "generate"))
    BY <1>3 DEF GenerateFails, Killed
  <2>2. files' = files
    BY <2>1, ReturnSets DEF Cut
  <2>3. NoKeys'
    BY <2>1, <2>2, ReturnSets DEF NoKeys, Nothing, files, tunnel, seen, At
  <2> QED BY <2>3 DEF Phase
<1>4. ~(WritePrivate(c) \/ WritePublic(c) \/ ReadPrivate(c) \/ ReadPublic(c)
        \/ WriteConf(c) \/ Enable(c) \/ Restart(c))
  BY DEF NoKeys, At, WritePrivate, WritePublic, ReadPrivate, ReadPublic, WriteConf, Enable, Restart
<1> QED BY <1>1, <1>2, <1>3, <1>4 DEF Step

(* While a pair is made, a call that begins would spoil it, and so would   *)
(* the end of the call that makes it.                                      *)
LEMMA MakingStep ==
  ASSUME Typed, NEW m \in Callers, Making(m), NEW c \in Callers, Step(c), ~Racing', ~Cut(c)
  PROVE  Phase'
<1>0. /\ m # c => At(c, "idle")
      /\ MakesKeys(m) /\ ~At(m, "idle")
      /\ calls[m].key \in Keys /\ ~KeysMissing
  <2>1. MakesKeys(m) /\ ~At(m, "idle")
    BY DEF Making, MakesKeys, At
  <2>2. calls[m].key \in Keys
    BY <2>1 DEF MakesKeys, Typed, Fine
  <2> QED BY <2>1, <2>2, Numbers DEF Making, KeysMissing
<1>1. ASSUME NEW peer \in Clients, Begin(c, peer) PROVE FALSE
  <2>1. m # c
    BY <1>0, <1>1 DEF Begin
  <2>2. MakesKeys(m)'
    BY <1>0, <1>1, <2>1, BeginSets DEF MakesKeys
  <2>3. NeedsKeys(c)'
    BY <1>0, <1>1, BeginSets DEF NeedsKeys
  <2> QED BY <2>1, <2>2, <2>3 DEF Racing
<1>2. CASE WritePrivate(c)
  <2>1. c = m /\ At(c, "private")
    BY <1>0, <1>2 DEF WritePrivate, At
  <2>2. Go(c, "public") /\ privatekey' = calls[c].key /\ publickey' = publickey
        /\ UNCHANGED <<tunnel, seen>>
    BY <1>2 DEF WritePrivate
  <2>3. Making(m)'
    BY <2>1, <2>2, GoSets, TypedCalls DEF Making, Nothing, tunnel, seen, At, PCs
  <2> QED BY <2>3 DEF Phase
<1>3. CASE WritePublic(c)
  <2>1. c = m /\ At(c, "public")
    BY <1>0, <1>3 DEF WritePublic, At
  <2>2. Go(c, "readPrivate") /\ publickey' = calls[c].key /\ privatekey' = privatekey
        /\ UNCHANGED <<tunnel, seen>>
    BY <1>3 DEF WritePublic
  <2>3. PICK k \in Keys : k = calls[m].key
    BY <1>0
  <2>4. privatekey = k
    BY <2>1, <2>3 DEF Making, At
  <2>5. \A d \in Callers : Same(d, k)'
    BY <2>1, <2>2, GoSets, TypedCalls DEF Making, Same, At, PCs, Readers
  <2>6. Whole(k)'
    BY <2>1, <2>2, <2>3, <2>4, <2>5 DEF Making, Whole, Nothing, tunnel, seen
  <2> QED BY <2>6 DEF Phase
<1>4. CASE Killed(c)
  <2>1. c = m /\ At(c, "idle")'
    BY <1>0, <1>4, ReturnSets DEF Killed
  <2> QED BY <1>0, <2>1 DEF Cut
<1>5. ~(Generate(c) \/ GenerateFails(c) \/ ReadPrivate(c) \/ ReadPublic(c)
        \/ WriteConf(c) \/ Enable(c) \/ Restart(c))
  BY <1>0 DEF Making, At, Generate, GenerateFails, ReadPrivate, ReadPublic, WriteConf, Enable, Restart
<1> QED BY <1>1, <1>2, <1>3, <1>4, <1>5 DEF Step

(* With one pair, nothing else is read, written, or answered.              *)
LEMMA WholeStep ==
  ASSUME Typed, NEW k \in Keys, Whole(k), NEW c \in Callers, Step(c)
  PROVE  Whole(k)'
<1>0. /\ ~KeysMissing /\ Same(c, k) /\ \A d \in Callers : Same(d, k)
      /\ calls[c] \in Call
  BY Numbers DEF Whole, KeysMissing, Typed, TypeOK
<1>1. ASSUME NEW peer \in Clients, Begin(c, peer) PROVE Whole(k)'
  <2>1. \A d \in Callers : Same(d, k)'
    BY <1>0, <1>1, BeginSets DEF Same, Readers
  <2> QED BY <1>1, <2>1, BeginSets DEF Whole, files, tunnel
<1>2. ~(Generate(c) \/ WritePrivate(c) \/ WritePublic(c) \/ GenerateFails(c))
  BY <1>0 DEF Same, Readers, At, Generate, WritePrivate, WritePublic, GenerateFails
<1>3. ASSUME Return(c) PROVE \A d \in Callers : Same(d, k)'
  BY <1>0, <1>3, IdleTyped, ReturnSets DEF Same, Readers
<1>4. ASSUME NEW pc \in {"enable", "restart"}, Go(c, pc), calls[c].pc \in {"conf", "enable"}
      PROVE  \A d \in Callers : Same(d, k)'
  BY <1>0, <1>4, GoSets, TypedCalls DEF Same, Readers, PCs
<1>5. CASE ReadPrivate(c)
  <2> DEFINE r == [calls[c] EXCEPT !.pc = "readPublic", !.private = privatekey]
  <2>1. r.pc = "readPublic" /\ r.private = privatekey
    BY <1>0 DEF Call
  <2>2. calls' = [calls EXCEPT ![c] = r] /\ UNCHANGED <<files, tunnel, counts, seen>>
    BY <1>5 DEF ReadPrivate
  <2> HIDE DEF r
  <2>3. calls'[c] = r /\ \A d \in Callers : d # c => calls'[d] = calls[d]
    BY <2>2 DEF Typed, TypeOK
  <2>4. \A d \in Callers : Same(d, k)'
    BY <1>0, <2>1, <2>3 DEF Same, Readers, Whole
  <2> QED BY <2>2, <2>4 DEF Whole, files, tunnel, seen
<1>6. CASE ReadPublic(c)
  <2> DEFINE r == [calls[c] EXCEPT !.pc = "conf", !.public = publickey]
  <2>1. r.pc = "conf" /\ r.public = publickey /\ r.private = calls[c].private
    BY <1>0 DEF Call
  <2>2. calls' = [calls EXCEPT ![c] = r] /\ UNCHANGED <<files, tunnel, counts, seen>>
        /\ At(c, "readPublic")
    BY <1>6 DEF ReadPublic
  <2> HIDE DEF r
  <2>3. calls'[c] = r /\ \A d \in Callers : d # c => calls'[d] = calls[d]
    BY <2>2 DEF Typed, TypeOK
  <2>4. \A d \in Callers : Same(d, k)'
    BY <1>0, <2>1, <2>2, <2>3 DEF Same, Readers, Whole, At
  <2> QED BY <2>2, <2>4 DEF Whole, files, tunnel, seen
<1>7. CASE WriteConf(c)
  <2>1. \A d \in Callers : Same(d, k)'
    BY <1>3, <1>4, <1>7 DEF WriteConf, At
  <2>2. conf' = Broken \/ conf'.key = k
    BY <1>0, <1>7 DEF WriteConf, At, Same, Readers
  <2> QED BY <1>7, <2>1, <2>2 DEF WriteConf, Whole, files, counts, seen
<1>8. CASE Enable(c)
  <2>1. \A d \in Callers : Same(d, k)'
    BY <1>3, <1>4, <1>8 DEF Enable, At
  <2> QED BY <1>8, <2>1 DEF Enable, Whole, files, counts, seen
<1>9. CASE Restart(c)
  <2>1. \A d \in Callers : Same(d, k)'
    BY <1>3, <1>9 DEF Restart, Answer
  <2>2. calls[c].public = k
    BY <1>0, <1>9 DEF Restart, At, Same, Readers
  <2>3. iface' # Down => iface'.key = k
    BY <1>9, WireGuardAssumption DEF Restart, Valid, Whole
  <2>4. answered' \subseteq {k} /\ (last' # None => last'.key = k)
    BY <1>9, <2>2 DEF Restart, Answer, seen, Whole
  <2> QED BY <1>9, <2>1, <2>3, <2>4 DEF Restart, Whole, files
<1>10. CASE Killed(c)
  BY <1>3, <1>10 DEF Killed, Whole, files, tunnel, seen
<1> QED BY <1>1, <1>2, <1>5, <1>6, <1>7, <1>8, <1>9, <1>10 DEF Step

LEMMA BootPhase ==
  ASSUME Typed, Phase, Boot, \A c \in Callers : ~Cut(c)
  PROVE  Phase'
<1>0. /\ \A c \in Callers : calls'[c] = Idle /\ At(c, "idle")'
      /\ UNCHANGED <<files, conf, counts, seen>>
      /\ iface' = IF enabled /\ Valid THEN conf ELSE Down
  BY IdleTyped DEF Boot, At
<1>1. CASE NoKeys
  <2>1. ~Valid
    BY <1>1, WireGuardAssumption DEF NoKeys, Nothing, Valid
  <2>2. NoKeys'
    BY <1>0, <1>1, <2>1 DEF NoKeys, Nothing, files, seen, At
  <2> QED BY <2>2 DEF Phase
<1>2. ASSUME NEW m \in Callers, Making(m) PROVE Phase'
  BY <1>0, <1>2 DEF Making, Cut, MakesKeys, At
<1>3. ASSUME NEW k \in Keys, Whole(k) PROVE Phase'
  <2>1. \A c \in Callers : Same(c, k)'
    BY <1>0, IdleTyped DEF Same, Readers
  <2>2. iface' # Down => iface'.key = k
    BY <1>0, <1>3, WireGuardAssumption DEF Valid, Whole
  <2>3. Whole(k)'
    BY <1>0, <1>3, <2>1, <2>2 DEF Whole, files, seen
  <2> QED BY <2>3 DEF Phase
<1> QED BY <1>1, <1>2, <1>3 DEF Phase

(* The invariant.                                                          *)
Unspoiled == ~spoiled => Phase

LEMMA UnspoiledHolds == Spec => []Unspoiled
<1>1. Init => Unspoiled
  BY IdleTyped DEF Init, Unspoiled, Phase, NoKeys, Nothing
<1>2. Typed /\ Unspoiled /\ [Next]_vars => Unspoiled'
  <2> SUFFICES ASSUME Typed, Unspoiled, [Next]_vars, ~spoiled' PROVE Phase'
    BY DEF Unspoiled
  <2>1. CASE Next
    <3>1. ~spoiled /\ ~Racing' /\ \A c \in Callers : ~Cut(c)
      BY <2>1 DEF Next
    <3>2. ASSUME NEW c \in Callers, Step(c) PROVE Phase'
      <4>1. Phase /\ ~Racing' /\ ~Cut(c)
        BY <3>1 DEF Unspoiled
      <4>2. ASSUME NEW k \in Keys, Whole(k) PROVE Phase'
        BY <3>2, <4>2, WholeStep DEF Phase
      <4> QED BY <3>2, <4>1, <4>2, NoKeysStep, MakingStep DEF Phase
    <3> QED BY <2>1, <3>1, <3>2, BootPhase DEF Next, Unspoiled
  <2>2. CASE UNCHANGED vars
    <3>1. Phase
      BY <2>2 DEF Unspoiled, vars
    <3> QED BY <2>2, <3>1 DEF vars, Phase, NoKeys, Making, Whole, Nothing, Same, At
  <2> QED BY <2>1, <2>2
<1> QED BY <1>1, <1>2, TypedHolds, PTL DEF Spec

(* As long as nothing is spoiled, all answers name one key, the one the    *)
(* interface runs with whenever it is up, however calls overlap otherwise, *)
(* fail, or are cut short (vpn/wireguard.go:112-139, 208-227).             *)
THEOREM OneKeyIsNamed == Spec => []AnswersNameTheKey
<1>1. Unspoiled => AnswersNameTheKey
  BY DEF Unspoiled, AnswersNameTheKey, Phase, NoKeys, Making, Whole, Nothing
<1> QED BY <1>1, UnspoiledHolds, PTL

-----------------------------------------------------------------------------
(* A call on its own finds what it wrote, and leaves what it answers.      *)
Asked(c) == [key |-> calls[c].private, peer |-> calls[c].peer]

LoneCall(c) ==
  calls[c].alone =>
    /\ \A d \in Callers : d # c => At(d, "idle")
    /\ calls[c].pc \in {"enable", "restart"} => conf = Asked(c)
    /\ At(c, "restart") => enabled

LoneLast ==
  last # None =>
    /\ Quiet /\ enabled
    /\ conf = [key |-> last.key, peer |-> last.peer] /\ iface = conf

Lone == (\A c \in Callers : LoneCall(c)) /\ LoneLast

LEMMA LoneCallStep ==
  ASSUME Typed, Lone, NEW c \in Callers, Step(c), NEW d \in Callers
  PROVE  LoneCall(d)'
<1>0. LoneCall(c) /\ LoneCall(d)
  BY DEF Lone
<1>1. ASSUME NEW peer \in Clients, Begin(c, peer) PROVE LoneCall(d)'
  BY <1>1, BeginSets DEF LoneCall, Quiet, At
<1>2. CASE ~(\E peer \in Clients : Begin(c, peer))
  <2>1. ~At(c, "idle")
    BY <1>2 DEF Step, At, Generate, WritePrivate, WritePublic, GenerateFails, ReadPrivate,
                ReadPublic, WriteConf, Enable, Restart, Killed
  <2>2. ASSUME NEW r \in Call, calls' = [calls EXCEPT ![c] = r], r.alone => calls[c].alone
        PROVE  /\ calls'[c] = r
               /\ \A e \in Callers : e # c => calls'[e] = calls[e]
               /\ d # c => LoneCall(d)'
               /\ r.alone => \A e \in Callers : e # c => At(e, "idle")'
    <3>1. calls'[c] = r /\ \A e \in Callers : e # c => calls'[e] = calls[e]
      BY <2>2 DEF Typed, TypeOK
    <3>2. d # c => ~calls[d].alone
      BY <1>0, <2>1 DEF LoneCall
    <3>3. r.alone => \A e \in Callers : e # c => At(e, "idle")'
      BY <1>0, <2>2, <3>1 DEF LoneCall, At
    <3> QED BY <3>1, <3>2, <3>3 DEF LoneCall
  <2>3. CASE Return(c)
    BY <2>2, <2>3, IdleTyped DEF Return, LoneCall
  <2>4. ASSUME NEW pc \in PCs, Go(c, pc),
               calls[c].alone => /\ pc \in {"enable", "restart"} => conf' = Asked(c)
                                 /\ pc = "restart" => enabled'
        PROVE  LoneCall(d)'
    <3>1. /\ calls'[c] \in Call /\ calls' = [calls EXCEPT ![c] = calls'[c]]
          /\ calls'[c].alone = calls[c].alone /\ calls'[c].pc = pc
          /\ calls'[c].private = calls[c].private /\ calls'[c].peer = calls[c].peer
      BY <2>4, GoSets, TypedCalls
    <3>2. PICK r \in Call : r = calls'[c]
      BY <3>1
    <3>3. /\ d # c => LoneCall(d)'
          /\ calls'[c].alone => \A e \in Callers : e # c => At(e, "idle")'
      BY <2>2, <3>1, <3>2
    <3> QED BY <2>4, <3>1, <3>3 DEF LoneCall, Asked, At
  <2>5. ASSUME NEW r \in Call, calls' = [calls EXCEPT ![c] = r], r.alone = calls[c].alone,
               r.pc \in {"private", "readPublic", "conf"}
        PROVE  LoneCall(d)'
    BY <2>2, <2>5 DEF LoneCall, At
  <2>6. calls[c] \in Call /\ privatekey \in File /\ publickey \in File
    BY DEF Typed, TypeOK
  <2>7. CASE Generate(c)
    <3> DEFINE r == [calls[c] EXCEPT !.pc = "private", !.key = generated + 1]
    <3>1. generated + 1 \in File
      BY <2>7, WireGuardAssumption DEF Generate, Typed, TypeOK, File, Keys
    <3>2. r \in Call /\ r.alone = calls[c].alone /\ r.pc = "private"
      BY <2>6, <3>1 DEF Call, PCs
    <3>3. calls' = [calls EXCEPT ![c] = r]
      BY <2>7 DEF Generate
    <3> HIDE DEF r
    <3> QED BY <2>5, <3>2, <3>3
  <2>8. CASE WritePrivate(c) \/ WritePublic(c)
    BY <2>4, <2>8 DEF WritePrivate, WritePublic, PCs
  <2>9. CASE ReadPrivate(c)
    <3> DEFINE r == [calls[c] EXCEPT !.pc = "readPublic", !.private = privatekey]
    <3>1. r \in Call /\ r.alone = calls[c].alone /\ r.pc = "readPublic"
      BY <2>6 DEF Call, PCs
    <3>2. calls' = [calls EXCEPT ![c] = r]
      BY <2>9 DEF ReadPrivate
    <3> HIDE DEF r
    <3> QED BY <2>5, <3>1, <3>2
  <2>10. CASE ReadPublic(c)
    <3> DEFINE r == [calls[c] EXCEPT !.pc = "conf", !.public = publickey]
    <3>1. r \in Call /\ r.alone = calls[c].alone /\ r.pc = "conf"
      BY <2>6 DEF Call, PCs
    <3>2. calls' = [calls EXCEPT ![c] = r]
      BY <2>10 DEF ReadPublic
    <3> HIDE DEF r
    <3> QED BY <2>5, <3>1, <3>2
  <2>11. CASE WriteConf(c)
    BY <2>3, <2>4, <2>11 DEF WriteConf, PCs, Asked
  <2>12. CASE Enable(c)
    BY <1>0, <2>3, <2>4, <2>12 DEF Enable, PCs, LoneCall, At, Asked
  <2>13. CASE GenerateFails(c) \/ Restart(c) \/ Killed(c)
    BY <2>3, <2>13 DEF GenerateFails, Restart, Answer, Killed
  <2> QED BY <1>2, <2>7, <2>8, <2>9, <2>10, <2>11, <2>12, <2>13 DEF Step
<1> QED BY <1>1, <1>2

LEMMA LoneLastStep ==
  ASSUME Typed, Phase, Lone, NEW c \in Callers, Step(c)
  PROVE  LoneLast'
<1>0. LoneCall(c) /\ LoneLast
  BY DEF Lone
<1>1. ASSUME NEW peer \in Clients, Begin(c, peer) PROVE LoneLast'
  BY <1>1, BeginSets DEF LoneLast
<1>2. CASE Restart(c) /\ last' # last
  <2>1. /\ Answer(c) /\ iface' = conf /\ At(c, "restart") /\ UNCHANGED <<conf, enabled>>
    BY <1>2 DEF Restart, seen
  <2>2. CASE calls[c].alone
    <3>1. last' = [peer |-> calls[c].peer, key |-> calls[c].public] /\ Return(c)
      BY <2>1, <2>2 DEF Answer
    <3>2. conf = Asked(c) /\ enabled
      BY <1>0, <2>1, <2>2 DEF LoneCall, At
    <3>3. calls[c].private = calls[c].public
      <4>1. PICK k \in Keys : Whole(k)
        BY <2>1 DEF Phase, NoKeys, Making, At
      <4> QED BY <2>1, <4>1 DEF Whole, Same, Readers, At
    <3>4. Quiet'
      BY <1>0, <2>2, <3>1, ReturnSets DEF LoneCall, Quiet, At
    <3> QED BY <2>1, <3>1, <3>2, <3>3, <3>4 DEF LoneLast, Asked
  <2>3. CASE ~calls[c].alone
    BY <2>1, <2>3 DEF Answer, LoneLast
  <2> QED BY <2>2, <2>3
<1>3. CASE last' = last /\ ~At(c, "idle")
  BY <1>0, <1>3 DEF LoneLast, Quiet
<1> QED BY <1>1, <1>2, <1>3
      DEF Step, At, Generate, WritePrivate, WritePublic, GenerateFails, ReadPrivate,
          ReadPublic, WriteConf, Enable, Restart, Killed, seen

LEMMA BootLone ==
  ASSUME Typed, Phase, Lone, Boot
  PROVE  Lone'
<1>0. /\ \A c \in Callers : calls'[c] = Idle
      /\ UNCHANGED <<conf, enabled, last>>
      /\ iface' = IF enabled /\ Valid THEN conf ELSE Down
  BY DEF Boot, seen
<1>1. \A c \in Callers : LoneCall(c)'
  BY <1>0, IdleTyped DEF LoneCall
<1>2. ASSUME last # None PROVE Valid
  <2>1. PICK k \in Keys : Whole(k)
    BY <1>2 DEF Phase, NoKeys, Making, Nothing
  <2>2. last.key = k /\ last.peer \in Clients
    BY <1>2, <2>1 DEF Whole, Typed, TypeOK
  <2>3. conf = [key |-> k, peer |-> last.peer]
    BY <1>2, <2>2 DEF Lone, LoneLast
  <2> QED BY <2>2, <2>3, Numbers DEF Valid, Configuration
<1>3. LoneLast'
  BY <1>0, <1>2, IdleTyped DEF Lone, LoneLast, Quiet, At
<1> QED BY <1>1, <1>3 DEF Lone

(* After an apply on its own the interface serves the peer it was asked    *)
(* for under the key it answered with, and does so after a boot, until the *)
(* next apply begins (vpn/wireguard.go:134-163).                           *)
THEOREM LoneApplyIsServed == Spec => []LoneApplyServes
<1> DEFINE Inv == ~spoiled => Lone
<1>1. Init => Inv
  BY IdleTyped DEF Init, Lone, LoneCall, LoneLast
<1>2. Typed /\ Unspoiled /\ Inv /\ [Next]_vars => Inv'
  <2> SUFFICES ASSUME Typed, Unspoiled, Inv, [Next]_vars, ~spoiled' PROVE Lone'
    OBVIOUS
  <2>1. CASE Next
    <3>1. ~spoiled
      BY <2>1 DEF Next
    <3>2. Phase /\ Lone
      BY <3>1 DEF Unspoiled
    <3>3. ASSUME NEW c \in Callers, Step(c) PROVE Lone'
      BY <3>2, <3>3, LoneCallStep, LoneLastStep DEF Lone
    <3> QED BY <2>1, <3>2, <3>3, BootLone DEF Next
  <2>2. CASE UNCHANGED vars
    BY <2>2 DEF vars, Lone, LoneCall, LoneLast, Asked, Quiet, At
  <2> QED BY <2>1, <2>2
<1>3. Inv => LoneApplyServes
  BY DEF Lone, LoneLast, LoneApplyServes
<1> QED BY <1>1, <1>2, <1>3, TypedHolds, UnspoiledHolds, PTL DEF Spec

=============================================================================
