------------------------------ MODULE WireGuard ------------------------------
(***************************************************************************)
(* Applying the VPN configuration (vpn/wireguard.go Apply, ensureKeys):    *)
(* a call makes the server's key pair if one of its two files is missing,  *)
(* writes the configuration with the private key and the one peer that is  *)
(* asked for, enables and restarts the interface, and answers with the     *)
(* public key.  Calls share the files and no lock.                         *)
(*                                                                         *)
(* wg, systemctl and the file system are external.  Each command, and the  *)
(* write of the configuration, may fail, the process may end at any point  *)
(* and the host may boot.                                                  *)
(* A key stands for both halves of its pair.  Installing the tools, and    *)
(* what Status reads, change nothing that is modelled.                     *)
(***************************************************************************)
EXTENDS Naturals

CONSTANTS
  Callers,          \* goroutines in Apply
  Clients,          \* client public keys that are asked for
  Broken,           \* a configuration cut while written, or no file
  Down,             \* no interface
  MaxKeys,          \* BOUND: key pairs ever generated
  MaxApplies        \* BOUND: calls of Apply

VARIABLES
  privatekey, publickey,    \* the files of KeysDir
  conf, enabled,    \* the configuration file; systemctl enable
  iface,            \* external: the configuration the interface runs with
  calls,            \* caller -> where it is and its local variables
  generated,        \* counts the key pairs, for the bound
  applies,          \* counts the calls, for the bound
  answered,         \* auxiliary: the public keys that answers have named
  last,             \* auxiliary: peer and key of the last answer, if its call
                    \* was on its own and none has begun since
  spoiled           \* auxiliary: a key pair was made while another call was
                    \* about to make or read one, or was left half-written

vars == <<privatekey, publickey, conf, enabled, iface, calls, generated,
          applies, answered, last, spoiled>>

files == <<privatekey, publickey>>
tunnel == <<conf, enabled, iface>>
counts == <<generated, applies>>
seen == <<answered, last>>

Keys    == 1 .. MaxKeys
Missing == 0                        \* there is no file
Empty   == MaxKeys + 1              \* a file with nothing in it
File    == Keys \cup {Missing, Empty}

Configuration == [key : Keys \cup {Empty}, peer : Clients]
None == [peer |-> Down]             \* last: there is no such answer

ASSUME WireGuardAssumption ==
  /\ MaxKeys \in Nat
  /\ MaxApplies \in Nat
  /\ Broken \notin Configuration

PCs == {"idle", "generate", "private", "public", "readPrivate", "readPublic",
        "conf", "enable", "restart"}
Call == [pc : PCs, peer : Clients \cup {Down}, key : File, private : File,
         public : File, alone : BOOLEAN]
Idle == [pc |-> "idle", peer |-> Down, key |-> Missing, private |-> Missing,
         public |-> Missing, alone |-> FALSE]

At(c, pc) == calls[c].pc = pc
Quiet == \A c \in Callers : At(c, "idle")

Go(c, pc) == calls' = [calls EXCEPT ![c] = [@ EXCEPT !.pc = pc]]
Return(c) == calls' = [calls EXCEPT ![c] = Idle]

MakesKeys(c) == calls[c].pc \in {"private", "public"}
NeedsKeys(c) == calls[c].pc \in {"generate", "private", "public", "readPrivate", "readPublic"}
Racing == \E c, d \in Callers : c # d /\ MakesKeys(c) /\ NeedsKeys(d)
Cut(c) == At(c, "idle")' /\ (MakesKeys(c) \/ (At(c, "generate") /\ files' # files))

-----------------------------------------------------------------------------
(* ensureKeys.                                                             *)

(* Deviation: keys are made for every call. *)
KeysWanted == TRUE

(* Deviation: only the private key is looked for. *)
PrivateMissing == privatekey = Missing

KeysMissing == privatekey = Missing \/ publickey = Missing

Begin(c, peer) ==
  /\ At(c, "idle")
  /\ applies < MaxApplies
  /\ applies' = applies + 1
  /\ calls' = [d \in Callers |->
       IF d # c THEN [calls[d] EXCEPT !.alone = FALSE]
       ELSE [Idle EXCEPT !.pc = IF KeysMissing THEN "generate" ELSE "readPrivate",
                         !.peer = peer, !.alone = Quiet]]
  /\ last' = None
  /\ UNCHANGED <<files, tunnel, generated, answered>>

(* The shell's pipeline empties both files, and tee and wg write them.     *)
Generate(c) ==
  /\ At(c, "generate")
  /\ generated < MaxKeys
  /\ generated' = generated + 1
  /\ privatekey' = Empty
  /\ publickey' = Empty
  /\ calls' = [calls EXCEPT ![c] = [@ EXCEPT !.pc = "private", !.key = generated + 1]]
  /\ UNCHANGED <<tunnel, applies, seen>>

WritePrivate(c) ==
  /\ At(c, "private")
  /\ privatekey' = calls[c].key
  /\ Go(c, "public")
  /\ UNCHANGED <<publickey, tunnel, counts, seen>>

WritePublic(c) ==
  /\ At(c, "public")
  /\ publickey' = calls[c].key
  /\ Go(c, "readPrivate")
  /\ UNCHANGED <<privatekey, tunnel, counts, seen>>

(* A pipeline that fails before tee and wg have opened both files.         *)
GenerateFails(c) ==
  /\ At(c, "generate")
  /\ privatekey' \in {privatekey, Empty}
  /\ publickey' \in {publickey, Empty}
  /\ Return(c)
  /\ UNCHANGED <<tunnel, counts, seen>>

ReadPrivate(c) ==
  /\ At(c, "readPrivate")
  /\ calls' = [calls EXCEPT ![c] = [@ EXCEPT !.pc = "readPublic", !.private = privatekey]]
  /\ UNCHANGED <<files, tunnel, counts, seen>>

ReadPublic(c) ==
  /\ At(c, "readPublic")
  /\ calls' = [calls EXCEPT ![c] = [@ EXCEPT !.pc = "conf", !.public = publickey]]
  /\ UNCHANGED <<files, tunnel, counts, seen>>

-----------------------------------------------------------------------------
(* The configuration and the interface.                                    *)

WriteConf(c) ==
  /\ At(c, "conf")
  /\ \/ conf' = [key |-> calls[c].private, peer |-> calls[c].peer] /\ Go(c, "enable")
     \/ conf' = Broken /\ Return(c)
  /\ UNCHANGED <<files, enabled, iface, counts, seen>>

Enable(c) ==
  /\ At(c, "enable")
  /\ \/ enabled' = TRUE /\ Go(c, "restart")
     \/ UNCHANGED enabled /\ Return(c)
  /\ UNCHANGED <<files, conf, iface, counts, seen>>

Valid == conf \in Configuration /\ conf.key # Empty

Answer(c) ==
  /\ answered' = answered \cup {calls[c].public}
  /\ last' = IF calls[c].alone THEN [peer |-> calls[c].peer, key |-> calls[c].public] ELSE None
  /\ Return(c)

(* Deviation: the error of the restart is dropped. *)
RestartErrorDropped(c) ==
  /\ At(c, "restart")
  /\ iface' \in {Down, iface} \cup (IF Valid THEN {conf} ELSE {})
  /\ Answer(c)
  /\ UNCHANGED <<files, conf, enabled, counts>>

(* wg-quick takes the interface down before it reads the configuration. *)
Restart(c) ==
  /\ At(c, "restart")
  /\ \/ Valid /\ iface' = conf /\ Answer(c)
     \/ iface' \in {Down, iface} /\ Return(c) /\ UNCHANGED seen
  /\ UNCHANGED <<files, conf, enabled, counts>>

-----------------------------------------------------------------------------
(* A call ends early: its client goes away and its command is killed, or   *)
(* the process ends.                                                       *)
Killed(c) ==
  /\ ~At(c, "idle")
  /\ Return(c)
  /\ UNCHANGED <<files, tunnel, counts, seen>>

(* The host boots. *)
Boot ==
  /\ calls' = [c \in Callers |-> Idle]
  /\ iface' = IF enabled /\ Valid THEN conf ELSE Down
  /\ UNCHANGED <<files, conf, enabled, counts, seen>>

Init ==
  /\ privatekey = Missing
  /\ publickey = Missing
  /\ conf = Broken
  /\ enabled = FALSE
  /\ iface = Down
  /\ calls = [c \in Callers |-> Idle]
  /\ generated = 0
  /\ applies = 0
  /\ answered = {}
  /\ last = None
  /\ spoiled = FALSE

Step(c) ==
  \/ \E peer \in Clients : Begin(c, peer)
  \/ Generate(c) \/ WritePrivate(c) \/ WritePublic(c) \/ GenerateFails(c)
  \/ ReadPrivate(c) \/ ReadPublic(c)
  \/ WriteConf(c) \/ Enable(c) \/ Restart(c)
  \/ Killed(c)

Next ==
  /\ (\E c \in Callers : Step(c)) \/ Boot
  /\ spoiled' = (spoiled \/ Racing' \/ \E c \in Callers : Cut(c))

Spec == Init /\ [][Next]_vars

-----------------------------------------------------------------------------
(* Every variable has its type; a call that reads the keys finds both      *)
(* files, and no empty private key reaches the interface                   *)
(* (vpn/wireguard.go:200-227).                                             *)
TypeOK ==
  /\ {privatekey, publickey} \subseteq File
  /\ conf \in Configuration \cup {Broken}
  /\ iface \in Configuration \cup {Down}
  /\ {enabled, spoiled} \subseteq BOOLEAN
  /\ calls \in [Callers -> Call]
  /\ generated \in 0 .. MaxKeys
  /\ applies \in 0 .. MaxApplies
  /\ answered \subseteq File
  /\ last = None \/ last \in [peer : Clients, key : File]
  /\ \A c \in Callers : calls[c].pc \in {"readPrivate", "readPublic"} => Missing \notin {privatekey, publickey}
  /\ iface # Down => iface.key # Empty

(* As long as no key pair was made while another call was about to make or *)
(* read one, or left half-written, all answers name one key, the one the   *)
(* interface runs with whenever it is up, however calls overlap otherwise, *)
(* fail, or are cut short (vpn/wireguard.go:112-139, 208-227).             *)
AnswersNameTheKey ==
  ~spoiled /\ answered # {} =>
    \E k \in Keys : answered = {k} /\ (iface # Down => iface.key = k)

(* After an apply on its own the interface serves the peer it was asked    *)
(* for under the key it answered with, and does so after a boot, until the *)
(* next apply begins (vpn/wireguard.go:134-163).                           *)
LoneApplyServes ==
  ~spoiled /\ last # None => iface = [key |-> last.key, peer |-> last.peer]
=============================================================================
