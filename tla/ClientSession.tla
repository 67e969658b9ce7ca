---------------------------- MODULE ClientSession ----------------------------
(***************************************************************************)
(* The client's Signal sessions (apps/client/lib/src/services/             *)
(* crypto_service.dart, session_cache.dart) around the ratchet: one        *)
(* session slot per client in memory and one in secure storage, live       *)
(* encrypt and decrypt under the per-session lock with a write-ahead save, *)
(* history decryption without the lock, cache eviction, failing storage    *)
(* calls and process death at every await.  The server delivers each       *)
(* client's messages in order and once; what it loses or repeats is the    *)
(* subject of MessageDelivery.                                             *)
(*                                                                         *)
(* A step ends where the code awaits secure storage.  session.encrypt and  *)
(* session.decrypt await only cryptographic primitives and are one step    *)
(* each.                                                                   *)
(***************************************************************************)
EXTENDS DoubleRatchet

CONSTANTS
    Initiators,    \* clients that may open a session with X3DH
    HistoryOf,     \* decryptHistoryMessage is asked for messages whose live
                   \* delivery is one of these outcomes ({}: it never runs)
    MaxSends,      \* bound: messages per client
    MaxIncidents,  \* bound: process deaths, failing storage calls, evictions
                   \* and history decryptions, together
    MaxHistory     \* bound: history decryptions

Client == {"alice", "bob"}

Peer(c) == CHOOSE d \in Client : d # c

ASSUME ClientSessionBounds ==
    /\ Initiators \subseteq Client
    /\ HistoryOf \subseteq {"sent", "accepted", "failed"}
    /\ MaxSends \in Nat /\ MaxIncidents \in Nat /\ MaxHistory \in Nat

VARIABLES
    mem,        \* mem[c]: the cached session object (_sessions), or NoSession
    disk,       \* disk[c]: the stored session, or NoSession
    op,         \* op[c]: the operation holding c's session lock
    hist,       \* hist[c]: the history decryption, which holds no lock
    keypairs,   \* keypairs[c]: key pairs generated (0 is the signed prekey)
    wire,       \* messages sent: [from, init, secret, m]
    got,        \* got[c]: how many of the peer's messages reached c
    outcome,    \* outcome[i]: "sent", "accepted" or "failed" (live delivery)
    budget,     \* incidents and history decryptions left
    overlapped  \* history: clients whose history decryption ran beside an operation

vars == <<mem, disk, op, hist, keypairs, wire, got, outcome, budget, overlapped>>

NoSession == [root |-> <<>>]

(***************************************************************************)
(* A running operation or history decryption: where it is (pc), the        *)
(* session object it works on (s: the cached one, or an object that is not *)
(* or no longer in the cache), the message it handles (i) and what it      *)
(* carries along (x).                                                      *)
(***************************************************************************)
Cached == [cached |-> TRUE]
Idle == [pc |-> "idle", s |-> NoSession]
Object(c, h) == IF h.s = Cached THEN mem[c] ELSE h.s

PublicKey(c, i) == <<c, i>>

SentBy(c) == { i \in DOMAIN wire : wire[i].from = c }

(* The n-th message of client c, as its index in wire. *)
NthOf(c, n) == CHOOSE i \in SentBy(c) : Cardinality({ j \in SentBy(c) : j <= i }) = n

NextFor(c) == NthOf(Peer(c), got[c] + 1)

HasNext(c) == got[c] < Cardinality(SentBy(Peer(c)))

Encrypting == {"reading", "read", "presave", "newsave", "encrypt", "save", "put", "sending"}
Decrypting == {"dropping", "responding", "initsave", "loading", "loaded", "before",
               "isolate", "stored", "clearing"}

TypeOK ==
    /\ \A c \in Client :
         /\ op[c].pc \in {"idle"} \cup Encrypting \cup Decrypting
         /\ hist[c].pc \in {"idle", "reading", "read", "decrypt", "save", "put"}
         /\ got[c] \in 0 .. Cardinality(SentBy(Peer(c)))
    (* Whoever works on the cached object finds one in the cache. *)
    /\ \A c \in Client : (op[c].s = Cached \/ hist[c].s = Cached) => mem[c] # NoSession
    /\ keypairs \in [Client -> Nat \ {0}]
    /\ outcome \in [DOMAIN wire -> {"sent", "accepted", "failed"}]
    /\ budget \in [incident : 0 .. MaxIncidents, history : 0 .. MaxHistory]
    /\ overlapped \subseteq Client

Init ==
    /\ mem = [c \in Client |-> NoSession]
    /\ disk = [c \in Client |-> NoSession]
    /\ op = [c \in Client |-> Idle]
    /\ hist = [c \in Client |-> Idle]
    /\ keypairs = [c \in Client |-> 1]
    /\ wire = <<>>
    /\ got = [c \in Client |-> 0]
    /\ outcome = <<>>
    /\ budget = [incident |-> MaxIncidents, history |-> MaxHistory]
    /\ overlapped = {}

(***************************************************************************)
(* Replacing or removing the cached object zeroes its key material, also   *)
(* under somebody who still works on it.                                   *)
(***************************************************************************)
Zeroed(s) ==
    [s EXCEPT !.root = ZeroChain, !.sendCk = ZeroChain, !.skipped = {},
              !.recvCk = IF @ = NoChain THEN @ ELSE ZeroChain]

Detached(h, c) == IF h.s = Cached THEN [h EXCEPT !.s = Zeroed(mem[c])] ELSE h

(* SessionCache.put of an object, and what it does to the other holder h. *)
Put(c, s) == mem' = IF s = Cached THEN mem ELSE [mem EXCEPT ![c] = s]
Bystander(h, c, s) == IF s = Cached THEN h ELSE Detached(h, c)

(* SessionCache.remove. *)
Remove(c) == mem' = [mem EXCEPT ![c] = NoSession]

(* The operation goes on, or ends; a storage call it awaits fails. *)
Goto(c, pc) == op' = [op EXCEPT ![c].pc = pc]
End(c) == op' = [op EXCEPT ![c] = Idle]
Incident == budget.incident > 0 /\ budget' = [budget EXCEPT !.incident = @ - 1]

(* The operation puts the object it holds into the cache. *)
PutOwn(c, pc) ==
    /\ Put(c, op[c].s)
    /\ hist' = [hist EXCEPT ![c] = Bystander(@, c, op[c].s)]
    /\ op' = [op EXCEPT ![c].pc = pc, ![c].s = Cached]

(* The operation creates an object and puts it into the cache. *)
PutNew(c, s, h) ==
    /\ Put(c, s)
    /\ hist' = [hist EXCEPT ![c] = Bystander(@, c, s)]
    /\ op' = [op EXCEPT ![c] = h]

(* What starts runs beside h, the operation or history decryption of the same client. *)
Beside(c, h) == overlapped' = IF h = Idle THEN overlapped ELSE overlapped \cup {c}

-----------------------------------------------------------------------------
(***************************************************************************)
(* encryptForAllDevices for one device.  Begin: take the lock and look the *)
(* session up in the cache.                                                *)
(***************************************************************************)
EncryptBegin(c) ==
    /\ op[c] = Idle
    /\ Cardinality(SentBy(c)) < MaxSends
    /\ c \in Initiators \/ mem[c] # NoSession \/ disk[c] # NoSession
    /\ op' = [op EXCEPT ![c] = IF mem[c] # NoSession
                               THEN [pc |-> "presave", s |-> Cached, i |-> 0, x |-> <<>>]
                               ELSE [pc |-> "reading", s |-> NoSession, i |-> 0, x |-> <<>>]]
    /\ Beside(c, hist[c])
    /\ UNCHANGED <<mem, disk, hist, keypairs, wire, got, outcome, budget>>

(* _reloadSession, in an encrypt or in a live decrypt: the store answers. *)
ReloadRead(c) ==
    /\ op[c].pc \in {"reading", "loading"}
    /\ op' = [op EXCEPT ![c].s = disk[c],
                        ![c].pc = IF op[c].pc = "reading" THEN "read" ELSE "loaded"]
    /\ UNCHANGED <<mem, disk, hist, keypairs, wire, got, outcome, budget, overlapped>>

(***************************************************************************)
(* The stored session is put into the cache without looking at it again;   *)
(* without one, X3DH creates a session (ephemeral and first ratchet key    *)
(* are generated here).                                                    *)
(***************************************************************************)
EncryptReload(c) ==
    /\ op[c].pc = "read"
    /\ IF op[c].s # NoSession
       THEN PutOwn(c, "presave") /\ UNCHANGED keypairs
       ELSE /\ LET secret == <<{PublicKey(c, keypairs[c])}>>
                   s == InitAlice(secret, PublicKey(c, keypairs[c] + 1), PublicKey(Peer(c), 0))
               IN  PutNew(c, s, [pc |-> "newsave", s |-> Cached, i |-> 0, x |-> secret])
            /\ keypairs' = [keypairs EXCEPT ![c] = @ + 2]
    /\ UNCHANGED <<disk, wire, got, outcome, budget, overlapped>>

(* A known session is saved before it is touched, a new one once it is cached. *)
EncryptPresave(c) ==
    /\ op[c].pc \in {"presave", "newsave"}
    /\ disk' = [disk EXCEPT ![c] = Object(c, op[c])]
    /\ Goto(c, "encrypt")
    /\ UNCHANGED <<mem, hist, keypairs, wire, got, outcome, budget, overlapped>>

(* session.encrypt advances the object in place. *)
EncryptStep(c) ==
    /\ op[c].pc = "encrypt"
    /\ LET s == Object(c, op[c])
           w == [from |-> c, init |-> op[c].x # <<>>, secret |-> op[c].x, m |-> Encrypted(s)]
       IN  IF op[c].s = Cached
           THEN /\ mem' = [mem EXCEPT ![c] = AfterEncrypt(s)]
                /\ op' = [op EXCEPT ![c].pc = "save", ![c].x = w]
           ELSE /\ op' = [op EXCEPT ![c].pc = "save", ![c].x = w, ![c].s = AfterEncrypt(s)]
                /\ UNCHANGED mem
    /\ UNCHANGED <<disk, hist, keypairs, wire, got, outcome, budget, overlapped>>

\* Mutant: the advanced session is not saved.
EncryptSaveNothing(c) ==
    /\ op[c].pc = "save"
    /\ Goto(c, "put")
    /\ UNCHANGED <<mem, disk, hist, keypairs, wire, got, outcome, budget, overlapped>>

(* The save that follows it. *)
EncryptSave(c) ==
    /\ op[c].pc = "save"
    /\ disk' = [disk EXCEPT ![c] = Object(c, op[c])]
    /\ Goto(c, "put")
    /\ UNCHANGED <<mem, hist, keypairs, wire, got, outcome, budget, overlapped>>

(***************************************************************************)
(* The read or one of the three saves fails (keyring locked): no           *)
(* ciphertext for this device.  The cached session stays as it is: new and *)
(* never announced, or one message ahead of the stored one.                *)
(***************************************************************************)
EncryptStorageFails(c) ==
    /\ op[c].pc \in {"reading", "presave", "newsave", "save"}
    /\ Incident
    /\ End(c)
    /\ UNCHANGED <<mem, disk, hist, keypairs, wire, got, outcome, overlapped>>

(* The object is put back, for the cache's order. *)
EncryptPut(c) ==
    /\ op[c].pc = "put"
    /\ PutOwn(c, "sending")
    /\ UNCHANGED <<disk, keypairs, wire, got, outcome, budget, overlapped>>

(* The lock is released and the ciphertext leaves in a WebSocket frame. *)
EncryptSend(c) ==
    /\ op[c].pc = "sending"
    /\ wire' = Append(wire, op[c].x)
    /\ outcome' = Append(outcome, "sent")
    /\ End(c)
    /\ UNCHANGED <<mem, disk, hist, keypairs, got, budget, overlapped>>

-----------------------------------------------------------------------------
(* The live decryption of a message ends. *)
Finish(c, result) ==
    /\ outcome' = [outcome EXCEPT ![op[c].i] = result]
    /\ End(c)

(***************************************************************************)
(* decryptMessage of an initial message: _clearStaleSession drops the      *)
(* cached session, and then its stored copy, before anything is verified.  *)
(* A session that is only stored stays.                                    *)
(***************************************************************************)
DecryptInitialBegin(c) ==
    /\ op[c] = Idle /\ HasNext(c) /\ wire[NextFor(c)].init
    /\ Remove(c)
    /\ hist' = [hist EXCEPT ![c] = Detached(@, c)]
    /\ op' = [op EXCEPT ![c] =
                 [pc |-> IF mem[c] # NoSession THEN "dropping" ELSE "responding",
                  s |-> NoSession, i |-> NextFor(c), x |-> <<>>]]
    /\ got' = [got EXCEPT ![c] = @ + 1]
    /\ Beside(c, hist[c])
    /\ UNCHANGED <<disk, keypairs, wire, outcome, budget>>

DecryptInitialDrop(c) ==
    /\ op[c].pc = "dropping"
    /\ disk' = [disk EXCEPT ![c] = NoSession]
    /\ Goto(c, "responding")
    /\ UNCHANGED <<mem, hist, keypairs, wire, got, outcome, budget, overlapped>>

Respond(c, i) ==
    Decrypt(InitBob(wire[i].secret, PublicKey(c, 0)), wire[i].m, PublicKey(c, keypairs[c]))

(* X3DH.respond, initBob, decrypt; the session is kept only if it opened the message. *)
DecryptInitialRespond(c) ==
    /\ op[c].pc = "responding"
    /\ LET r == Respond(c, op[c].i)
       IN  IF r.ok
           THEN /\ PutNew(c, r.st, [op[c] EXCEPT !.pc = "initsave", !.s = Cached])
                /\ UNCHANGED outcome
           ELSE Finish(c, "failed") /\ UNCHANGED <<mem, hist>>
    /\ keypairs' = [keypairs EXCEPT ![c] = @ + 1]
    /\ UNCHANGED <<disk, wire, got, budget, overlapped>>

DecryptInitialSave(c) ==
    /\ op[c].pc = "initsave"
    /\ disk' = [disk EXCEPT ![c] = Object(c, op[c])]
    /\ Finish(c, "accepted")
    /\ UNCHANGED <<mem, hist, keypairs, wire, got, budget, overlapped>>

(***************************************************************************)
(* _decryptNormalMessage.  Begin: look the session up; a cached one is     *)
(* serialised for the isolate (x).                                         *)
(***************************************************************************)
DecryptNormalBegin(c) ==
    /\ op[c] = Idle /\ HasNext(c) /\ ~wire[NextFor(c)].init
    /\ got' = [got EXCEPT ![c] = @ + 1]
    /\ op' = [op EXCEPT ![c] =
                 IF mem[c] # NoSession
                 THEN [pc |-> "before", s |-> Cached, i |-> NextFor(c), x |-> mem[c]]
                 ELSE [pc |-> "loading", s |-> NoSession, i |-> NextFor(c), x |-> NoSession]]
    /\ Beside(c, hist[c])
    /\ UNCHANGED <<mem, disk, hist, keypairs, wire, outcome, budget>>

(* The reloaded session is put; without one the message is given up. *)
DecryptNormalReload(c) ==
    /\ op[c].pc = "loaded"
    /\ IF op[c].s # NoSession
       THEN /\ PutNew(c, op[c].s, [op[c] EXCEPT !.pc = "before", !.s = Cached, !.x = op[c].s])
            /\ UNCHANGED outcome
       ELSE Finish(c, "failed") /\ UNCHANGED <<mem, hist>>
    /\ UNCHANGED <<disk, keypairs, wire, got, budget, overlapped>>

(* The write-ahead save of the object, which the isolate does not see. *)
DecryptNormalPresave(c) ==
    /\ op[c].pc = "before"
    /\ disk' = [disk EXCEPT ![c] = Object(c, op[c])]
    /\ Goto(c, "isolate")
    /\ UNCHANGED <<mem, hist, keypairs, wire, got, outcome, budget, overlapped>>

Isolate(c) == Decrypt(op[c].x, wire[op[c].i].m, PublicKey(c, keypairs[c]))

NewKeypairs(c, r, s) ==
    [keypairs EXCEPT ![c] = @ + (IF r.st.myPub = s.myPub THEN 0 ELSE 1)]

(* The isolate's state is stored ... *)
DecryptNormalSave(c) ==
    /\ op[c].pc = "isolate" /\ Isolate(c).ok
    /\ disk' = [disk EXCEPT ![c] = Isolate(c).st]
    /\ op' = [op EXCEPT ![c].pc = "stored", ![c].s = Isolate(c).st]
    /\ keypairs' = NewKeypairs(c, Isolate(c), op[c].x)
    /\ UNCHANGED <<mem, hist, wire, got, outcome, budget, overlapped>>

(* ... and then replaces the cached object. *)
DecryptNormalPut(c) ==
    /\ op[c].pc = "stored"
    /\ Put(c, op[c].s)
    /\ hist' = [hist EXCEPT ![c] = Bystander(@, c, op[c].s)]
    /\ Finish(c, "accepted")
    /\ UNCHANGED <<disk, keypairs, wire, got, budget, overlapped>>

(* "Clear stale session": the cached object first, the stored one in the next step. *)
DecryptNormalFails(c) ==
    /\ op[c].pc = "isolate" /\ ~Isolate(c).ok
    /\ Remove(c)
    /\ hist' = [hist EXCEPT ![c] = Detached(@, c)]
    /\ op' = [op EXCEPT ![c].pc = "clearing", ![c].s = NoSession]
    /\ UNCHANGED <<disk, keypairs, wire, got, outcome, budget, overlapped>>

DecryptNormalClear(c) ==
    /\ op[c].pc = "clearing"
    /\ disk' = [disk EXCEPT ![c] = NoSession]
    /\ Finish(c, "failed")
    /\ UNCHANGED <<mem, hist, keypairs, wire, got, budget, overlapped>>

(***************************************************************************)
(* A storage call of the live decryption fails: the error reaches the      *)
(* caller, the message is not shown, and the session stays as the steps    *)
(* before left it.                                                         *)
(***************************************************************************)
DecryptStorageFails(c) ==
    /\ \/ op[c].pc \in {"dropping", "initsave", "loading", "before", "clearing"}
       \/ op[c].pc = "isolate" /\ Isolate(c).ok
    /\ Incident
    /\ Finish(c, "failed")
    /\ UNCHANGED <<mem, disk, hist, keypairs, wire, got, overlapped>>

-----------------------------------------------------------------------------
(***************************************************************************)
(* decryptHistoryMessage: no lock.  Initial messages are skipped.          *)
(***************************************************************************)
HistoryBegin(c, i) ==
    /\ budget.history > 0 /\ budget.incident > 0 /\ hist[c] = Idle
    /\ i \in SentBy(Peer(c)) /\ outcome[i] \in HistoryOf /\ ~wire[i].init
    /\ hist' = [hist EXCEPT ![c] = IF mem[c] # NoSession
                                   THEN [pc |-> "decrypt", s |-> Cached, i |-> i]
                                   ELSE [pc |-> "reading", s |-> NoSession, i |-> i]]
    /\ budget' = [incident |-> budget.incident - 1, history |-> budget.history - 1]
    /\ Beside(c, op[c])
    /\ UNCHANGED <<mem, disk, op, keypairs, wire, got, outcome>>

(* _reloadSession: the store answers; nothing stored ends it. *)
HistoryRead(c) ==
    /\ hist[c].pc = "reading"
    /\ hist' = [hist EXCEPT ![c] = IF disk[c] = NoSession THEN Idle
                                   ELSE [@ EXCEPT !.pc = "read", !.s = disk[c]]]
    /\ UNCHANGED <<mem, disk, op, keypairs, wire, got, outcome, budget, overlapped>>

(* The answer is put over whatever is cached by then. *)
HistoryReload(c) ==
    /\ hist[c].pc = "read"
    /\ Put(c, hist[c].s)
    /\ op' = [op EXCEPT ![c] = Detached(@, c)]
    /\ hist' = [hist EXCEPT ![c].pc = "decrypt", ![c].s = Cached]
    /\ UNCHANGED <<disk, keypairs, wire, got, outcome, budget, overlapped>>

(* session.decrypt in place; failure leaves the object as the ratchet left it. *)
HistoryDecrypt(c) ==
    /\ hist[c].pc = "decrypt"
    /\ LET s == Object(c, hist[c])
           r == Decrypt(s, wire[hist[c].i].m, PublicKey(c, keypairs[c]))
           h == [hist[c] EXCEPT !.pc = "save", !.s = IF @ = Cached THEN @ ELSE r.st]
       IN  /\ mem' = IF hist[c].s = Cached THEN [mem EXCEPT ![c] = r.st] ELSE mem
           /\ hist' = [hist EXCEPT ![c] = IF r.ok THEN h ELSE Idle]
           /\ keypairs' = NewKeypairs(c, r, s)
    /\ UNCHANGED <<disk, op, wire, got, outcome, budget, overlapped>>

(* The object is stored, which may have been zeroed meanwhile, or the save fails ... *)
HistorySave(c) ==
    /\ hist[c].pc = "save"
    /\ \/ /\ disk' = [disk EXCEPT ![c] = Object(c, hist[c])]
          /\ hist' = [hist EXCEPT ![c].pc = "put"]
          /\ UNCHANGED budget
       \/ /\ Incident
          /\ hist' = [hist EXCEPT ![c] = Idle]
          /\ UNCHANGED disk
    /\ UNCHANGED <<mem, op, keypairs, wire, got, outcome, overlapped>>

(* ... and put back. *)
HistoryPut(c) ==
    /\ hist[c].pc = "put"
    /\ Put(c, hist[c].s)
    /\ op' = [op EXCEPT ![c] = Bystander(@, c, hist[c].s)]
    /\ hist' = [hist EXCEPT ![c] = Idle]
    /\ UNCHANGED <<disk, keypairs, wire, got, outcome, budget, overlapped>>

\* Mutant: an entry is evicted while an operation uses it.
EvictDuringOperation(c) ==
    /\ mem[c] # NoSession
    /\ Incident
    /\ Remove(c)
    /\ UNCHANGED <<disk, op, hist, keypairs, wire, got, outcome, overlapped>>

(* SessionCache drops an entry idle for its TTL; nobody is using it. *)
EvictExpired(c) ==
    /\ op[c].s # Cached /\ hist[c].s # Cached /\ mem[c] # NoSession
    /\ Incident
    /\ Remove(c)
    /\ UNCHANGED <<disk, op, hist, keypairs, wire, got, outcome, overlapped>>

(* The process dies between two awaits; the next start runs _loadSessions. *)
Crash(c) ==
    /\ Incident
    /\ mem' = [mem EXCEPT ![c] = disk[c]]
    /\ op' = [op EXCEPT ![c] = Idle]
    /\ hist' = [hist EXCEPT ![c] = Idle]
    /\ outcome' = IF op[c].pc \in Decrypting
                  THEN [outcome EXCEPT ![op[c].i] = "failed"] ELSE outcome
    /\ UNCHANGED <<disk, keypairs, wire, got, overlapped>>

Step(c) ==
    \/ EncryptBegin(c) \/ ReloadRead(c) \/ EncryptReload(c) \/ EncryptPresave(c)
    \/ EncryptStep(c) \/ EncryptSave(c) \/ EncryptStorageFails(c) \/ EncryptPut(c) \/ EncryptSend(c)
    \/ DecryptInitialBegin(c) \/ DecryptInitialDrop(c) \/ DecryptInitialRespond(c)
    \/ DecryptInitialSave(c)
    \/ DecryptNormalBegin(c) \/ DecryptNormalReload(c) \/ DecryptNormalPresave(c)
    \/ DecryptNormalSave(c) \/ DecryptNormalPut(c) \/ DecryptNormalFails(c)
    \/ DecryptNormalClear(c) \/ DecryptStorageFails(c)
    \/ \E i \in DOMAIN wire : HistoryBegin(c, i)
    \/ HistoryRead(c) \/ HistoryReload(c) \/ HistoryDecrypt(c) \/ HistorySave(c) \/ HistoryPut(c)
    \/ EvictExpired(c) \/ Crash(c)

Next == \E c \in Client : Step(c)

Spec == Init /\ [][Next]_vars

-----------------------------------------------------------------------------
(***************************************************************************)
(* A message key protects one ciphertext: no two frames that left a client *)
(* use the same key, although crashes, failing saves and reloads take the  *)
(* sender back to a session it stored before or after encrypting.  The     *)
(* session lock and the write-ahead save give this; history decryption     *)
(* takes no lock, so it is stated for clients whose history decryption has *)
(* not run beside an encrypt or a live decrypt.                            *)
(***************************************************************************)
WireKeysDistinct ==
    \A i, j \in DOMAIN wire :
        i # j /\ wire[i].m.key = wire[j].m.key => wire[i].from \in overlapped

(* The message that opened the session m was encrypted in, if it was accepted. *)
Opened(i) ==
    \E j \in 1 .. i : wire[j].init /\ outcome[j] = "accepted"

(* A message that is being decrypted in an opened session decrypts. *)
InStep == \A c \in Client : (op[c].pc = "isolate" /\ Opened(op[c].i)) => Isolate(c).ok

=============================================================================
