------------------------------- MODULE Ratchet -------------------------------
(***************************************************************************)
(* Two sessions of core/rust-core/src/signal/session.rs talking to each    *)
(* other: create_session gave Alice her state, accept_session gave Bob     *)
(* his, and each may encrypt and decrypt in place.  The network is the     *)
(* message store and the socket: it loses, reorders and (Redeliver)        *)
(* repeats messages, and delivers nothing that was not sent.               *)
(***************************************************************************)
EXTENDS DoubleRatchet

CONSTANTS
    MaxSends,        \* bound: MaxSends[p] messages are encrypted by p
    MaxRedeliveries  \* bound: repeated deliveries in a run (0: none)

Party == {"alice", "bob"}

ASSUME RatchetBounds ==
    MaxSends \in [Party -> Nat] /\ MaxRedeliveries \in Nat

Peer(p) == CHOOSE q \in Party : q # p

VARIABLES
    st,         \* st[p]: the RatchetState of p
    keypairs,   \* keypairs[p]: ratchet key pairs p has generated
    sent,       \* everything encrypted, in order: [from, m]
    tried,      \* indices of sent that reached the peer's decrypt
    accepted,   \* accepted[i]: how often decrypt returned Ok for sent[i]
    again,      \* repeated deliveries so far
    overrun     \* history: parties whose decrypt met a cap

vars == <<st, keypairs, sent, tried, accepted, again, overrun>>

PublicKey(p, i) == <<p, i>>

SharedSecret == <<>>    \* the X3DH output both sides start from

TypeOK ==
    /\ keypairs \in [Party -> Nat]
    /\ sent \in Seq([from : Party, m : [pub : Party \X Nat, pn : Nat, n : Nat,
                     key : [ck : Seq(SUBSET (Party \X Nat)), n : Nat]]])
    /\ tried \subseteq DOMAIN sent
    /\ accepted \in [DOMAIN sent -> Nat]
    /\ again \in 0 .. MaxRedeliveries
    /\ overrun \subseteq Party
    /\ \A p \in Party : /\ st[p].ns \in Nat /\ st[p].nr \in Nat /\ st[p].pn \in Nat
                        /\ st[p].myPub \in Party \X Nat
                        /\ \A e \in st[p].skipped : e.pub \in Party \X Nat /\ e.n = e.key.n

Init ==
    /\ st = [ alice |-> InitAlice(SharedSecret, PublicKey("alice", 0), PublicKey("bob", 0)),
              bob   |-> InitBob(SharedSecret, PublicKey("bob", 0)) ]
    /\ keypairs = [p \in Party |-> 1]
    /\ sent = <<>>
    /\ tried = {}
    /\ accepted = <<>>
    /\ again = 0
    /\ overrun = {}

SentBy(p) == { i \in DOMAIN sent : sent[i].from = p }

\* encrypt_message does not ask whether the responder has made its first DH step:
\* before it, the sending chain is init_bob's zero chain.
EncryptMessage(p) ==
    /\ Cardinality(SentBy(p)) < MaxSends[p]
    /\ sent' = Append(sent, [from |-> p, m |-> Encrypted(st[p])])
    /\ accepted' = Append(accepted, 0)
    /\ st' = [st EXCEPT ![p] = AfterEncrypt(@)]
    /\ UNCHANGED <<keypairs, tried, again, overrun>>

DecryptMessage(p, i) ==
    LET r == Decrypt(st[p], sent[i].m, PublicKey(p, keypairs[p]))
    IN  /\ st' = [st EXCEPT ![p] = r.st]
        /\ keypairs' = [keypairs EXCEPT ![p] = @ + (IF r.st.myPub = st[p].myPub THEN 0 ELSE 1)]
        /\ accepted' = [accepted EXCEPT ![i] = @ + (IF r.ok THEN 1 ELSE 0)]
        /\ overrun' = IF r.capped THEN overrun \cup {p} ELSE overrun
        /\ tried' = tried \cup {i}
        /\ UNCHANGED sent

FirstDelivery(p, i) ==
    /\ i \in SentBy(Peer(p)) \ tried
    /\ DecryptMessage(p, i)
    /\ UNCHANGED again

Redelivery(p, i) ==
    /\ again < MaxRedeliveries
    /\ i \in SentBy(Peer(p)) \cap tried
    /\ DecryptMessage(p, i)
    /\ again' = again + 1

Next ==
    \E p \in Party :
        \/ EncryptMessage(p)
        \/ \E i \in DOMAIN sent : FirstDelivery(p, i) \/ Redelivery(p, i)

Spec == Init /\ [][Next]_vars

-----------------------------------------------------------------------------
(***************************************************************************)
(* "Each message gets a unique encryption key derived from a chain key":   *)
(* no two encryptions of either party, on any chain, use one message key,  *)
(* whatever order and however often messages arrive in between.            *)
(***************************************************************************)
MessageKeysDistinct ==
    \A i, j \in DOMAIN sent : i # j => sent[i].m.key # sent[j].m.key

(***************************************************************************)
(* decrypt never returns Ok twice for one message, also when old messages  *)
(* come back after DH steps, skips and failures.                           *)
(***************************************************************************)
AcceptedAtMostOnce == \A i \in DOMAIN sent : accepted[i] <= 1

(***************************************************************************)
(* Forward secrecy of the state at rest: once a message was decrypted, its *)
(* key is neither stored as skipped nor ahead on a chain its receiver      *)
(* still holds, and its sender's chain is past it.                         *)
(***************************************************************************)
Holds(s, k) ==
    \/ \E e \in s.skipped : e.key = k
    \/ s.recvCk = k.ck /\ s.nr <= k.n
    \/ s.sendCk = k.ck /\ s.ns <= k.n

ForwardSecrecy ==
    \A i \in DOMAIN sent : accepted[i] > 0 =>
        \A p \in Party : ~Holds(st[p], sent[i].m.key)

(***************************************************************************)
(* MAX_SKIPPED_KEYS bounds the keys a session holds over all DH steps,     *)
(* although each step sets recv_counter back to 0.                         *)
(***************************************************************************)
SkippedKeysBounded == \A p \in Party : Cardinality(st[p].skipped) <= MaxSkippedKeys

(***************************************************************************)
(* Out-of-order delivery and loss cost nothing but the lost messages: as   *)
(* long as no message comes twice, the receiver has met no cap and the     *)
(* responder has encrypted nothing before it received something, the first *)
(* delivery of every message decrypts, however chains and DH steps         *)
(* interleave.                                                             *)
(***************************************************************************)
FirstDeliveryDecrypts ==
    again = 0 /\ (\A i \in DOMAIN sent : sent[i].m.key.ck # ZeroChain) =>
        \A i \in tried : Peer(sent[i].from) \in overrun \/ accepted[i] > 0
=============================================================================
