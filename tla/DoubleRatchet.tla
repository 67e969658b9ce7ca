---------------------------- MODULE DoubleRatchet ----------------------------
(***************************************************************************)
(* The Double Ratchet of core/rust-core/src/signal/ratchet.rs, which       *)
(* apps/client/lib/src/services/signal_session.dart mirrors, as operators  *)
(* on session states.  No variables: Ratchet runs two Rust sessions over a *)
(* network, ClientSession wraps the same operators in the client's cache,  *)
(* storage and locks.                                                      *)
(*                                                                         *)
(* Keys are symbolic.  A DH output is the set of the two public keys, a    *)
(* root key is the sequence of KDF inputs that led to it, a chain is named *)
(* by the root it was derived from, and the i-th message key of chain c is *)
(* [ck |-> c, n |-> i]: chain keys advance exactly when a counter does, so *)
(* the counters recv_counter and send_counter are the chain positions.     *)
(***************************************************************************)
EXTENDS Integers, Sequences, FiniteSets

CONSTANTS
    MaxSkip,         \* protocol.rs MAX_SKIP: keys skipped by one call
    MaxSkippedKeys   \* protocol.rs MAX_SKIPPED_KEYS: keys held by a session

ASSUME SkipCaps == MaxSkip \in Nat /\ MaxSkippedKeys \in Nat

(* No chain is empty and no DH output is the empty set, so these are apart *)
(* from every chain and every public key.                                  *)
NoChain   == <<>>      \* receiving_chain_key: None
ZeroChain == <<{}>>    \* init_bob's sending_chain_key: [0u8; 32]
NoKey     == <<>>      \* receiving_ratchet_key: None

(***************************************************************************)
(* kdf_rk mixes one DH output into the root; the new root and the new      *)
(* chain come out of the same call.                                        *)
(***************************************************************************)
KdfRk(root, mine, theirs) == Append(root, {mine, theirs})

InitAlice(secret, myPub, bobPub) ==
    LET r == KdfRk(secret, myPub, bobPub) IN
    [ root |-> r, sendCk |-> r, recvCk |-> NoChain, myPub |-> myPub,
      peerPub |-> bobPub, ns |-> 0, nr |-> 0, pn |-> 0, skipped |-> {} ]

InitBob(secret, spkPub) ==
    [ root |-> secret, sendCk |-> ZeroChain, recvCk |-> NoChain,
      myPub |-> spkPub, peerPub |-> NoKey, ns |-> 0, nr |-> 0, pn |-> 0,
      skipped |-> {} ]

(***************************************************************************)
(* encrypt: derive the next message key, stamp the header, advance.  The   *)
(* header is authenticated with the ciphertext, so it is part of what the  *)
(* key protects and travels unchanged.                                     *)
(***************************************************************************)
Encrypted(s) ==
    [ pub |-> s.myPub, pn |-> s.pn, n |-> s.ns,
      key |-> [ck |-> s.sendCk, n |-> s.ns] ]

\* Mutant: the sending counter does not advance.
AfterEncryptUnchanged(s) == s

AfterEncrypt(s) == [s EXCEPT !.ns = @ + 1]

-----------------------------------------------------------------------------
(***************************************************************************)
(* skip_message_keys: one key stored per step of the loop, under the       *)
(* current peer ratchet key and counter (a HashMap insert replaces an      *)
(* entry with the same pair), until the target or the cap of the map is    *)
(* reached.  What was stored before an error stays stored.                 *)
(***************************************************************************)
\* Mutant: the key is stored under the next counter.
SkippedEntryOffByOne(s) ==
    [pub |-> s.peerPub, n |-> s.nr + 1, key |-> [ck |-> s.recvCk, n |-> s.nr]]

SkippedEntry(s) ==
    [pub |-> s.peerPub, n |-> s.nr, key |-> [ck |-> s.recvCk, n |-> s.nr]]

StoreSkipped(s) ==
    { k \in s.skipped : ~(k.pub = s.peerPub /\ k.n = s.nr) } \cup {SkippedEntry(s)}

(* The keys are stored, or a cap refuses the message. *)
Skipped(s)   == [ok |-> TRUE, st |-> s, capped |-> FALSE]
OverLimit(s) == [ok |-> FALSE, st |-> s, capped |-> TRUE]

RECURSIVE SkipLoop(_, _)

\* Mutant: the cap counts the keys of the current chain only.
SkipLoopCapPerChain(s, until) ==
    IF s.nr >= until THEN Skipped(s)
    ELSE IF Cardinality({ k \in s.skipped : k.pub = s.peerPub }) >= MaxSkippedKeys
    THEN OverLimit(s)
    ELSE SkipLoop([s EXCEPT !.skipped = StoreSkipped(s), !.nr = @ + 1], until)

SkipLoop(s, until) ==
    IF s.nr >= until THEN Skipped(s)
    ELSE IF Cardinality(s.skipped) >= MaxSkippedKeys THEN OverLimit(s)
    ELSE SkipLoop([s EXCEPT !.skipped = StoreSkipped(s), !.nr = @ + 1], until)

SkipMessageKeys(s, until) ==
    IF s.nr + MaxSkip < until THEN OverLimit(s)
    ELSE IF s.recvCk = NoChain THEN Skipped(s)
    ELSE SkipLoop(s, until)

(***************************************************************************)
(* dh_ratchet_step: two KDF steps, the first with the old key pair for the *)
(* receiving chain, the second with a key pair generated here.             *)
(***************************************************************************)
DhRatchetStep(s, theirs, fresh) ==
    LET r1 == KdfRk(s.root, s.myPub, theirs)
        r2 == KdfRk(r1, fresh, theirs)
    IN  [ s EXCEPT !.pn = s.ns, !.ns = 0, !.nr = 0, !.peerPub = theirs,
                   !.recvCk = r1, !.myPub = fresh, !.root = r2, !.sendCk = r2 ]

(***************************************************************************)
(* decrypt.  It mutates the session as it goes and restores nothing: every *)
(* outcome carries the state it leaves behind.  A key taken from the map   *)
(* is gone whether or not it opens the ciphertext, and the receiving chain *)
(* has moved on before the ciphertext is opened.                           *)
(***************************************************************************)
SkippedFor(s, m) == { k \in s.skipped : k.pub = m.pub /\ k.n = m.n }

\* Mutant: a key that was used stays in the map.
UseSkippedKeeps(s, m) ==
    LET k == CHOOSE e \in SkippedFor(s, m) : TRUE
    IN  [ok |-> k.key = m.key, st |-> s, capped |-> FALSE]

UseSkipped(s, m) ==
    LET k == CHOOSE e \in SkippedFor(s, m) : TRUE
    IN  [ok |-> k.key = m.key, st |-> [s EXCEPT !.skipped = @ \ {k}], capped |-> FALSE]

OpenNext(s, m) ==
    IF s.recvCk = NoChain THEN [ok |-> FALSE, st |-> s, capped |-> FALSE]
    ELSE [ok |-> m.key = [ck |-> s.recvCk, n |-> s.nr], st |-> [s EXCEPT !.nr = @ + 1],
          capped |-> FALSE]

SkipThenOpen(s, m) ==
    LET skip == SkipMessageKeys(s, m.n)
    IN  IF skip.ok THEN OpenNext(skip.st, m) ELSE skip

(* The remaining keys of the old receiving chain are stored before the DH step. *)
\* Mutant: the last key of the old chain is not stored.
FinishOldChainOffByOne(s, m) ==
    IF s.recvCk = NoChain THEN Skipped(s)
    ELSE SkipMessageKeys(s, m.pn - 1)

FinishOldChain(s, m) ==
    IF s.recvCk = NoChain THEN Skipped(s)
    ELSE SkipMessageKeys(s, m.pn)

Decrypt(s, m, fresh) ==
    IF SkippedFor(s, m) # {} THEN UseSkipped(s, m)
    ELSE IF s.peerPub = m.pub THEN SkipThenOpen(s, m)
    ELSE LET old == FinishOldChain(s, m)
         IN  IF old.ok THEN SkipThenOpen(DhRatchetStep(old.st, m.pub, fresh), m)
             ELSE old
=============================================================================
