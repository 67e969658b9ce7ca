--------------------------- MODULE RefreshTokens ---------------------------
(***************************************************************************)
(* Refresh tokens, logout and password reset of ONE account                *)
(* (routes/auth.rs, db/tokens.rs, db/password_reset.rs and the token       *)
(* sweep of main.rs).  Accounts do not interact: every statement filters   *)
(* by user or by token.                                                    *)
(*                                                                         *)
(* A request is a process.  Its Postgres transaction runs at READ          *)
(* COMMITTED: a row lock is held to the end of the transaction, a          *)
(* multi-row UPDATE works on the rows its statement snapshot saw, waits    *)
(* for the lock of each, and re-reads the row it waited for.               *)
(***************************************************************************)
EXTENDS Naturals, FiniteSets

CONSTANTS Request,  \* in-flight HTTP requests
          Token,    \* refresh-token rows, by identity
          Family,   \* family_id values
          Legacy,   \* rows stored before family_id existed (family_id NULL)
          NoOne     \* absent lock holder, parent, family or token

ASSUME LegacyAssumption == Legacy \subseteq Token
ASSUME NoOneAssumption == NoOne \notin Request \cup Token \cup Family

VARIABLES
    status,   \* committed state of each row
    family,   \* family_id column
    expired,  \* tokens whose expires_at has passed
    parent,   \* history: the token a row was rotated from
    lock,     \* the request whose transaction locks the row
    pc,       \* where each request is
    arg,      \* the token a refresh presented
    snap,     \* rows seen by the statement snapshot of a revoking UPDATE
    todo,     \* rows of snap whose lock the UPDATE has not got yet
    kind,     \* why the request revokes
    reset,    \* the password_reset_tokens row of the account
    userLock, \* the request whose transaction locks the users row
    stolen    \* history: families whose reuse was detected and handled

rows == <<status, family, expired, parent>>
txs  == <<lock, pc, arg, snap, todo, kind, userLock>>
vars == <<rows, txs, reset, stolen>>

Status == {"absent", "live", "revoked", "deleted"}
Step   == {"idle", "rotating", "revoking", "verified", "resetChecked"}
Kind   == {"theft", "logout", "reset"}

Live(f) == {t \in Token : status[t] = "live" /\ family[t] = f}

TypeOK ==
    /\ status \in [Token -> Status]
    /\ family \in [Token -> Family \cup {NoOne}]
    /\ expired \subseteq Token
    /\ parent \in [Token -> Token \cup {NoOne}]
    /\ lock \in [Token -> Request \cup {NoOne}]
    /\ pc \in [Request -> Step]
    /\ arg \in [Request -> Token \cup {NoOne}]
    /\ snap \in [Request -> SUBSET Token]
    /\ todo \in [Request -> SUBSET Token]
    /\ kind \in [Request -> Kind]
    /\ reset \in {"fresh", "expired", "used"}
    /\ userLock \in Request \cup {NoOne}
    /\ stolen \subseteq Family

Init ==
    /\ status = [t \in Token |-> IF t \in Legacy THEN "live" ELSE "absent"]
    /\ family = [t \in Token |-> NoOne]
    /\ expired = {}
    /\ parent = [t \in Token |-> NoOne]
    /\ lock = [t \in Token |-> NoOne]
    /\ pc = [r \in Request |-> "idle"]
    /\ arg = [r \in Request |-> NoOne]
    /\ snap = [r \in Request |-> {}]
    /\ todo = [r \in Request |-> {}]
    /\ kind = [r \in Request |-> "logout"]
    /\ reset = "fresh"
    /\ userLock = NoOne
    /\ stolen = {}

----------------------------------------------------------------------------
(* The pieces the handlers share. *)

\* The transaction of r ends: its locks go, the request is answered.
EndTx(r) ==
    /\ lock' = [t \in Token |-> IF lock[t] = r THEN NoOne ELSE lock[t]]
    /\ userLock' = IF userLock = r THEN NoOne ELSE userLock
    /\ pc' = [pc EXCEPT ![r] = "idle"]
    /\ arg' = [arg EXCEPT ![r] = NoOne]
    /\ snap' = [snap EXCEPT ![r] = {}]
    /\ todo' = [todo EXCEPT ![r] = {}]
    /\ UNCHANGED kind

\* A family_id no row has had: Uuid::new_v4().
FreshFamily(f) == \A t \in Token : family[t] # f

\* Bound: a request that will insert a row starts only if one is left for it.
RoomForRow == Cardinality({t \in Token : status[t] = "absent"})
                > Cardinality({r \in Request : pc[r] \in {"verified", "rotating"}})

\* INSERT INTO refresh_tokens: a live row n of family f.
InsertRow(n, f, p) ==
    /\ status[n] = "absent"
    /\ family' = [family EXCEPT ![n] = f]
    /\ parent' = [parent EXCEPT ![n] = p]

\* UPDATE refresh_tokens SET revoked = true WHERE .. AND revoked = false:
\* the statement begins and sees the live rows in S.
StartRevoke(r, k, S) ==
    /\ pc' = [pc EXCEPT ![r] = "revoking"]
    /\ kind' = [kind EXCEPT ![r] = k]
    /\ snap' = [snap EXCEPT ![r] = S]
    /\ todo' = [todo EXCEPT ![r] = S]

AllLive == {t \in Token : status[t] = "live"}

----------------------------------------------------------------------------
(* POST /api/auth/login and /register. *)

\* The password is checked against the hash that was read ...
LoginVerify(r) ==
    /\ pc[r] = "idle"
    /\ RoomForRow
    /\ pc' = [pc EXCEPT ![r] = "verified"]
    /\ UNCHANGED <<rows, lock, arg, snap, todo, kind, userLock, reset, stolen>>

\* ... and a later statement stores the first token of a new family.
LoginIssue(r) ==
    /\ pc[r] = "verified"
    /\ \E n \in Token, f \in Family :
          /\ FreshFamily(f)
          /\ InsertRow(n, f, NoOne)
          /\ status' = [status EXCEPT ![n] = "live"]
    /\ pc' = [pc EXCEPT ![r] = "idle"]
    /\ UNCHANGED <<expired, lock, arg, snap, todo, kind, userLock, reset, stolen>>

----------------------------------------------------------------------------
(* POST /api/auth/refresh. *)

\* Mutant: the SELECT without FOR UPDATE.
RefreshSelectNoLock(r, t) ==
    /\ pc[r] = "idle"
    /\ status[t] = "live" /\ t \notin expired /\ RoomForRow
    /\ arg' = [arg EXCEPT ![r] = t]
    /\ pc' = [pc EXCEPT ![r] = "rotating"]
    /\ UNCHANGED <<rows, lock, snap, todo, kind, userLock, reset, stolen>>

\* Mutant: family_id is used without checking that the row has one.
RefreshSelectNoFamilyCheck(r, t) ==
    /\ pc[r] = "idle"
    /\ status[t] = "revoked"
    /\ lock[t] = NoOne
    /\ lock' = [lock EXCEPT ![t] = r]
    /\ arg' = [arg EXCEPT ![r] = t]
    /\ StartRevoke(r, "theft", Live(family[t]))
    /\ UNCHANGED <<rows, userLock, reset, stolen>>

\* SELECT .. FOR UPDATE waits for the row lock and reads the row it gets.
\* A revoked row of a family starts the family revocation; a revoked row
\* without a family, and an expired one, end the transaction at once.
RefreshSelect(r, t) ==
    /\ pc[r] = "idle"
    /\ status[t] \in {"live", "revoked"}
    /\ lock[t] = NoOne
    /\ \/ /\ status[t] = "live" /\ t \notin expired /\ RoomForRow
          /\ lock' = [lock EXCEPT ![t] = r]
          /\ arg' = [arg EXCEPT ![r] = t]
          /\ pc' = [pc EXCEPT ![r] = "rotating"]
          /\ UNCHANGED <<snap, todo, kind>>
       \/ /\ status[t] = "revoked" /\ family[t] # NoOne
          /\ lock' = [lock EXCEPT ![t] = r]
          /\ arg' = [arg EXCEPT ![r] = t]
          /\ StartRevoke(r, "theft", Live(family[t]))
    /\ UNCHANGED <<rows, userLock, reset, stolen>>

\* Mutant: the presented row is left usable.
RefreshCommitKeepsOld(r) ==
    /\ pc[r] = "rotating"
    /\ \E n \in Token, f \in Family :
          /\ IF family[arg[r]] = NoOne THEN FreshFamily(f) ELSE f = family[arg[r]]
          /\ InsertRow(n, f, arg[r])
          /\ status' = [status EXCEPT ![n] = "live"]
    /\ EndTx(r)
    /\ UNCHANGED <<expired, reset, stolen>>

\* The sentinel UPDATE revokes the presented row, the INSERT adds its
\* successor, in the presented row's family or, if it has none, in a new
\* one; both become visible together.
RefreshCommit(r) ==
    /\ pc[r] = "rotating"
    /\ status[arg[r]] = "live"
    /\ \E n \in Token, f \in Family :
          /\ IF family[arg[r]] = NoOne THEN FreshFamily(f) ELSE f = family[arg[r]]
          /\ InsertRow(n, f, arg[r])
          /\ status' = [status EXCEPT ![arg[r]] = "revoked", ![n] = "live"]
    /\ EndTx(r)
    /\ UNCHANGED <<expired, reset, stolen>>

----------------------------------------------------------------------------
(* The revoking UPDATEs: theft detection, logout, password reset. *)

\* POST /api/auth/logout: revoke_all_user_tokens.
LogoutBegin(r) ==
    /\ pc[r] = "idle"
    /\ StartRevoke(r, "logout", AllLive)
    /\ UNCHANGED <<rows, lock, arg, userLock, reset, stolen>>

\* POST /api/auth/reset-password looks the reset token up outside any
\* transaction ...
ResetFind(r) ==
    /\ pc[r] = "idle"
    /\ reset = "fresh"
    /\ pc' = [pc EXCEPT ![r] = "resetChecked"]
    /\ UNCHANGED <<rows, lock, arg, snap, todo, kind, userLock, reset, stolen>>

\* ... hashes the new password, and then locks the users row with
\* update_password and starts the revocation.
ResetBegin(r) ==
    /\ pc[r] = "resetChecked"
    /\ userLock = NoOne
    /\ userLock' = r
    /\ StartRevoke(r, "reset", AllLive)
    /\ UNCHANGED <<rows, lock, arg, reset, stolen>>

\* Mutant: FOR UPDATE SKIP LOCKED.
RevokeRowSkipLocked(r, t) ==
    /\ pc[r] = "revoking"
    /\ t \in todo[r]
    /\ lock' = [lock EXCEPT ![t] = IF @ = NoOne THEN r ELSE @]
    /\ todo' = [todo EXCEPT ![r] = @ \ {t}]
    /\ UNCHANGED <<rows, pc, arg, snap, kind, userLock, reset, stolen>>

\* The UPDATE gets the lock of one more row of its snapshot.
RevokeRow(r, t) ==
    /\ pc[r] = "revoking"
    /\ t \in todo[r]
    /\ lock[t] = NoOne
    /\ lock' = [lock EXCEPT ![t] = r]
    /\ todo' = [todo EXCEPT ![r] = @ \ {t}]
    /\ UNCHANGED <<rows, pc, arg, snap, kind, userLock, reset, stolen>>

\* Every row was reached: those still live become revoked, and a reset also
\* stores the new password and consume_token's used_at.
RevokeCommit(r) ==
    /\ pc[r] = "revoking"
    /\ todo[r] = {}
    /\ status' = [t \in Token |-> IF t \in snap[r] /\ lock[t] = r /\ status[t] = "live"
                                     THEN "revoked" ELSE status[t]]
    /\ reset' = IF kind[r] = "reset" THEN "used" ELSE reset
    /\ stolen' = IF kind[r] = "theft" THEN stolen \cup {family[arg[r]]} ELSE stolen
    /\ EndTx(r)
    /\ UNCHANGED <<family, expired, parent>>

\* A database error or a dropped connection: the transaction rolls back.
Rollback(r) ==
    /\ pc[r] # "idle"
    /\ EndTx(r)
    /\ UNCHANGED <<rows, reset, stolen>>

\* Two revocations may lock the rows of several sessions in opposite orders;
\* Postgres then aborts one of the transactions that wait for each other.
DeadlockAbort(r) ==
    /\ \E D \in SUBSET Request :
          /\ r \in D
          /\ \A q \in D : /\ pc[q] = "revoking" /\ todo[q] # {}
                         /\ \A t \in todo[q] : lock[t] \in D \ {q}
    /\ EndTx(r)
    /\ UNCHANGED <<rows, reset, stolen>>

----------------------------------------------------------------------------
(* Time, and the sweep of main.rs. *)

Expire(t) ==
    /\ status[t] = "live"
    /\ t \notin expired
    /\ expired' = expired \cup {t}
    /\ UNCHANGED <<status, family, parent, txs, reset, stolen>>

ResetExpires ==
    /\ reset = "fresh"
    /\ reset' = "expired"
    /\ UNCHANGED <<rows, txs, stolen>>

\* cleanup_expired_tokens deletes long-expired rows and old revoked ones; a
\* locked row makes the DELETE wait.
CleanupExpiredTokens(t) ==
    /\ status[t] = "revoked" \/ (status[t] = "live" /\ t \in expired)
    /\ lock[t] = NoOne
    /\ status' = [status EXCEPT ![t] = "deleted"]
    /\ UNCHANGED <<family, expired, parent, txs, reset, stolen>>

----------------------------------------------------------------------------
Progress(r) ==
    \/ LoginIssue(r)
    \/ RefreshCommit(r)
    \/ ResetBegin(r)
    \/ \E t \in Token : RevokeRow(r, t)
    \/ RevokeCommit(r)
    \/ DeadlockAbort(r)

Next ==
    \/ \E r \in Request :
          \/ LoginVerify(r)
          \/ LogoutBegin(r)
          \/ ResetFind(r)
          \/ Rollback(r)
          \/ Progress(r)
          \/ \E t \in Token : RefreshSelect(r, t)
    \/ \E t \in Token : Expire(t) \/ CleanupExpiredTokens(t)
    \/ ResetExpires

Spec == Init /\ [][Next]_vars

----------------------------------------------------------------------------
(* Properties. *)

\* A family never has two usable tokens, however many refresh, logout, reset
\* and sweep requests interleave: rotation (routes/auth.rs refresh) revokes
\* the presented row in the transaction that inserts its successor.
OneLivePerFamily ==
    \A s, t \in Token :
        status[s] = "live" /\ status[t] = "live" /\ family[s] = family[t]
            /\ family[s] # NoOne
        => s = t

\* "two concurrent requests presenting the same refresh token cannot both
\* succeed": no token has two successors.
RotateOnce ==
    \A s, t \in Token : parent[s] = parent[t] /\ parent[s] # NoOne => s = t

\* A refresh that read its row as usable still finds it usable at the sentinel
\* UPDATE, so the handler's concurrent-reuse branch after it cannot run: the
\* loser waits at the SELECT ... FOR UPDATE, reads the row as revoked and takes
\* the theft branch. The handler's comment (auth.rs:293-295, "the second gets
\* `None` from the conditional UPDATE") describes the branch that cannot run.
SentinelWins ==
    \A r \in Request : pc[r] = "rotating" =>
        lock[arg[r]] = r /\ status[arg[r]] = "live"

\* When theft detection, logout or a reset commits, no row that its UPDATE's
\* snapshot saw is usable any more, also the ones it had to wait for.
RevocationCoversSnapshot ==
    [][\A r \in Request : RevokeCommit(r) =>
          \A t \in snap[r] : status'[t] # "live"]_vars

\* db/tokens.rs: "When a revoked token is presented during refresh, the entire
\* family is revoked".
ReuseRevokesFamily == \A f \in stolen : Live(f) = {}
=============================================================================
