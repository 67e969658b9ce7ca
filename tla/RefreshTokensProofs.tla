------------------------ MODULE RefreshTokensProofs ------------------------
(* TLAPS proofs about RefreshTokens, for every set of requests and tokens. *)
EXTENDS RefreshTokens, TLAPS

\* A transaction that revokes has locked every row of its snapshot that it
\* no longer waits for; a detected theft is about a row that has a family.
RevokersHoldLocks ==
    \A r \in Request : pc[r] = "revoking" =>
        /\ \A t \in snap[r] \ todo[r] : lock[t] = r
        /\ kind[r] = "theft" => arg[r] \in Token /\ family[arg[r]] \in Family

\* Rows not inserted yet are blank, and only spent rows have a successor.
LineageOK ==
    \A t \in Token :
        /\ status[t] = "absent" => family[t] = NoOne /\ parent[t] = NoOne
        /\ parent[t] # NoOne => status[parent[t]] \in {"revoked", "deleted"}

\* The locks behind SentinelWins, with the type of the presented token.
RotatorsHoldLocks ==
    \A r \in Request : pc[r] = "rotating" =>
        arg[r] \in Token /\ lock[arg[r]] = r /\ status[arg[r]] = "live"

\* OneLivePerFamily and RotateOnce are not inductive: a rotation keeps them
\* only because the row it revokes was still live, which its lock guarantees
\* against every revocation and sweep.
IInv == /\ TypeOK /\ OneLivePerFamily /\ RotateOnce
        /\ RotatorsHoldLocks /\ RevokersHoldLocks /\ LineageOK

\* The initial state has only legacy rows, without family, parent or lock.
LEMMA InitIInv == Init => IInv
  BY NoOneAssumption, LegacyAssumption
  DEF Init, IInv, TypeOK, OneLivePerFamily, RotateOnce, RotatorsHoldLocks,
      RevokersHoldLocks, LineageOK, Status, Step, Kind

\* Ending one transaction leaves the locks of the others alone.
LEMMA EndTxKeepsLocks ==
  ASSUME NEW r \in Request, TypeOK, EndTx(r)
  PROVE  /\ lock' \in [Token -> Request \cup {NoOne}]
         /\ \A q \in Request, t \in Token : q # r /\ lock[t] = q => lock'[t] = q
         /\ pc' \in [Request -> Step] /\ pc'[r] = "idle"
         /\ \A q \in Request : q # r => pc'[q] = pc[q] /\ arg'[q] = arg[q]
                              /\ snap'[q] = snap[q] /\ todo'[q] = todo[q]
         /\ arg' \in [Request -> Token \cup {NoOne}]
         /\ snap' \in [Request -> SUBSET Token] /\ todo' \in [Request -> SUBSET Token]
         /\ userLock' \in Request \cup {NoOne} /\ kind' = kind
  BY NoOneAssumption DEF EndTx, TypeOK, Step

LEMMA LoginVerifyStep ==
  ASSUME NEW r \in Request, IInv, LoginVerify(r) \/ ResetFind(r)
  PROVE  IInv'
  BY DEF IInv, LoginVerify, ResetFind, TypeOK, OneLivePerFamily, RotateOnce,
         RotatorsHoldLocks, RevokersHoldLocks, LineageOK, Step, rows

LEMMA LogoutBeginStep ==
  ASSUME NEW r \in Request, IInv, LogoutBegin(r) \/ ResetBegin(r)
  PROVE  IInv'
<1>1. \E k \in {"logout", "reset"} : StartRevoke(r, k, AllLive)
  BY DEF LogoutBegin, ResetBegin
<1>2. UNCHANGED <<rows, lock, arg, reset, stolen>>
  BY DEF LogoutBegin, ResetBegin
<1>3. userLock' \in Request \cup {NoOne}
  BY DEF LogoutBegin, ResetBegin, IInv, TypeOK
<1>4. /\ pc' \in [Request -> Step] /\ kind' \in [Request -> Kind]
      /\ snap' \in [Request -> SUBSET Token] /\ todo' \in [Request -> SUBSET Token]
  BY <1>1 DEF StartRevoke, AllLive, IInv, TypeOK, Step, Kind
<1>5. TypeOK'
  BY <1>2, <1>3, <1>4 DEF IInv, TypeOK, rows
<1>6. OneLivePerFamily' /\ RotateOnce' /\ LineageOK'
  BY <1>2 DEF IInv, OneLivePerFamily, RotateOnce, LineageOK, rows
<1>7. RotatorsHoldLocks'
  BY <1>1, <1>2 DEF StartRevoke, IInv, TypeOK, RotatorsHoldLocks, rows
<1>8. RevokersHoldLocks'
  BY <1>1, <1>2 DEF StartRevoke, IInv, TypeOK, RevokersHoldLocks, rows
<1> QED
  BY <1>5, <1>6, <1>7, <1>8 DEF IInv

\* A new session starts in a family no row has.
LEMMA LoginIssueStep ==
  ASSUME NEW r \in Request, IInv, LoginIssue(r)
  PROVE  IInv'
<1>1. PICK n \in Token, f \in Family :
        /\ FreshFamily(f) /\ InsertRow(n, f, NoOne)
        /\ status' = [status EXCEPT ![n] = "live"]
  BY DEF LoginIssue
<1>2. TypeOK'
  BY <1>1 DEF IInv, TypeOK, LoginIssue, InsertRow, Status, Step
<1>3. OneLivePerFamily' /\ RotateOnce'
  BY <1>1 DEF IInv, TypeOK, OneLivePerFamily, RotateOnce, FreshFamily,
              InsertRow, LineageOK
<1>4. RotatorsHoldLocks' /\ RevokersHoldLocks'
  BY <1>1 DEF IInv, TypeOK, RotatorsHoldLocks, RevokersHoldLocks, LoginIssue,
              InsertRow, Step
<1>5. LineageOK'
  BY <1>1, NoOneAssumption DEF IInv, TypeOK, LineageOK, InsertRow
<1> QED
  BY <1>2, <1>3, <1>4, <1>5 DEF IInv

LEMMA RefreshSelectStep ==
  ASSUME NEW r \in Request, NEW t \in Token, IInv, RefreshSelect(r, t)
  PROVE  IInv'
<1>1. TypeOK'
  <2>1. UNCHANGED <<rows, userLock, reset, stolen>>
    BY DEF RefreshSelect
  <2>2. lock' \in [Token -> Request \cup {NoOne}]
          /\ arg' \in [Request -> Token \cup {NoOne}]
    BY DEF IInv, TypeOK, RefreshSelect
  <2>3. /\ pc' \in [Request -> Step] /\ kind' \in [Request -> Kind]
        /\ snap' \in [Request -> SUBSET Token] /\ todo' \in [Request -> SUBSET Token]
    BY DEF IInv, TypeOK, RefreshSelect, StartRevoke, Live, Step, Kind
  <2> QED
    BY <2>1, <2>2, <2>3 DEF IInv, TypeOK, rows
<1>2. OneLivePerFamily' /\ RotateOnce' /\ LineageOK'
  BY DEF IInv, RefreshSelect, OneLivePerFamily, RotateOnce, LineageOK, rows
<1>3. RotatorsHoldLocks'
  BY NoOneAssumption
  DEF IInv, TypeOK, RefreshSelect, StartRevoke, RotatorsHoldLocks, rows
<1>4. RevokersHoldLocks'
  BY NoOneAssumption
  DEF IInv, TypeOK, RefreshSelect, StartRevoke, RevokersHoldLocks, Live, rows
<1> QED
  BY <1>1, <1>2, <1>3, <1>4 DEF IInv

\* The rotation itself: the row it revokes was the only live one of its
\* family, and had no successor because it was live.
LEMMA RefreshCommitStep ==
  ASSUME NEW r \in Request, IInv, RefreshCommit(r)
  PROVE  IInv'
<1> DEFINE a == arg[r]
<1>1. PICK n \in Token, f \in Family :
        /\ IF family[a] = NoOne THEN FreshFamily(f) ELSE f = family[a]
        /\ InsertRow(n, f, a)
        /\ status' = [status EXCEPT ![a] = "revoked", ![n] = "live"]
  BY DEF RefreshCommit
<1>2. a \in Token /\ status[a] = "live" /\ lock[a] = r /\ n # a
  BY <1>1 DEF IInv, RotatorsHoldLocks, RefreshCommit, InsertRow
<1>3. EndTx(r)
  BY DEF RefreshCommit
<1>4. TypeOK'
  <2>1. /\ status' \in [Token -> Status]
        /\ family' \in [Token -> Family \cup {NoOne}]
        /\ parent' \in [Token -> Token \cup {NoOne}]
    BY <1>1, <1>2 DEF IInv, TypeOK, InsertRow, Status
  <2>2. UNCHANGED <<expired, reset, stolen>>
    BY DEF RefreshCommit
  <2> QED
    BY <2>1, <2>2, <1>3, EndTxKeepsLocks DEF IInv, TypeOK
<1>5. OneLivePerFamily'
  BY <1>1, <1>2 DEF IInv, TypeOK, OneLivePerFamily, FreshFamily, InsertRow
<1>6. RotateOnce'
  BY <1>1, <1>2, NoOneAssumption
  DEF IInv, TypeOK, RotateOnce, LineageOK, InsertRow
<1>7. RotatorsHoldLocks'
  <2> SUFFICES ASSUME NEW q \in Request, pc'[q] = "rotating"
               PROVE  arg'[q] \in Token /\ lock'[arg'[q]] = q
                        /\ status'[arg'[q]] = "live"
    BY DEF RotatorsHoldLocks
  <2>1. q # r /\ pc[q] = "rotating" /\ arg'[q] = arg[q]
    BY <1>3, EndTxKeepsLocks DEF IInv
  <2>2. arg[q] \in Token /\ lock[arg[q]] = q /\ status[arg[q]] = "live"
    BY <2>1 DEF IInv, RotatorsHoldLocks
  <2>3. lock'[arg[q]] = q
    BY <2>1, <2>2, <1>3, EndTxKeepsLocks DEF IInv
  <2> QED
    BY <2>1, <2>2, <2>3, <1>1, <1>2 DEF IInv, TypeOK, InsertRow
<1>8. RevokersHoldLocks'
  BY <1>1, <1>2, <1>3, EndTxKeepsLocks, SMTT(30)
  DEF IInv, TypeOK, RevokersHoldLocks, InsertRow
<1>9. LineageOK'
  BY <1>1, <1>2, NoOneAssumption DEF IInv, TypeOK, LineageOK, InsertRow
<1> QED
  BY <1>4, <1>5, <1>6, <1>7, <1>8, <1>9 DEF IInv

LEMMA RevokeRowStep ==
  ASSUME NEW r \in Request, NEW t \in Token, IInv, RevokeRow(r, t)
  PROVE  IInv'
  BY NoOneAssumption
  DEF IInv, RevokeRow, TypeOK, OneLivePerFamily, RotateOnce, RotatorsHoldLocks,
      RevokersHoldLocks, LineageOK, rows

\* A revocation turns only rows it holds the lock of, so none that a
\* rotation is about to spend.
LEMMA RevokeCommitStep ==
  ASSUME NEW r \in Request, IInv, RevokeCommit(r)
  PROVE  IInv'
<1>1. EndTx(r) /\ UNCHANGED <<family, expired, parent>>
  BY DEF RevokeCommit
<1>2. /\ status' \in [Token -> Status]
      /\ \A t \in Token : \/ status'[t] = status[t]
                          \/ /\ status[t] = "live" /\ status'[t] = "revoked"
                             /\ lock[t] = r
  BY DEF RevokeCommit, IInv, TypeOK, RevokersHoldLocks, Status
<1>3. TypeOK'
  <2>1. TypeOK
    BY DEF IInv
  <2>2. /\ lock' \in [Token -> Request \cup {NoOne}] /\ pc' \in [Request -> Step]
        /\ arg' \in [Request -> Token \cup {NoOne}]
        /\ snap' \in [Request -> SUBSET Token] /\ todo' \in [Request -> SUBSET Token]
        /\ userLock' \in Request \cup {NoOne} /\ kind' = kind
    BY <1>1, <2>1, EndTxKeepsLocks
  <2>3. reset' \in {"fresh", "expired", "used"}
    BY <2>1 DEF RevokeCommit, TypeOK
  <2>4. stolen' \subseteq Family
    BY <2>1 DEF RevokeCommit, TypeOK, IInv, RevokersHoldLocks
  <2> QED
    BY <1>1, <1>2, <2>1, <2>2, <2>3, <2>4 DEF TypeOK
<1>4. OneLivePerFamily' /\ RotateOnce'
  BY <1>1, <1>2 DEF IInv, TypeOK, OneLivePerFamily, RotateOnce
<1>5. RotatorsHoldLocks'
  <2> SUFFICES ASSUME NEW q \in Request, pc'[q] = "rotating"
               PROVE  arg'[q] \in Token /\ lock'[arg'[q]] = q /\ status'[arg'[q]] = "live"
    BY DEF RotatorsHoldLocks
  <2>1. TypeOK
    BY DEF IInv
  <2>2. q # r
    BY <1>1, <2>1, EndTxKeepsLocks
  <2>3. pc[q] = "rotating" /\ arg'[q] = arg[q]
    BY <1>1, <2>1, <2>2, EndTxKeepsLocks
  <2>4. arg[q] \in Token /\ lock[arg[q]] = q /\ status[arg[q]] = "live"
    BY <2>3 DEF IInv, RotatorsHoldLocks
  <2>5. lock'[arg[q]] = q
    BY <1>1, <2>1, <2>2, <2>4, EndTxKeepsLocks
  <2>6. status'[arg[q]] = "live"
    BY <1>2, <2>2, <2>4
  <2> QED
    BY <2>3, <2>4, <2>5, <2>6
<1>6. RevokersHoldLocks'
  BY <1>1, EndTxKeepsLocks DEF IInv, TypeOK, RevokersHoldLocks
<1>7. LineageOK'
  BY <1>1, <1>2 DEF IInv, TypeOK, LineageOK
<1> QED
  BY <1>3, <1>4, <1>5, <1>6, <1>7 DEF IInv

LEMMA RollbackStep ==
  ASSUME NEW r \in Request, IInv, Rollback(r) \/ DeadlockAbort(r)
  PROVE  IInv'
<1>1. EndTx(r) /\ UNCHANGED <<rows, reset, stolen>>
  BY DEF Rollback, DeadlockAbort
<1>2. TypeOK'
  BY <1>1, EndTxKeepsLocks DEF IInv, TypeOK, rows
<1>3. OneLivePerFamily' /\ RotateOnce' /\ LineageOK'
  BY <1>1 DEF IInv, OneLivePerFamily, RotateOnce, LineageOK, rows
<1>4. \A q \in Request : pc'[q] # "idle" =>
        /\ q # r /\ pc[q] = pc'[q] /\ arg'[q] = arg[q] /\ kind'[q] = kind[q]
        /\ snap'[q] = snap[q] /\ todo'[q] = todo[q]
        /\ \A t \in Token : lock[t] = q => lock'[t] = q
  BY <1>1, EndTxKeepsLocks DEF IInv
<1>5. RotatorsHoldLocks'
  BY <1>1, <1>4 DEF IInv, RotatorsHoldLocks, rows
<1>6. RevokersHoldLocks'
  BY <1>1, <1>4, SMTT(30) DEF IInv, TypeOK, RevokersHoldLocks, rows
<1> QED
  BY <1>2, <1>3, <1>5, <1>6 DEF IInv

\* Expiry touches no lock; the sweep deletes only rows nobody has locked.
LEMMA SweepStep ==
  ASSUME NEW t \in Token, IInv, Expire(t) \/ CleanupExpiredTokens(t)
  PROVE  IInv'
<1>1. CASE Expire(t)
  <2>1. /\ expired' = expired \cup {t}
        /\ UNCHANGED <<status, family, parent, lock, pc, arg, snap, todo, kind, userLock,
                       reset, stolen>>
    BY <1>1 DEF Expire, txs
  <2>2. TypeOK'
    BY <2>1 DEF IInv, TypeOK
  <2>3. OneLivePerFamily' /\ RotateOnce' /\ LineageOK'
    BY <2>1 DEF IInv, OneLivePerFamily, RotateOnce, LineageOK
  <2>4. RotatorsHoldLocks' /\ RevokersHoldLocks'
    BY <2>1 DEF IInv, RotatorsHoldLocks, RevokersHoldLocks
  <2> QED
    BY <2>2, <2>3, <2>4 DEF IInv
<1>2. CASE CleanupExpiredTokens(t)
  <2>1. /\ lock[t] = NoOne /\ status' = [status EXCEPT ![t] = "deleted"]
        /\ UNCHANGED <<family, expired, parent, lock, pc, arg, snap, todo, kind, userLock,
                       reset, stolen>>
    BY <1>2 DEF CleanupExpiredTokens, txs
  <2>2. TypeOK'
    BY <2>1 DEF IInv, TypeOK, Status
  <2>3. \A s \in Token : status'[s] = IF s = t THEN "deleted" ELSE status[s]
    BY <2>1 DEF IInv, TypeOK
  <2>6. OneLivePerFamily' /\ RotateOnce'
    BY <2>1, <2>3 DEF IInv, OneLivePerFamily, RotateOnce
  <2>7. LineageOK'
    BY <2>1, <2>3 DEF IInv, TypeOK, LineageOK
  <2>4. RotatorsHoldLocks'
    BY <2>1, <2>3, NoOneAssumption DEF IInv, RotatorsHoldLocks
  <2>5. RevokersHoldLocks'
    BY <2>1 DEF IInv, RevokersHoldLocks
  <2> QED
    BY <2>2, <2>4, <2>5, <2>6, <2>7 DEF IInv
<1> QED
  BY <1>1, <1>2

LEMMA ResetExpiresStep ==
  ASSUME IInv, ResetExpires \/ UNCHANGED vars
  PROVE  IInv'
<1>1. UNCHANGED <<status, family, expired, parent, lock, pc, arg, snap, todo, kind, userLock,
                  stolen>>
  BY DEF ResetExpires, vars, rows, txs
<1>2. TypeOK'
  BY <1>1 DEF IInv, TypeOK, ResetExpires, vars
<1>3. OneLivePerFamily' /\ RotateOnce' /\ LineageOK'
  BY <1>1 DEF IInv, OneLivePerFamily, RotateOnce, LineageOK
<1>4. RotatorsHoldLocks' /\ RevokersHoldLocks'
  BY <1>1 DEF IInv, RotatorsHoldLocks, RevokersHoldLocks
<1> QED
  BY <1>2, <1>3, <1>4 DEF IInv

\* Every step of every request, of time and of the sweep keeps IInv.
LEMMA NextIInv == IInv /\ [Next]_vars => IInv'
<1> SUFFICES ASSUME IInv, [Next]_vars PROVE IInv'
  OBVIOUS
<1>1. ASSUME NEW r \in Request, Progress(r) PROVE IInv'
  BY <1>1, LoginIssueStep, RefreshCommitStep, LogoutBeginStep, RevokeRowStep,
     RevokeCommitStep, RollbackStep DEF Progress
<1>2. ASSUME NEW r \in Request,
             LoginVerify(r) \/ LogoutBegin(r) \/ ResetFind(r) \/ Rollback(r)
               \/ \E t \in Token : RefreshSelect(r, t)
      PROVE  IInv'
  BY <1>2, LoginVerifyStep, LogoutBeginStep, RollbackStep, RefreshSelectStep
<1>3. ASSUME NEW t \in Token, Expire(t) \/ CleanupExpiredTokens(t) PROVE IInv'
  BY <1>3, SweepStep
<1> QED
  BY <1>1, <1>2, <1>3, ResetExpiresStep DEF Next

\* The invariant behind the theorems below.
THEOREM IInvHolds == Spec => []IInv
  BY InitIInv, NextIInv, PTL DEF Spec

\* Every variable keeps its type.
THEOREM TypeCorrect == Spec => []TypeOK
<1>1. IInv => TypeOK
  BY DEF IInv
<1> QED
  BY <1>1, IInvHolds, PTL

\* At most one token of a family is usable, for any number of concurrent
\* refresh, login, logout, reset and sweep requests.
THEOREM OneLivePerFamilyHolds == Spec => []OneLivePerFamily
<1>1. IInv => OneLivePerFamily
  BY DEF IInv
<1> QED
  BY <1>1, IInvHolds, PTL

\* No token is ever rotated twice: of any number of concurrent refreshes
\* presenting it at most one succeeds.
THEOREM RotateOnceHolds == Spec => []RotateOnce
<1>1. IInv => RotateOnce
  BY DEF IInv
<1> QED
  BY <1>1, IInvHolds, PTL

\* The branch of refresh after a lost sentinel UPDATE is dead code: a refresh
\* that read its row as usable holds its lock and finds it usable.
THEOREM SentinelWinsHolds == Spec => []SentinelWins
<1>1. IInv => SentinelWins
  BY DEF IInv, RotatorsHoldLocks, SentinelWins
<1> QED
  BY <1>1, IInvHolds, PTL
=============================================================================
