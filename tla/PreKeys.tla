------------------------------ MODULE PreKeys ------------------------------
(***************************************************************************)
(* The prekey directory of ONE user: routes/keys.rs and the prekey half of *)
(* db/keys.rs.  Devices upload bundles (identity key, signed prekey,       *)
(* one-time prekeys), peers fetch them, and the user revokes or resets     *)
(* devices.                                                                *)
(*                                                                         *)
(* A request is a process whose steps end where the handler awaits the     *)
(* database; each statement reads what is committed (READ COMMITTED).  A   *)
(* transaction is shown by the row lock on identity_keys it takes first,   *)
(* by the signed_prekeys rows its DELETE found, and by one step that makes *)
(* the rest of its writes and commits.  An UPDATE whose WHERE clause no    *)
(* committed row satisfies takes no lock.                                  *)
(*                                                                         *)
(* A signed prekey stands for the identity whose signing key signed it     *)
(* (verify_signed_prekey_signature), a one-time prekey for its id and the  *)
(* upload that brought it: clients draw a new key pair for every upload.   *)
(***************************************************************************)
EXTENDS Naturals, FiniteSets, FiniteSetsExt

CONSTANTS Device,       \* device ids; 0 is the legacy device
          Identity,     \* identity and signing key pairs of the devices
          KeyId,        \* signed prekey ids
          OtpId,        \* one-time prekey ids
          Request,      \* request slots of the server
          NoKey, Nobody,
          DeviceLimit,  \* LIMIT of the device queries
          MaxUploads,   \* bound on bundle uploads
          MaxRequests,  \* bound on requests served
          MaxFaults     \* bound on requests cut short

ASSUME DeviceAssumption == Device \subseteq Nat /\ 0 \in Device
ASSUME NoKeyAssumption == NoKey \notin Identity
ASSUME NobodyAssumption == Nobody \notin Request
ASSUME BoundsAssumption == {DeviceLimit, MaxUploads, MaxRequests, MaxFaults} \subseteq Nat

VARIABLES
    ident,    \* identity_keys row of each device: [key, fp, st]
    legacy,   \* users.identity_key_fingerprint
    spk,      \* signed_prekeys rows: spk[d][k] = [by, st]
    otp,      \* one_time_prekeys rows: otp[d][i] = [batch, st]
    lock,     \* request holding the lock of each identity_keys row
    req,      \* request slots
    handed,   \* history: one-time prekeys returned to a peer, <<id, batch>>
    signals,  \* kinds of event sent, and "tokens" once access tokens were invalidated
    uploads, served, faults   \* bounds

rows == <<ident, legacy, spk, otp>>
bounds == <<uploads, served, faults>>
vars == <<rows, lock, req, handed, signals, bounds>>

NoIdent == [key |-> NoKey, fp |-> NoKey, st |-> "none"]
NoSpk == [by |-> NoKey, st |-> "none"]
NoOtp == [batch |-> 0, st |-> "none"]
Idle == [op |-> "none", pc |-> "idle", devs |-> {}, key |-> NoKey, kid |-> 0,
         ids |-> {}, batch |-> 0, stored |-> FALSE, first |-> FALSE,
         listed |-> {}, gone |-> {}]

Active(d) == ident[d].st = "active"
\* get_device_fingerprint, else get_identity_key_fingerprint.
StoredFingerprint(d) == IF ident[d].fp # NoKey THEN ident[d].fp ELSE legacy

Fresh ==
  /\ ident = [d \in Device |-> NoIdent]
  /\ legacy = NoKey
  /\ spk = [d \in Device |-> [k \in KeyId |-> NoSpk]]
  /\ otp = [d \in Device |-> [i \in OtpId |-> NoOtp]]
  /\ signals = {}

\* A user of the per-user fingerprint: the migration copied it to device 0.
Migrated ==
  \E a \in Identity, c \in KeyId :
    /\ legacy = a
    /\ ident = [d \in Device |-> IF d = 0 THEN [key |-> a, fp |-> a, st |-> "active"]
                                 ELSE NoIdent]
    /\ spk = [d \in Device |-> [k \in KeyId |->
                IF d = 0 /\ k = c THEN [by |-> a, st |-> "active"] ELSE NoSpk]]
    /\ otp = [d \in Device |-> [i \in OtpId |->
                IF d = 0 THEN [batch |-> 0, st |-> "unused"] ELSE NoOtp]]
    /\ signals = {"published"}

Init ==
  /\ Fresh \/ Migrated
  /\ lock = [d \in Device |-> Nobody]
  /\ req = [r \in Request |-> Idle]
  /\ handed = {}
  /\ uploads = 0 /\ served = 0 /\ faults = 0

-----------------------------------------------------------------------------
(* Requests. *)

Goto(r, pc) == req' = [req EXCEPT ![r].pc = pc]
End(r) == req' = [req EXCEPT ![r] = Idle]
Fault == faults < MaxFaults /\ faults' = faults + 1
Unlocked(r) == [d \in Device |-> IF lock[d] = r THEN Nobody ELSE lock[d]]

Begin(r, op, pc, devs) ==
  /\ req[r] = Idle
  /\ served < MaxRequests
  /\ served' = served + 1
  /\ req' = [req EXCEPT ![r] = [Idle EXCEPT !.op = op, !.pc = pc, !.devs = devs]]
  /\ UNCHANGED <<rows, lock, handed, signals, uploads, faults>>

\* What follows a commit without an await: it happens unless the handler is
\* dropped while it waits for the commit.
After(S) ==
  \/ signals' = signals \cup S /\ UNCHANGED faults
  \/ Fault /\ S # {} /\ signals' = signals \cup {"cut"}

\* A database error or a dropped connection: the transaction is rolled back.
CutShort(r) ==
  /\ req[r] # Idle
  /\ Fault
  /\ End(r)
  /\ lock' = Unlocked(r)
  /\ UNCHANGED <<rows, handed, signals, uploads, served>>

-----------------------------------------------------------------------------
(* upload_bundle. *)

\* The body, and the read of the device's fingerprint: a different one is
\* answered 409 and changes nothing.
StartUpload(r) ==
  /\ req[r] = Idle
  /\ served < MaxRequests /\ uploads < MaxUploads
  /\ served' = served + 1 /\ uploads' = uploads + 1
  /\ \E d \in Device, a \in Identity, k \in KeyId, I \in SUBSET OtpId :
      /\ ident[d].fp \in {NoKey, a}
      /\ req' = [req EXCEPT ![r] =
           [Idle EXCEPT !.op = "upload", !.devs = {d}, !.key = a, !.kid = k, !.ids = I,
                        !.batch = uploads + 1,
                        !.stored = ident[d].fp # NoKey,
                        !.pc = IF ident[d].fp = NoKey THEN "legacy" ELSE "count"]]
  /\ UNCHANGED <<rows, lock, handed, signals, faults>>

ReadLegacy(r) ==
  /\ req[r].pc = "legacy"
  /\ IF legacy \in {NoKey, req[r].key}
       THEN req' = [req EXCEPT ![r].stored = legacy # NoKey, ![r].pc = "count"]
       ELSE End(r)
  /\ UNCHANGED <<rows, lock, handed, signals, bounds>>

\* Mutant: the rows are counted once the bundle is stored.
CountRowsLate(r) ==
  /\ req[r].pc = "count"
  /\ req' = [req EXCEPT ![r].first = FALSE, ![r].pc = "store"]
  /\ UNCHANGED <<rows, lock, handed, signals, bounds>>

\* count_identity_keys: revoked rows count.
CountRows(r) ==
  /\ req[r].pc = "count"
  /\ req' = [req EXCEPT ![r].first = \A d \in Device : ident[d] = NoIdent, ![r].pc = "store"]
  /\ UNCHANGED <<rows, lock, handed, signals, bounds>>

\* Mutant: the upload does not wait for the row of a running revocation.
LockRowNone(r) ==
  /\ req[r].pc = "store"
  /\ Goto(r, "commit")
  /\ UNCHANGED <<rows, lock, handed, signals, bounds>>

\* The upsert of store_identity_key takes the lock of the row.
LockRow(r) ==
  /\ req[r].pc = "store"
  /\ \A d \in req[r].devs : lock[d] = Nobody
  /\ lock' = [d \in Device |-> IF d \in req[r].devs THEN r ELSE lock[d]]
  /\ Goto(r, "commit")
  /\ UNCHANGED <<rows, handed, signals, bounds>>

\* store_identity_key, then set_device_fingerprint when none was stored.
StoredIdentity(row, q) ==
  [key |-> q.key, fp |-> IF q.stored THEN row.fp ELSE q.key, st |-> "active"]

\* Mutant: the key in force keeps its NULL grace_expires_at.
StoredSignedPrekeyTwice(keys, q) ==
  [k \in KeyId |-> IF k = q.kid THEN [by |-> q.key, st |-> "active"] ELSE keys[k]]

\* store_signed_prekey: the key in force enters its grace period, the new
\* one comes into force, and keys past their grace period are purged.
StoredSignedPrekey(keys, q) ==
  [k \in KeyId |-> CASE k = q.kid -> [by |-> q.key, st |-> "active"]
                     [] keys[k].st = "active" -> [keys[k] EXCEPT !.st = "grace"]
                     [] keys[k].st = "expired" -> NoSpk
                     [] OTHER -> keys[k]]

\* Mutant: the conflict clause resets used and leaves public_key alone.
StoredOtpsKept(otps, q) ==
  [i \in OtpId |-> IF i \notin q.ids THEN otps[i]
                   ELSE IF otps[i] = NoOtp THEN [batch |-> q.batch, st |-> "unused"]
                   ELSE [otps[i] EXCEPT !.st = "unused"]]

\* store_one_time_prekeys: new material under an id is unused again.
StoredOtps(otps, q) ==
  [i \in OtpId |-> IF i \in q.ids THEN [batch |-> q.batch, st |-> "unused"] ELSE otps[i]]

\* The rest of the transaction, which waits for a DELETE that has its signed
\* prekeys, then broadcast_peer_keys_published for the first bundle.
CommitUpload(r) ==
  /\ req[r].pc = "commit"
  /\ \E d \in req[r].devs :
      /\ \A q \in Request : d \notin req[q].gone
      /\ ident' = [ident EXCEPT ![d] = StoredIdentity(@, req[r])]
      /\ spk' = [spk EXCEPT ![d] = StoredSignedPrekey(@, req[r])]
      /\ otp' = [otp EXCEPT ![d] = StoredOtps(@, req[r])]
  /\ After(IF req[r].first THEN {"published"} ELSE {})
  /\ lock' = Unlocked(r)
  /\ End(r)
  /\ UNCHANGED <<legacy, handed, uploads, served>>

\* The 14 days of a superseded signed prekey pass.
GraceExpires(d, k) ==
  /\ spk[d][k].st = "grace"
  /\ spk' = [spk EXCEPT ![d][k].st = "expired"]
  /\ UNCHANGED <<ident, legacy, otp, lock, req, handed, signals, bounds>>

-----------------------------------------------------------------------------
(* get_bundle, get_device_bundle, get_all_bundles. *)

StartFetch(r) ==
  \/ Begin(r, "bundle", "identity", {0})
  \/ \E d \in Device : Begin(r, "device", "identity", {d})
  \/ Begin(r, "all", "identity", Device)

\* get_bundle goes on to the lowest active device, the others answer 404 or
\* an empty list.
NotFound(r) == IF req[r].op = "bundle" THEN Goto(r, "lowest") ELSE End(r)

\* ORDER BY device_id DESC LIMIT 10.
Newest(S) == {d \in S : Cardinality({e \in S : e > d}) < DeviceLimit}

ReadIdentities(r) ==
  /\ req[r].pc = "identity"
  /\ LET found == Newest({d \in req[r].devs : Active(d)})
     IN IF found = {} THEN NotFound(r)
        ELSE req' = [req EXCEPT ![r].devs = found, ![r].pc = "signed"]
  /\ UNCHANGED <<rows, lock, handed, signals, bounds>>

\* get_first_active_device_id.
ReadLowest(r) ==
  /\ req[r].pc = "lowest"
  /\ LET S == {d \in Device : Active(d)}
     IN IF S = {} THEN End(r)
        ELSE req' = [req EXCEPT ![r].op = "device", ![r].devs = {Min(S)}, ![r].pc = "identity"]
  /\ UNCHANGED <<rows, lock, handed, signals, bounds>>

\* Mutant: an identity without a signed prekey is not turned away.
ReadSignedPrekeysUnchecked(r) ==
  /\ req[r].pc = "signed"
  /\ req' = [req EXCEPT ![r].devs = {d \in @ : \E k \in KeyId : spk[d][k].st \in {"active", "grace"}},
                        ![r].pc = "claim"]
  /\ UNCHANGED <<rows, lock, handed, signals, bounds>>

\* A device without a signed prekey in force or in grace has no bundle.
ReadSignedPrekeys(r) ==
  /\ req[r].pc = "signed"
  /\ LET found == {d \in req[r].devs : \E k \in KeyId : spk[d][k].st \in {"active", "grace"}}
     IN IF found = {} THEN NotFound(r)
        ELSE req' = [req EXCEPT ![r].devs = found, ![r].pc = "claim"]
  /\ UNCHANGED <<rows, lock, handed, signals, bounds>>

\* One-time prekeys of the device that SKIP LOCKED may pass over.
MayBeLocked(d) == lock[d] # Nobody \/ \E q \in Request : d \in req[q].gone

\* The UPDATE of get_prekey_bundle, once for each device of the answer.
ClaimOtp(r) ==
  /\ req[r].pc = "claim"
  /\ LET d == Max(req[r].devs)
         unused == {i \in OtpId : otp[d][i].st = "unused"}
     IN /\ \/ \E i \in unused :
               /\ otp' = [otp EXCEPT ![d][i].st = "used"]
               /\ handed' = handed \cup {<<i, otp[d][i].batch>>}
           \/ /\ unused = {} \/ MayBeLocked(d)
              /\ UNCHANGED <<otp, handed>>
        /\ req' = [req EXCEPT ![r] = IF req[r].devs = {d} THEN Idle
                                     ELSE [@ EXCEPT !.devs = @ \ {d}]]
  /\ UNCHANGED <<ident, legacy, spk, lock, signals, bounds>>

-----------------------------------------------------------------------------
(* revoke_device, revoke_other_devices, reset_device, reset_keys. *)

\* reset_device and reset_keys go on only with the right password;
\* revoke_other_devices only if the device it keeps is listed.
StartRevoke(r) ==
  \/ \E d \in Device : Begin(r, "revoke", "stamp", {d}) \/ Begin(r, "reset", "clear", {d})
  \/ \E d \in Newest({e \in Device : Active(e)}) : Begin(r, "others", "list", Device \ {d})

\* The SELECT of revoke_devices_except.
ListOthers(r) ==
  /\ req[r].pc = "list"
  /\ req' = [req EXCEPT ![r].listed = {d \in req[r].devs : Active(d)}, ![r].pc = "stamp"]
  /\ UNCHANGED <<rows, lock, handed, signals, bounds>>

\* clear_device_fingerprint, the first UPDATE of a reset, matches any row of the device.
ClearFingerprint(r) ==
  /\ req[r].pc = "clear"
  /\ LET found == {d \in req[r].devs : ident[d] # NoIdent}
     IN /\ \A d \in found : lock[d] = Nobody
        /\ lock' = [d \in Device |-> IF d \in found THEN r ELSE lock[d]]
        /\ req' = [req EXCEPT ![r].listed = found, ![r].pc = "stamp"]
  /\ UNCHANGED <<rows, handed, signals, bounds>>

\* The UPDATE of revoke_device_in_tx and revoke_devices_except matches active rows,
\* also one that was committed after a reset found nothing to clear.
Matched(r) == {d \in req[r].devs : Active(d)}

Stamp(r) ==
  /\ req[r].pc = "stamp"
  /\ \A d \in Matched(r) : lock[d] \in {Nobody, r}
  /\ lock' = [d \in Device |-> IF d \in Matched(r) THEN r ELSE lock[d]]
  /\ Goto(r, "delete")
  /\ UNCHANGED <<rows, handed, signals, bounds>>

DeleteSignedPrekeys(r) ==
  /\ req[r].pc = "delete"
  /\ LET found == {d \in req[r].devs : \E k \in KeyId : spk[d][k] # NoSpk}
     IN /\ \A q \in Request : found \cap req[q].gone = {}
        /\ req' = [req EXCEPT ![r].gone = found, ![r].pc = "revoked"]
  /\ UNCHANGED <<rows, lock, handed, signals, bounds>>

\* The identity rows the transaction leaves: stamped, and unbound where a reset
\* found them.
Revoked(r) ==
  [d \in Device |-> IF lock[d] # r THEN ident[d]
                    ELSE [ident[d] EXCEPT !.st = "revoked",
                                          !.fp = IF req[r].op = "reset" /\ d \in req[r].listed
                                                THEN NoKey ELSE @]]

\* Sent after the commit; a revocation that found no row is answered 404.
RevokeSignals(r) ==
  CASE req[r].op = "reset" -> {"tokens", "identity_reset"}
    [] req[r].op = "others" /\ req[r].listed = {} -> {}
    [] req[r].op = "revoke" /\ (\A d \in Device : lock[d] # r) -> {}
    [] OTHER -> {"tokens", "device_revoked"}

\* The DELETE of the one-time prekeys, and the commit.
CommitRevoke(r) ==
  /\ req[r].pc = "revoked"
  /\ ident' = Revoked(r)
  /\ spk' = [d \in Device |-> IF d \in req[r].gone THEN [k \in KeyId |-> NoSpk] ELSE spk[d]]
  /\ otp' = [d \in Device |-> IF d \in req[r].devs THEN [i \in OtpId |-> NoOtp] ELSE otp[d]]
  /\ After(RevokeSignals(r))
  /\ lock' = Unlocked(r)
  /\ End(r)
  /\ UNCHANGED <<legacy, handed, uploads, served>>

\* clear_identity_key_fingerprint.
ResetKeys ==
  /\ served < MaxRequests /\ served' = served + 1
  /\ legacy' = NoKey
  /\ signals' = signals \cup {"identity_reset"}
  /\ UNCHANGED <<ident, spk, otp, lock, req, handed, uploads, faults>>

-----------------------------------------------------------------------------
Next ==
  \/ \E r \in Request :
       \/ StartUpload(r) \/ ReadLegacy(r) \/ CountRows(r) \/ LockRow(r) \/ CommitUpload(r)
       \/ StartFetch(r) \/ ReadIdentities(r) \/ ReadLowest(r)
       \/ ReadSignedPrekeys(r) \/ ClaimOtp(r)
       \/ StartRevoke(r) \/ ListOthers(r) \/ ClearFingerprint(r) \/ Stamp(r)
       \/ DeleteSignedPrekeys(r) \/ CommitRevoke(r)
       \/ CutShort(r)
  \/ ResetKeys
  \/ \E d \in Device, k \in KeyId : GraceExpires(d, k)

Spec == Init /\ [][Next]_vars

-----------------------------------------------------------------------------
(* Properties. *)

RequestType ==
  [op : {"none", "upload", "bundle", "device", "all", "revoke", "reset", "others"},
   pc : {"idle", "legacy", "count", "store", "commit", "identity", "lowest", "signed",
         "claim", "list", "clear", "stamp", "delete", "revoked"},
   devs : SUBSET Device, key : Identity \cup {NoKey}, kid : KeyId \cup {0},
   ids : SUBSET OtpId, batch : 0..MaxUploads, stored : BOOLEAN, first : BOOLEAN,
   listed : SUBSET Device, gone : SUBSET Device]

\* Every variable has its type, and a fetch that takes one-time prekeys has
\* a device to take them from.
TypeOK ==
  /\ ident \in [Device -> [key : Identity \cup {NoKey}, fp : Identity \cup {NoKey},
                           st : {"none", "active", "revoked"}]]
  /\ legacy \in Identity \cup {NoKey}
  /\ spk \in [Device -> [KeyId -> [by : Identity \cup {NoKey},
                                   st : {"none", "active", "grace", "expired"}]]]
  /\ otp \in [Device -> [OtpId -> [batch : 0..MaxUploads, st : {"none", "unused", "used"}]]]
  /\ lock \in [Device -> Request \cup {Nobody}]
  /\ req \in [Request -> RequestType]
  /\ \A r \in Request : req[r].pc = "claim" => req[r].devs # {}
  /\ handed \subseteq OtpId \X (0..MaxUploads)
  /\ signals \subseteq {"published", "tokens", "device_revoked", "identity_reset", "cut"}
  /\ uploads \in 0..MaxUploads /\ served \in 0..MaxRequests /\ faults \in 0..MaxFaults

\* A one-time prekey is handed to one peer only: none that a fetch has
\* returned is available to another, whatever is uploaded, revoked or
\* fetched at the same time.
OtpOnce ==
  \A d \in Device, i \in OtpId :
    otp[d][i].st = "unused" => <<i, otp[d][i].batch>> \notin handed

\* A revoked device has no prekeys left, although uploads and revocations
\* overlap: what an upload stores also makes the device active again.
RevokedIsBare ==
  \A d \in Device : ident[d].st = "revoked" =>
    /\ \A k \in KeyId : spk[d][k] = NoSpk
    /\ \A i \in OtpId : otp[d][i] = NoOtp

\* A device has at most one signed prekey in force, and the identity key
\* served beside it signed it: overlapping uploads of two identities never
\* leave the key of one with the prekey of the other.
SignedByItsIdentity ==
  \A d \in Device : \A k \in KeyId : spk[d][k].st = "active" =>
    /\ spk[d][k].by = ident[d].key
    /\ \A j \in KeyId : spk[d][j].st = "active" => j = k

\* Peers waiting for the user's first bundle are told of it, although the
\* rows are counted before the transaction that stores the bundle, unless
\* a handler was cut short at its commit.
FirstBundleAnnounced ==
  (\E d \in Device : ident[d] # NoIdent) => signals \cap {"published", "cut"} # {}

\* "Clear the fingerprint so the next upload_bundle can bind a new one":
\* after reset_keys no fingerprint stands against an upload.
ResetUnbinds ==
  [][ResetKeys => \A d \in Device : StoredFingerprint(d)' = NoKey]_vars
============================================================================
