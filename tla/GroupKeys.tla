------------------------------ MODULE GroupKeys ------------------------------
(***************************************************************************)
(* The shared key of one encrypted group: the rows the server keeps        *)
(* (group_keys, group_key_envelopes, conversations.key_version), the       *)
(* requests that write them, the rotation the server asks for when a       *)
(* member is lost, and the clients that mint, upload, fetch and cache keys.*)
(*                                                                         *)
(* A key is the pair <<version, secret>>.  A client that mints a key draws *)
(* any secret, so two mints may give two keys.  Users are positive numbers *)
(* so that the order of their ids, on which the election rests, is the     *)
(* order of numbers.  A client's requests in flight are `tasks'; the       *)
(* server half of an upload is the stages "tx", "write" and "rotated".     *)
(***************************************************************************)
EXTENDS Integers, FiniteSets

CONSTANTS User, Creator, FirstAdmins, FirstMembers, Secret, MaxVersion,
          MaxRemovals, MaxJoins, MaxFaults,
          Restarts   \* TRUE: a fault may be a restart of an app or of the server

ASSUME UserAssumption ==
    /\ User \subseteq Nat \ {0}
    /\ Creator \in User
    /\ FirstAdmins \subseteq User /\ FirstMembers \subseteq User

ASSUME BoundAssumption ==
    /\ MaxVersion \in Nat \ {0}
    /\ MaxRemovals \in Nat
    /\ MaxJoins \in Nat
    /\ MaxFaults \in Nat
    /\ Restarts \in BOOLEAN

VARIABLES
    role,       \* conversation_members: a user's role, "none" outside the group
    alive,      \* "yes" until the conversation is deleted
    kv,         \* conversations.key_version
    keys,       \* group_keys: the sentinel rows
    envelopes,  \* group_key_envelopes: the keys wrapped for each user
    loss,       \* a handler's work after it removed this user
    online,     \* users with a connected device
    mem,        \* a client's _keyCache entry for the group
    disk,       \* a client's stored keys for the group
    tasks,      \* requests in flight
    removals, joins, faults   \* events so far, each bounded

serverVars == <<role, alive, kv, keys, envelopes, loss>>
clientVars == <<online, mem, disk, tasks>>
bounds == <<removals, joins, faults>>
vars == <<serverVars, clientVars, bounds>>

Version == 1..MaxVersion
Key == Version \X Secret
NoKey == <<0, 0>>
Idle == [at |-> "idle", v |-> 0]
Kind == {"fetch", "event", "heal", "join", "orphan"}
Stage == {"wait", "get", "got", "probe", "purge", "members", "post", "tx",
          "write", "rotated", "cache"}

\* ORDER BY key_version DESC LIMIT 1, and the search for the best stored version.
Newest(S, p) == p \in S /\ \A q \in S : q[1] =< p[1]
LatestOf(S) == IF \E p \in S : Newest(S, p) THEN CHOOSE p \in S : Newest(S, p) ELSE NoKey

Member == {u \in User : role[u] # "none"}
IsAdmin(u) == role[u] \in {"owner", "admin"}

Task(u, kind, st) ==
    [who |-> u, kind |-> kind, st |-> st, v |-> 0, s |-> 0, to |-> {},
     got |-> NoKey]

\* The group as its creator's client leaves it: created, first key to be seeded.
Init ==
    /\ \E with \in SUBSET FirstMembers :
         role = [u \in User |-> IF u = Creator THEN "owner"
                                ELSE IF u \in FirstAdmins THEN "admin"
                                ELSE IF u \in with THEN "member" ELSE "none"]
    /\ alive = "yes"
    /\ kv = 1
    /\ keys = {}
    /\ envelopes = [u \in User |-> {}]
    /\ loss = [u \in User |-> Idle]
    /\ online = User
    /\ mem = [u \in User |-> NoKey]
    /\ disk = [u \in User |-> {}]
    /\ tasks = {Task(Creator, "join", "probe")}
    /\ removals = 0 /\ joins = 0 /\ faults = 0

Fault == faults < MaxFaults /\ faults' = faults + 1

------------------------------------------------------------------------------
(* Moving a task on, and the ways it ends. *)

Becomes(t, r) == tasks' = (tasks \ {t}) \cup {r}
Goto(t, st) == Becomes(t, [t EXCEPT !.st = st])

\* getGroupKey without a request: the cache, else the newest stored key.
LocalKey(u) == IF mem[u] # NoKey THEN mem[u] ELSE LatestOf(disk[u])

\* _cacheKey.
Cached(u, k) ==
    /\ mem' = [mem EXCEPT ![u] = k]
    /\ disk' = [disk EXCEPT ![u] = @ \cup {k}]

\* The task is over.  A self-heal then looks again for a key, asking the server
\* when it still holds none.
Ends(t) ==
    /\ IF t.kind = "heal" /\ LocalKey(t.who) = NoKey
       THEN Becomes(t, Task(t.who, "fetch", "get"))
       ELSE tasks' = tasks \ {t}
    /\ mem' = IF t.kind = "heal" THEN [mem EXCEPT ![t.who] = LocalKey(t.who)] ELSE mem
    /\ UNCHANGED disk

\* seedInitialGroupKey lets one run per conversation through.
Seeding(u) ==
    \E s \in tasks : s.who = u /\ s.kind \in {"heal", "join"} /\ s.st \notin {"get", "got"}

------------------------------------------------------------------------------
(* Reading the latest key: get_latest_group_key and the clients that ask. *)

\* The envelope a member gets; NoKey stands for the 400, 401 and 410 answers.
Answer(u) == IF role[u] = "none" THEN NoKey ELSE LatestOf(envelopes[u])

GetLatest(t) ==
    /\ t.st = "get"
    /\ Becomes(t, [t EXCEPT !.st = "got", !.got = Answer(t.who)])
    /\ UNCHANGED <<serverVars, online, mem, disk, bounds>>

CacheGot(t) ==
    IF t.got = NoKey THEN UNCHANGED <<mem, disk>> ELSE Cached(t.who, t.got)

GotForFetch(t) ==
    /\ t.st = "got" /\ t.kind = "fetch"
    /\ CacheGot(t)
    /\ tasks' = tasks \ {t}
    /\ UNCHANGED <<serverVars, online, bounds>>

\* A fallback's second look before it rotates: shouldAbortRotation.
GotForEvent(t) ==
    /\ t.st = "got" /\ t.kind = "event"
    /\ CacheGot(t)
    /\ IF t.got[1] >= t.v THEN tasks' = tasks \ {t} ELSE Goto(t, "purge")
    /\ UNCHANGED <<serverVars, online, bounds>>

GotForHeal(t) ==
    /\ t.st = "got" /\ t.kind = "heal"
    /\ CacheGot(t)
    /\ IF t.got # NoKey THEN tasks' = tasks \ {t}
       ELSE IF Seeding(t.who) THEN Becomes(t, Task(t.who, "fetch", "get"))
       ELSE Goto(t, "probe")
    /\ UNCHANGED <<serverVars, online, bounds>>

\* A request that fails looks to these callers like "no key".
GetFails(t) ==
    /\ t.st = "get"
    /\ Fault
    /\ Becomes(t, [t EXCEPT !.st = "got"])
    /\ UNCHANGED <<serverVars, online, mem, disk, removals, joins>>

\* Mutant: a send that finds no key asks for one and never rotates.
SendFetchesOnly(u) ==
    /\ role[u] # "none"
    /\ mem[u] = NoKey
    /\ ~ \E t \in tasks : t.who = u /\ t.kind \in {"heal", "fetch"}
    /\ mem' = [mem EXCEPT ![u] = LocalKey(u)]
    /\ tasks' = IF LocalKey(u) # NoKey THEN tasks ELSE tasks \cup {Task(u, "fetch", "get")}
    /\ UNCHANGED <<serverVars, online, disk, bounds>>

\* _resolveGroupKeyWithSelfHeal: a send uses the key at hand or looks for one.
\* A user has one such look in flight.
SendGroupMessage(u) ==
    /\ role[u] # "none"
    /\ mem[u] = NoKey
    /\ ~ \E t \in tasks : t.who = u /\ t.kind \in {"heal", "fetch"}
    /\ mem' = [mem EXCEPT ![u] = LocalKey(u)]
    /\ tasks' = IF LocalKey(u) # NoKey THEN tasks
                ELSE tasks \cup {Task(u, IF IsAdmin(u) THEN "heal" ELSE "fetch", "get")}
    /\ UNCHANGED <<serverVars, online, disk, bounds>>

------------------------------------------------------------------------------
(* Choosing the version to write. *)

\* A fallback whose slot came up: rotationAttemptDelay is over.
WaitOver(t) ==
    /\ t.st = "wait"
    /\ mem' = [mem EXCEPT ![t.who] = LocalKey(t.who)]
    /\ IF LocalKey(t.who) = NoKey THEN Goto(t, "get")
       ELSE IF LocalKey(t.who)[1] >= t.v THEN tasks' = tasks \ {t}
       ELSE Goto(t, "purge")
    /\ UNCHANGED <<serverVars, online, disk, bounds>>

\* _probeLatestKeyVersion: one more than the envelope at hand; 1 on a 400 or a
\* 410; nothing after a 401.  A version beyond the bound is not tried.
Probe(t) ==
    /\ t.st = "probe"
    /\ LET next == Answer(t.who)[1] + 1 IN
       IF role[t.who] = "none" \/ next > MaxVersion
       THEN Ends(t)
       ELSE Becomes(t, [t EXCEPT !.st = "purge", !.v = next]) /\ UNCHANGED <<mem, disk>>
    /\ UNCHANGED <<serverVars, online, bounds>>

\* The probe's catch block: a failed request also means version 1.
ProbeFails(t) ==
    /\ t.st = "probe"
    /\ Fault
    /\ Becomes(t, [t EXCEPT !.st = "purge", !.v = 1])
    /\ UNCHANGED <<serverVars, online, mem, disk, removals, joins>>

------------------------------------------------------------------------------
(* performRotation, and upload_group_key on the server. *)

\* _purgeKey.
Purge(t) ==
    /\ t.st = "purge"
    /\ mem' = [mem EXCEPT ![t.who] = NoKey]
    /\ disk' = [disk EXCEPT ![t.who] = {}]
    /\ Goto(t, "members")
    /\ UNCHANGED <<serverVars, online, bounds>>

\* Mutant: the new key is cached before the server has accepted it.
FetchMembersCaching(t) ==
    /\ t.st = "members"
    /\ role[t.who] # "none"
    /\ \E k \in Secret : /\ Becomes(t, [t EXCEPT !.st = "post", !.s = k, !.to = Member])
                        /\ Cached(t.who, <<t.v, k>>)
    /\ UNCHANGED <<serverVars, online, bounds>>

\* fetchMembers, the draw of the new key and its wrapping for each of them.
FetchMembers(t) ==
    /\ t.st = "members"
    /\ IF role[t.who] = "none"
       THEN Ends(t)
       ELSE /\ \E k \in Secret : Becomes(t, [t EXCEPT !.st = "post", !.s = k, !.to = Member])
            /\ UNCHANGED <<mem, disk>>
    /\ UNCHANGED <<serverVars, online, bounds>>

\* The list cannot be had, or a member's identity key is missing or has changed.
FetchMembersFails(t) ==
    /\ t.st = "members"
    /\ Fault
    /\ Ends(t)
    /\ UNCHANGED <<serverVars, online, removals, joins>>

\* require_admin_or_above, read before the transaction opens.
RequireAdmin(t) ==
    /\ t.st = "post"
    /\ IF IsAdmin(t.who) THEN Goto(t, "tx") /\ UNCHANGED <<mem, disk>> ELSE Ends(t)
    /\ UNCHANGED <<serverVars, online, bounds>>

\* ensure_envelopes_target_members: the transaction's first statement.
EnsureMembers(t) ==
    /\ t.st = "tx"
    /\ IF t.to \subseteq Member THEN Goto(t, "write") /\ UNCHANGED <<mem, disk>> ELSE Ends(t)
    /\ UNCHANGED <<serverVars, online, bounds>>

\* UNIQUE(conversation_id, key_version) on group_keys.
VersionTaken(v) == \E p \in keys : p[1] = v

\* Mutant: an upload replaces the key of its version.
StoreKeyReplacing(t) ==
    /\ t.st = "write"
    /\ keys' = {p \in keys : p[1] # t.v} \cup {<<t.v, t.s>>}
    /\ envelopes' = [u \in User |-> IF u \in t.to THEN {<<t.v, t.s>>} ELSE envelopes[u]]
    /\ Goto(t, "rotated")
    /\ UNCHANGED <<role, alive, kv, loss, online, mem, disk, bounds>>

\* store_group_key, store_group_key_envelope for each recipient, the audit row
\* and the commit.  A taken version is a 409, a deleted conversation an error.
StoreKey(t) ==
    /\ t.st = "write"
    /\ IF VersionTaken(t.v) \/ alive = "no"
       THEN Ends(t) /\ UNCHANGED <<keys, envelopes>>
       ELSE /\ keys' = keys \cup {<<t.v, t.s>>}
            /\ envelopes' = [u \in User |->
                  IF u \in t.to
                  THEN {p \in envelopes[u] : p[1] # t.v} \cup {<<t.v, t.s>>}
                  ELSE envelopes[u]]
            /\ Goto(t, "rotated")
            /\ UNCHANGED <<mem, disk>>
    /\ UNCHANGED <<role, alive, kv, loss, online, bounds>>

\* broadcast_key_rotated; _handleGroupKeyRotated drops the cache entry and asks.
BroadcastRotated(t) ==
    /\ t.st = "rotated"
    /\ LET told == online \cap (Member \cup {t.who}) IN
       /\ mem' = [u \in User |-> IF u \in told THEN NoKey ELSE mem[u]]
       /\ tasks' = (tasks \ {t}) \cup {Task(u, "fetch", "get") : u \in told}
                     \cup (IF t.kind = "orphan" THEN {} ELSE {[t EXCEPT !.st = "cache"]})
    /\ UNCHANGED <<serverVars, online, disk, bounds>>

\* The 201 reaches the client, which caches its key.
CacheUploaded(t) ==
    /\ t.st = "cache"
    /\ Cached(t.who, <<t.v, t.s>>)
    /\ tasks' = tasks \ {t}
    /\ UNCHANGED <<serverVars, online, bounds>>

\* The answer to an upload is lost.
AnswerLost(t) ==
    /\ t.st = "cache"
    /\ Fault
    /\ Ends(t)
    /\ UNCHANGED <<serverVars, online, removals, joins>>

------------------------------------------------------------------------------
(* Members come and go. *)

Removed(u) ==
    /\ alive = "yes" /\ loss[u] = Idle
    /\ removals < MaxRemovals
    /\ removals' = removals + 1
    /\ role' = [role EXCEPT ![u] = "none"]
    /\ loss' = [loss EXCEPT ![u] = [at |-> "count", v |-> 0]]
    /\ UNCHANGED <<alive, kv, keys, envelopes, clientVars, joins, faults>>

\* remove_member: oneself, or by an admin anyone but the owner.
RemoveMember(by, u) ==
    /\ role[by] # "none" /\ role[u] # "none"
    /\ by = u \/ (IsAdmin(by) /\ role[u] # "owner")
    /\ Removed(u)

\* leave_group: an owner only as the last member.
LeaveGroup(u) ==
    /\ role[u] # "none"
    /\ role[u] = "owner" => Member = {u}
    /\ Removed(u)

\* add_member to a private group, and _maybeRotateOnJoin at the admins told of it.
AddMember(by, u) ==
    /\ alive = "yes" /\ IsAdmin(by) /\ role[u] = "none"
    /\ joins < MaxJoins
    /\ joins' = joins + 1
    /\ role' = [role EXCEPT ![u] = "member"]
    /\ tasks' = tasks \cup {Task(a, "join", "probe") :
                               a \in {w \in online : IsAdmin(w) /\ ~Seeding(w)}}
    /\ UNCHANGED <<alive, kv, keys, envelopes, loss, online, mem, disk, removals, faults>>

At(u, at, v) == loss' = [loss EXCEPT ![u] = [at |-> at, v |-> v]]

\* force_delete_conversation, with the rows that cascade.
Delete(u) ==
    /\ alive' = "no"
    /\ role' = [w \in User |-> "none"]
    /\ keys' = {}
    /\ envelopes' = [w \in User |-> {}]
    /\ At(u, "idle", 0)
    /\ UNCHANGED <<kv, clientVars, removals, joins>>

\* after_member_loss: who remains?
CountRemaining(u) ==
    /\ loss[u].at = "count"
    /\ Member # {}
    /\ At(u, "bump", 0)
    /\ UNCHANGED <<role, alive, kv, keys, envelopes, clientVars, bounds>>

DeleteEmpty(u) ==
    /\ loss[u].at = "count"
    /\ Member = {}
    /\ Delete(u)
    /\ UNCHANGED faults

\* unwrap_or_default reads a failed query as nobody.
CountFails(u) ==
    /\ loss[u].at = "count"
    /\ Member # {}
    /\ Fault
    /\ Delete(u)

\* Mutant: the version is set back.
BumpResets(u) ==
    /\ loss[u].at = "bump"
    /\ alive = "yes"
    /\ kv' = 0
    /\ envelopes' = [w \in User |-> {}]
    /\ At(u, "announce", 0)
    /\ UNCHANGED <<role, alive, keys, clientVars, bounds>>

\* is_encrypted and bump_key_version_and_purge_envelopes.
Bump(u) ==
    /\ loss[u].at = "bump"
    /\ IF alive = "no" THEN At(u, "idle", 0) /\ UNCHANGED <<kv, envelopes>>
       ELSE /\ kv < MaxVersion
            /\ kv' = kv + 1
            /\ envelopes' = [w \in User |-> {}]
            /\ At(u, "announce", kv + 1)
    /\ UNCHANGED <<role, alive, keys, clientVars, bounds>>

\* elect_rotation_leader: the online member with the lowest id.
elect_rotation_leader(on) == CHOOSE u \in on : \A w \in on : u =< w

\* broadcast_rotation_requested: the leader starts, the others wait their slot.
Request(u, v, leader) ==
    [Task(u, "event", IF u = leader THEN "purge" ELSE "wait") EXCEPT !.v = v]

Announce(u) ==
    /\ loss[u].at = "announce"
    /\ LET on == Member \cap online IN
       tasks' = IF on = {} THEN tasks
                ELSE tasks \cup {Request(w, loss[u].v, elect_rotation_leader(on)) : w \in on}
    /\ At(u, "idle", 0)
    /\ UNCHANGED <<role, alive, kv, keys, envelopes, online, mem, disk, bounds>>

\* A failed query makes the handler return without rotating.
LossFails(u) ==
    /\ loss[u].at \in {"bump", "announce"}
    /\ Fault
    /\ At(u, "idle", 0)
    /\ UNCHANGED <<role, alive, kv, keys, envelopes, clientVars, removals, joins>>

------------------------------------------------------------------------------
(* Crashes. *)

OnServer(t) == t.st \in {"tx", "write", "rotated"}

\* An app restarts: its memory goes, its requests at the server run on unheard.
AppRestart(u) ==
    /\ Restarts
    /\ Fault
    /\ u \in online
    /\ online' = online \ {u}
    /\ mem' = [mem EXCEPT ![u] = NoKey]
    /\ tasks' = {t \in tasks : t.who # u}
                  \cup {[t EXCEPT !.kind = "orphan"] : t \in {s \in tasks : s.who = u /\ OnServer(s)}}
    /\ UNCHANGED <<serverVars, disk, removals, joins>>

Reconnect(u) ==
    /\ u \notin online
    /\ online' = online \cup {u}
    /\ UNCHANGED <<serverVars, mem, disk, tasks, bounds>>

\* The server restarts: handlers and open transactions are gone.
ServerRestart ==
    /\ Restarts
    /\ Fault
    /\ loss' = [u \in User |-> Idle]
    /\ online' = {}
    /\ tasks' = {t \in tasks : ~OnServer(t)}
                  \cup {Task(t.who, "fetch", "get") : t \in {s \in tasks : OnServer(s) /\ s.kind = "heal"}}
    /\ UNCHANGED <<role, alive, kv, keys, envelopes, mem, disk, removals, joins>>

------------------------------------------------------------------------------
TaskStep(t) ==
    \/ GetLatest(t) \/ GotForFetch(t) \/ GotForEvent(t) \/ GotForHeal(t)
    \/ WaitOver(t) \/ Probe(t) \/ Purge(t) \/ FetchMembers(t) \/ RequireAdmin(t)
    \/ EnsureMembers(t) \/ StoreKey(t) \/ BroadcastRotated(t) \/ CacheUploaded(t)

TaskFault(t) ==
    \/ GetFails(t) \/ ProbeFails(t) \/ FetchMembersFails(t) \/ AnswerLost(t)

LossStep(u) == CountRemaining(u) \/ DeleteEmpty(u) \/ Bump(u) \/ Announce(u)

Next ==
    \/ \E t \in tasks : TaskStep(t) \/ TaskFault(t)
    \/ \E u \in User :
         \/ LossStep(u) \/ CountFails(u) \/ LossFails(u)
         \/ SendGroupMessage(u) \/ LeaveGroup(u) \/ AppRestart(u) \/ Reconnect(u)
         \/ \E by \in User : RemoveMember(by, u) \/ AddMember(by, u)
    \/ ServerRestart

Spec == Init /\ [][Next]_vars

\* Requests and handlers finish, sockets come back, and members keep writing.
Fairness ==
    \A u \in User :
        /\ WF_vars(LossStep(u))
        /\ WF_vars(SendGroupMessage(u))
        /\ WF_vars(Reconnect(u))
        /\ \A kind \in Kind :
              WF_vars(\E t \in tasks : t.who = u /\ t.kind = kind /\ TaskStep(t))

FairSpec == Spec /\ Fairness

------------------------------------------------------------------------------
(* Properties. *)

TaskType ==
    [who : User, kind : Kind, st : Stage, v : 0..MaxVersion, s : Secret \cup {0},
     to : SUBSET User, got : Key \cup {NoKey}]

\* Every variable stays within the rows, caches and stages the code has.
TypeOK ==
    /\ role \in [User -> {"owner", "admin", "member", "none"}]
    /\ alive \in {"yes", "no"}
    /\ kv \in Version
    /\ keys \subseteq Key
    /\ envelopes \in [User -> SUBSET Key]
    /\ loss \in [User -> [at : {"idle", "count", "bump", "announce"}, v : 0..MaxVersion]]
    /\ online \subseteq User
    /\ mem \in [User -> Key \cup {NoKey}]
    /\ disk \in [User -> SUBSET Key]
    /\ tasks \subseteq TaskType
    /\ removals \in 0..MaxRemovals /\ joins \in 0..MaxJoins /\ faults \in 0..MaxFaults

\* Whatever races, retries and restarts there were, a version names one key for
\* everyone: group_keys has one row per version, and every envelope and every
\* key a client caches or stores is the one of that row.  A rotator that lost
\* the race (409), or whose transaction failed, has left nothing behind.
KeyAgreement ==
    alive = "yes" =>
        /\ \A p, q \in keys : p[1] = q[1] => p = q
        /\ \A u \in User : envelopes[u] \cup disk[u] \cup ({mem[u]} \ {NoKey}) \subseteq keys

\* While the group exists the row of a version is never replaced or dropped, so
\* that the constraint keeps refusing a second key of that version ("Leave
\* sentinel group_keys rows in place", db/groups.rs:865).
VersionWrittenOnce == [][alive' = "yes" => keys \subseteq keys']_vars

\* An owner who is without a key gets one: from the winner's envelope, by
\* rotating, or by the self-heal of the next send.
OwnerGetsKey ==
    \A u \in User : (role[u] = "owner") ~> (mem[u] # NoKey \/ role[u] # "owner")
==============================================================================
