-------------------------- MODULE GroupMembership --------------------------
(***************************************************************************)
(* Membership of ONE group: routes/groups/{members,lifecycle,public,       *)
(* invite}.rs, db/groups.rs, account deletion (routes/users.rs), the       *)
(* empty-group sweep of main.rs and the membership cache of                *)
(* ws/typing_service.rs.                                                   *)
(*                                                                         *)
(* A request is a process whose steps end where the handler awaits the     *)
(* database.  Each statement reads what is committed (READ COMMITTED).     *)
(* The statements that write, with their commit, are one step: they lock   *)
(* the rows they change, so another writer runs before or after them.      *)
(* add_member, remove_member, ban_member and change_member_role hold the   *)
(* advisory lock of (group, target) from their first read to their commit; *)
(* the other handlers take no lock.                                        *)
(***************************************************************************)
EXTENDS Naturals, FiniteSets

CONSTANTS User,
          Creator,      \* the user create_group made owner
          Request,      \* request slots of the server
          NoUser,       \* absent caller or target
          MaxUses,      \* max_uses of the invite link
          MaxRequests,  \* bound on requests served
          MaxFaults     \* bound on requests cut short and failed member queries

ASSUME CreatorAssumption == Creator \in User
ASSUME NoUserAssumption == NoUser \notin User
ASSUME BoundsAssumption == {MaxUses, MaxRequests, MaxFaults} \subseteq Nat

VARIABLES
    users,    \* rows of the users table
    group,    \* the conversations row: [live, public, count]
    role,     \* role column of each conversation_members row, "none" without a row
    active,   \* users whose row has is_removed = false
    bannedBy, \* banned_by column of banned_members, NoUser without a row
    invite,   \* the invite link: [st, uses, by]
    stale,    \* {} once the group key is newer than every removal; else "lost", and
              \*   "dropped" when a handler that had to rotate it was cut short
    ghosts,   \* history: members whose account was deleted
    cache,    \* users with a positive MEMBERSHIP_CACHE entry
    missed,   \* history: cached users whose entry an invalidation should have
              \*   dropped and did not
    overtaken,  \* history: lookups running since before the last invalidation
    req,      \* request slots
    served, faults   \* bounds

dbVars == <<users, group, role, active, bannedBy, invite, stale, ghosts>>
cacheVars == <<cache, missed, overtaken>>
bounds == <<served, faults>>
vars == <<dbVars, cacheVars, req, bounds>>

Role == {"member", "admin", "owner"}
Locking == {"add", "remove", "ban", "promote", "demote"}
Loss == {"remove", "ban", "leave"}
Idle == [op |-> "none", by |-> NoUser, on |-> NoUser, pc |-> "idle", as |-> "none"]

banned == {u \in User : bannedBy[u] # NoUser}

\* get_member_role: the role of an active member.
RoleOf(u) == IF u \in active THEN role[u] ELSE "none"
IsAdmin(r) == r \in {"admin", "owner"}

\* create_group_with_visibility, with any promotions made since.
Init ==
  /\ active \in {S \in SUBSET User : Creator \in S}
  /\ role \in {f \in [User -> Role \cup {"none"}] :
                 \A u \in User : f[u] \in IF u = Creator THEN {"owner"}
                                          ELSE IF u \in active THEN {"member", "admin"}
                                          ELSE {"none"}}
  /\ \E p \in BOOLEAN : group = [live |-> TRUE, public |-> p, count |-> Cardinality(active)]
  /\ users = User
  /\ bannedBy = [u \in User |-> NoUser]
  /\ invite = [st |-> "none", uses |-> 0, by |-> NoUser]
  /\ stale = {} /\ ghosts = {}
  /\ cache = {} /\ missed = {} /\ overtaken = {}
  /\ req = [r \in Request |-> Idle]
  /\ served = 0 /\ faults = 0

-----------------------------------------------------------------------------
(* Requests. *)

Goto(r, pc) == req' = [req EXCEPT ![r].pc = pc]
End(r) == req' = [req EXCEPT ![r] = Idle]
Fault == faults < MaxFaults /\ faults' = faults + 1

Free(r) == req[r] = Idle /\ served < MaxRequests

\* A handler runs up to its first answer from the database.  A request that
\* this answer refuses changes nothing and is no step.
Begin(r, op, by, on, as, pc) ==
  /\ req' = [req EXCEPT ![r] = [op |-> op, by |-> by, on |-> on, pc |-> pc, as |-> as]]
  /\ served' = served + 1
  /\ UNCHANGED <<dbVars, cacheVars, faults>>

\* acquire_member_lock: no other request past its lock works on the target.
LockFree(on) == ~ \E q \in Request : /\ req[q].op \in Locking
                                    /\ req[q].on = on
                                    /\ req[q].pc \in {"target", "write"}

\* Whether the role read for the caller lets the handler go on.
CallerMay(op, by, on) ==
  LET as == RoleOf(by) IN
  CASE op = "add" -> as # "none" /\ (group.public \/ IsAdmin(as))
    [] op = "remove" -> as # "none" /\ (on = by \/ IsAdmin(as))
    [] op \in {"promote", "demote"} -> as = "owner" /\ on # by
    [] OTHER -> IsAdmin(as)

\* Mutant: acquire_member_lock is not called.
StartUnlocked(r) ==
  /\ Free(r)
  /\ \E op \in Locking, by, on \in User :
      /\ CallerMay(op, by, on)
      /\ Begin(r, op, by, on, RoleOf(by), "target")

\* The member lock, then the caller's role: add_member, remove_member,
\* ban_member, change_member_role.
StartLocked(r) ==
  /\ Free(r)
  /\ \E op \in Locking, by, on \in User :
      /\ LockFree(on)
      /\ CallerMay(op, by, on)
      /\ Begin(r, op, by, on, RoleOf(by), "target")

\* unban_member, create_invite, revoke_invite: the caller's role, no lock.
StartByAdmin(r) ==
  /\ Free(r)
  /\ \E op \in {"unban", "invite", "revoke"}, by, on \in User :
      /\ CallerMay(op, by, on)
      /\ op \in {"invite", "revoke"} => on = by
      /\ Begin(r, op, by, on, RoleOf(by), "write")

\* Whether what is read about the target lets the handler go on.
TargetMay(r) ==
  LET on == req[r].on
      is == RoleOf(on) IN
  CASE req[r].op = "add" -> on \notin banned \cup active
    [] req[r].op = "remove" -> on = req[r].by \/ is # "owner"
    [] req[r].op = "ban" -> is # "owner" /\ (is = "admin" => req[r].as = "owner")
    [] OTHER -> is \notin {"none", "owner"}

ReadTarget(r) ==
  /\ req[r].pc = "target"
  /\ IF TargetMay(r) THEN Goto(r, "write") ELSE End(r)
  /\ UNCHANGED <<dbVars, cacheVars, bounds>>

-----------------------------------------------------------------------------
(* Writes. *)

\* The upsert shared by add_member_in_tx, join_public_group and
\* accept_invite_token: a new or reactivated row is a plain member's.
Activate(u) ==
  /\ role' = [role EXCEPT ![u] = IF u \in active THEN @ ELSE "member"]
  /\ active' = active \cup {u}
  /\ group' = [group EXCEPT !.count = IF u \in active THEN @ ELSE @ + 1]

\* Mutant: neither rows_affected nor GREATEST guards the counter.
DeactivateUnguarded(u) ==
  /\ active' = active \ {u}
  /\ group' = [group EXCEPT !.count = @ - 1]
  /\ stale' = IF u \in active THEN stale \cup {"lost"} ELSE stale
  /\ UNCHANGED role

\* remove_member_in_tx and the first half of ban_member_in_tx.
Deactivate(u) ==
  /\ active' = active \ {u}
  /\ group' = [group EXCEPT !.count = IF u \in active /\ @ > 0 THEN @ - 1 ELSE @]
  /\ stale' = IF u \in active THEN stale \cup {"lost"} ELSE stale
  /\ UNCHANGED role

\* The row of the conversation goes, and what refers to it cascades.
DropGroup ==
  /\ group' = [live |-> FALSE, public |-> FALSE, count |-> 0]
  /\ role' = [u \in User |-> "none"]
  /\ active' = {}
  /\ bannedBy' = [u \in User |-> NoUser]
  /\ invite' = [invite EXCEPT !.st = "gone"]
  /\ stale' = {} /\ ghosts' = {}
  /\ UNCHANGED users

\* A foreign-key error once the group or the account is gone; no row written
\* when the user has become a member meanwhile.
WriteAdd(r) ==
  /\ req[r].op = "add" /\ req[r].pc = "write"
  /\ IF group.live /\ req[r].on \in users \ active
     THEN Activate(req[r].on) /\ Goto(r, "invalidate")
     ELSE End(r) /\ UNCHANGED <<group, role, active>>
  /\ UNCHANGED <<users, bannedBy, invite, stale, ghosts, cacheVars, bounds>>

WriteRemove(r) ==
  /\ req[r].op \in {"remove", "leave"} /\ req[r].pc = "write"
  /\ IF req[r].on \in active
     THEN Deactivate(req[r].on) /\ Goto(r, "invalidate")
     ELSE End(r) /\ UNCHANGED <<group, role, active, stale>>
  /\ UNCHANGED <<users, bannedBy, invite, ghosts, cacheVars, bounds>>

\* Mutant: a ban decrements the counter whether or not a row was removed.
WriteBanMiscounts(r) ==
  /\ req[r].op = "ban" /\ req[r].pc = "write"
  /\ IF group.live /\ {req[r].on, req[r].by} \subseteq users
     THEN /\ Goto(r, "invalidate")
          /\ active' = active \ {req[r].on}
          /\ group' = [group EXCEPT !.count = IF @ > 0 THEN @ - 1 ELSE @]
          /\ stale' = IF req[r].on \in active THEN stale \cup {"lost"} ELSE stale
          /\ bannedBy' = [bannedBy EXCEPT ![req[r].on] = req[r].by]
     ELSE End(r) /\ UNCHANGED <<group, active, stale, bannedBy>>
  /\ UNCHANGED <<users, role, invite, ghosts, cacheVars, bounds>>

\* ban_member_in_tx also bans somebody who is no member.  Both accounts must
\* still exist (foreign keys).
WriteBan(r) ==
  /\ req[r].op = "ban" /\ req[r].pc = "write"
  /\ IF group.live /\ {req[r].on, req[r].by} \subseteq users
     THEN /\ Deactivate(req[r].on)
          /\ bannedBy' = [bannedBy EXCEPT ![req[r].on] = req[r].by]
          /\ Goto(r, "invalidate")
     ELSE End(r) /\ UNCHANGED <<group, role, active, stale, bannedBy>>
  /\ UNCHANGED <<users, invite, ghosts, cacheVars, bounds>>

\* set_member_role_in_tx.
WriteRole(r) ==
  /\ req[r].op \in {"promote", "demote"} /\ req[r].pc = "write"
  /\ IF req[r].on \in active
     THEN /\ role' = [role EXCEPT ![req[r].on] = IF req[r].op = "promote" THEN "admin" ELSE "member"]
          /\ Goto(r, "invalidate")
     ELSE End(r) /\ UNCHANGED role
  /\ UNCHANGED <<users, group, active, bannedBy, invite, stale, ghosts, cacheVars, bounds>>

WriteUnban(r) ==
  /\ req[r].op = "unban" /\ req[r].pc = "write"
  /\ bannedBy' = [bannedBy EXCEPT ![req[r].on] = NoUser]
  /\ End(r)
  /\ UNCHANGED <<users, group, role, active, invite, stale, ghosts, cacheVars, bounds>>

\* create_invite_token; the model follows one link.
WriteInvite(r) ==
  /\ req[r].op = "invite" /\ req[r].pc = "write"
  /\ invite' = IF group.live /\ req[r].by \in users /\ invite.st = "none"
               THEN [invite EXCEPT !.st = "open", !.by = req[r].by] ELSE invite
  /\ End(r)
  /\ UNCHANGED <<users, group, role, active, bannedBy, stale, ghosts, cacheVars, bounds>>

\* delete_invite_token.
WriteRevoke(r) ==
  /\ req[r].op = "revoke" /\ req[r].pc = "write"
  /\ invite' = IF invite.st = "none" THEN invite ELSE [invite EXCEPT !.st = "gone"]
  /\ End(r)
  /\ UNCHANGED <<users, group, role, active, bannedBy, stale, ghosts, cacheVars, bounds>>

\* expires_at passes.
InviteExpires ==
  /\ invite.st = "open"
  /\ invite' = [invite EXCEPT !.st = "expired"]
  /\ UNCHANGED <<users, group, role, active, bannedBy, stale, ghosts, cacheVars, req, bounds>>

\* delete_group: one statement that checks ownership and deletes.  Nothing
\* is invalidated and nobody is told.
DeleteGroup ==
  /\ \E u \in User : RoleOf(u) = "owner"
  /\ DropGroup
  /\ UNCHANGED <<cacheVars, req, bounds>>

\* delete_account: the DELETE of the user's row cascades to the membership,
\* to bans of the user and to the links the user made.  member_count, the
\* cache and the group key are left alone.  banned_by does not cascade, so a
\* user who has banned somebody is refused; one who uploaded a group key is
\* refused for the same reason (group_keys.created_by) and is, here, a user
\* who never takes this step.
DeleteAccount(u) ==
  /\ u \in users /\ \A v \in User : bannedBy[v] # u
  /\ served < MaxRequests
  /\ served' = served + 1
  /\ users' = users \ {u}
  /\ role' = [role EXCEPT ![u] = "none"]
  /\ active' = active \ {u}
  /\ bannedBy' = [bannedBy EXCEPT ![u] = NoUser]
  /\ invite' = IF invite.by = u THEN [invite EXCEPT !.st = "gone"] ELSE invite
  /\ ghosts' = ghosts \cup ({u} \cap active)
  /\ UNCHANGED <<group, stale, cacheVars, req, faults>>

-----------------------------------------------------------------------------
(* Joining without an admin: join_group and accept_invite. *)

\* join_group: is_banned comes first.
StartJoin(r) == /\ Free(r)
                /\ \E u \in User \ banned : Begin(r, "join", u, u, "none", "member")

\* accept_invite: get_invite_token with the optimistic checks.
StartAccept(r) == /\ Free(r)
                  /\ invite.st = "open" /\ invite.uses < MaxUses
                  /\ \E u \in User : Begin(r, "accept", u, u, "none", "banned")

ReadBanned(r) ==
  /\ req[r].pc = "banned"
  /\ IF req[r].by \in banned THEN End(r) ELSE Goto(r, "member")
  /\ UNCHANGED <<dbVars, cacheVars, bounds>>

ReadMember(r) ==
  /\ req[r].pc = "member"
  /\ IF req[r].by \in active THEN End(r) ELSE Goto(r, "write")
  /\ UNCHANGED <<dbVars, cacheVars, bounds>>

\* join_public_group: one INSERT ... SELECT on the conversation.
WriteJoin(r) ==
  /\ req[r].op = "join" /\ req[r].pc = "write"
  /\ IF group.live /\ group.public /\ req[r].by \in users \ active
     THEN Activate(req[r].by) /\ Goto(r, "invalidate")
     ELSE End(r) /\ UNCHANGED <<group, role, active>>
  /\ UNCHANGED <<users, bannedBy, invite, stale, ghosts, cacheVars, bounds>>

\* Mutant: the locked row is not checked a second time.
WriteAcceptUnchecked(r) ==
  /\ req[r].op = "accept" /\ req[r].pc = "write"
  /\ IF invite.st \in {"open", "expired"} /\ req[r].by \in users
     THEN /\ Activate(req[r].by)
          /\ invite' = [invite EXCEPT !.uses = @ + 1]
          /\ Goto(r, "invalidate")
     ELSE End(r) /\ UNCHANGED <<group, role, active, invite>>
  /\ UNCHANGED <<users, bannedBy, stale, ghosts, cacheVars, bounds>>

\* accept_invite_token: the token row is read again FOR UPDATE.  use_count
\* grows even when the user has become a member meanwhile.
WriteAccept(r) ==
  /\ req[r].op = "accept" /\ req[r].pc = "write"
  /\ IF invite.st = "open" /\ invite.uses < MaxUses /\ req[r].by \in users
     THEN /\ Activate(req[r].by)
          /\ invite' = [invite EXCEPT !.uses = @ + 1]
          /\ Goto(r, "invalidate")
     ELSE End(r) /\ UNCHANGED <<group, role, active, invite>>
  /\ UNCHANGED <<users, bannedBy, stale, ghosts, cacheVars, bounds>>

-----------------------------------------------------------------------------
(* Leaving, and what follows a loss. *)

\* leave_group: only an owner is asked who else is there.
StartLeave(r) ==
  /\ Free(r)
  /\ \E u \in User :
       Begin(r, "leave", u, u, "none", IF RoleOf(u) = "owner" THEN "alone" ELSE "write")

\* unwrap_or_default reads a failed query as nobody.
ReadAlone(r) ==
  /\ req[r].pc = "alone"
  /\ \/ /\ IF Cardinality(active) > 1 THEN End(r) ELSE Goto(r, "write")
        /\ UNCHANGED faults
     \/ Fault /\ Goto(r, "write")
  /\ UNCHANGED <<dbVars, cacheVars, served>>

\* Mutant: a ban leaves the cache alone.
InvalidateNotOnBan(r) ==
  /\ req[r].pc = "invalidate"
  /\ cache' = IF req[r].op = "ban" THEN cache ELSE {}
  /\ missed' = IF req[r].op = "ban" THEN missed ELSE {}
  /\ overtaken' = {q \in Request : req[q].pc = "insert"}
  /\ IF req[r].op \in Loss THEN Goto(r, "remaining") ELSE End(r)
  /\ UNCHANGED <<dbVars, bounds>>

\* invalidate_member_cache runs once the commit has returned.
Invalidate(r) ==
  /\ req[r].pc = "invalidate"
  /\ cache' = {} /\ missed' = {}
  /\ overtaken' = {q \in Request : req[q].pc = "insert"}
  /\ IF req[r].op \in Loss THEN Goto(r, "remaining") ELSE End(r)
  /\ UNCHANGED <<dbVars, bounds>>

\* after_member_loss: an empty answer, or a failed query, deletes the group.
ReadRemaining(r) ==
  /\ req[r].pc = "remaining"
  /\ \/ Goto(r, IF active = {} THEN "drop" ELSE "rotate") /\ UNCHANGED faults
     \/ Fault /\ Goto(r, "drop")
  /\ UNCHANGED <<dbVars, cacheVars, served>>

\* Mutant: a leave is not followed by a rotation.
RotateNotOnLeave(r) ==
  /\ req[r].pc = "rotate"
  /\ stale' = IF group.live /\ req[r].op # "leave" THEN {} ELSE stale
  /\ End(r)
  /\ UNCHANGED <<users, group, role, active, bannedBy, invite, ghosts, cacheVars, bounds>>

\* rotate_group_key_after_member_loss of an encrypted group.
Rotate(r) ==
  /\ req[r].pc = "rotate"
  /\ stale' = IF group.live THEN {} ELSE stale
  /\ End(r)
  /\ UNCHANGED <<users, group, role, active, bannedBy, invite, ghosts, cacheVars, bounds>>

\* cleanup_empty_groups: find_empty_group_ids, then the deletion.
StartSweep(r) == /\ Free(r)
                 /\ group.live /\ active = {}
                 /\ Begin(r, "sweep", NoUser, NoUser, "none", "drop")

\* force_delete_conversation checks nothing.
ForceDelete(r) ==
  /\ req[r].pc = "drop"
  /\ DropGroup
  /\ End(r)
  /\ UNCHANGED <<cacheVars, bounds>>

-----------------------------------------------------------------------------
(* check_membership_cached, as typing indicators and read receipts use it. *)

\* A hit answers at once.  "No" evicts the entry, which CacheExpires covers.
\* "Yes" to a miss will be cached.
StartCheck(r) == /\ Free(r)
                 /\ \E u \in active \ cache : Begin(r, "typing", u, u, "none", "insert")

\* The positive answer is cached once the query has returned, whatever was
\* invalidated meanwhile.
InsertCached(r) ==
  /\ req[r].pc = "insert"
  /\ cache' = cache \cup {req[r].by}
  /\ missed' = IF r \in overtaken THEN missed \cup {req[r].by} ELSE missed \ {req[r].by}
  /\ overtaken' = overtaken \ {r}
  /\ End(r)
  /\ UNCHANGED <<dbVars, bounds>>

\* The entry passes its TTL, and sweep_expired_caches drops it later.
CacheExpires(u) ==
  /\ u \in cache
  /\ cache' = cache \ {u}
  /\ missed' = missed \ {u}
  /\ UNCHANGED <<dbVars, overtaken, req, bounds>>

-----------------------------------------------------------------------------
\* The database refuses a statement, or the connection drops and the handler
\* with it, after the commit: what was to follow never runs.  Before the
\* commit everything rolls back, as if the request had not been made.
CutShort(r) ==
  /\ req[r].pc \in {"invalidate", "remaining", "rotate", "drop"}
  /\ Fault
  /\ End(r)
  /\ stale' = IF req[r].op \in Loss /\ stale # {} THEN stale \cup {"dropped"} ELSE stale
  /\ missed' = IF req[r].pc = "invalidate" THEN missed \cup (cache \cap {req[r].on}) ELSE missed
  /\ overtaken' = IF req[r].pc = "invalidate"
                  THEN overtaken \cup {q \in Request : req[q].pc = "insert"} ELSE overtaken
  /\ UNCHANGED <<users, group, role, active, bannedBy, invite, ghosts, cache, served>>

Next ==
  \/ \E r \in Request :
       \/ StartLocked(r) \/ StartByAdmin(r) \/ StartJoin(r) \/ StartAccept(r) \/ StartLeave(r)
       \/ StartSweep(r) \/ StartCheck(r)
       \/ ReadTarget(r) \/ ReadBanned(r) \/ ReadMember(r) \/ ReadAlone(r)
       \/ WriteAdd(r) \/ WriteRemove(r) \/ WriteBan(r) \/ WriteRole(r) \/ WriteUnban(r)
       \/ WriteInvite(r) \/ WriteRevoke(r) \/ WriteJoin(r) \/ WriteAccept(r)
       \/ Invalidate(r) \/ ReadRemaining(r) \/ Rotate(r) \/ ForceDelete(r)
       \/ InsertCached(r)
       \/ CutShort(r)
  \/ DeleteGroup
  \/ InviteExpires
  \/ \E u \in User : DeleteAccount(u) \/ CacheExpires(u)

Spec == Init /\ [][Next]_vars

-----------------------------------------------------------------------------
(* Properties. *)

\* Every variable has the type the tables and the handlers give it.
TypeOK ==
  /\ group \in [live : BOOLEAN, public : BOOLEAN, count : Nat]
  /\ role \in [User -> Role \cup {"none"}]
  /\ users \subseteq User
  /\ active \subseteq users
  /\ bannedBy \in [User -> users \cup {NoUser}]
  /\ invite \in [st : {"none", "open", "expired", "gone"}, uses : Nat, by : User \cup {NoUser}]
  /\ stale \in {{}, {"lost"}, {"lost", "dropped"}}
  /\ ghosts \subseteq User \ users
  /\ missed \subseteq cache /\ cache \subseteq User /\ overtaken \subseteq Request
  /\ req \in [Request -> [op : Locking \cup Loss \cup {"none", "unban", "invite", "revoke",
                                                       "join", "accept", "typing", "sweep"},
                          by : User \cup {NoUser}, on : User \cup {NoUser},
                          pc : {"idle", "target", "write", "banned", "member", "alone",
                                "invalidate", "remaining", "rotate", "drop", "insert"},
                          as : Role \cup {"none"}]]
  /\ served \in Nat /\ faults \in Nat

\* The denormalized member_count equals the number of active rows plus the
\* members whose account was deleted, whatever joins, removals, bans and
\* deletions overlap: every handler moves it by exactly the rows it changed
\* (#640), and the cascade of delete_account, which does not, leaves it too
\* high by exactly its own rows and never too low.
CountMatches == group.count = Cardinality(active \cup ghosts)

\* While the only way in is add_member, nobody is a member and banned at
\* once: the member lock spans the check of one and the write of the other.
\* Joining a public group and accepting an invite take no lock.
BannedStaysOut == ~group.public /\ invite.st = "none" => banned \cap active = {}

\* An admin's ban that has passed its checks never hits the owner or another
\* admin, though the owner may be promoting the same target meanwhile.
BanRespectsRank ==
  \A r \in Request : req[r].op = "ban" /\ req[r].pc = "write" =>
    /\ RoleOf(req[r].on) # "owner"
    /\ RoleOf(req[r].on) = "admin" => req[r].as = "owner"

\* Concurrent accepts never push a link past max_uses (#829).
InviteWithinUses == invite.uses <= MaxUses

\* A removal, ban or leave whose key rotation has not happened has a handler
\* that will still rotate the key or delete the group, or one was dropped or
\* failed after its commit since the key was last rotated.  In particular the
\* rotation of a later loss makes up for a dropped one, and no overlap of two
\* losses leaves both to the other (after_member_loss).
LossRotates ==
  stale # {} =>
    \/ "dropped" \in stale
    \/ \E r \in Request : /\ req[r].op \in Loss
                          /\ req[r].pc \in {"invalidate", "remaining", "rotate", "drop"}

\* A cached positive answer about somebody who is no member of a live group is
\* about to be invalidated, or belongs to a deleted account, or was missed: its
\* lookup was running when the cache was last invalidated, or the handler that
\* had to invalidate it was dropped or failed.  Every other loss reaches the
\* cache (invalidate_member_cache).
CacheFollowsRows ==
  group.live =>
    \A u \in cache \ (active \cup ghosts \cup missed) :
      \E r \in Request : req[r].pc = "invalidate" /\ req[r].on = u /\ req[r].op \in Loss
=============================================================================
