--------------------------- MODULE GroupKeysProofs ---------------------------
(***************************************************************************)
(* Proof that a version of a group key names one key for everyone, for any *)
(* set of users and any bounds.                                            *)
(*                                                                         *)
(* KeyAgreement speaks of rows and caches only.  To be inductive it has to *)
(* say what is on its way into them: the answer a task carries, and the    *)
(* key of an upload that has committed but whose client has not cached it. *)
(***************************************************************************)
EXTENDS GroupKeys, TLAPS

Written == {"rotated", "cache"}
Versioned == {"wait", "purge", "members", "post", "tx", "write", "rotated", "cache"}

Minted == {"post", "tx", "write", "rotated", "cache"}

\* A task in flight is well formed, has its version and its secret once it
\* needs them, and carries no key but the one of group_keys.
Good(t, ks, al) ==
    /\ t \in TaskType
    /\ t.kind = "event" \/ t.st \in Versioned => t.v \in Version
    /\ t.st \in Minted => t.s \in Secret
    /\ al = "yes" => t.got = NoKey \/ t.got \in ks
    /\ al = "yes" /\ t.st \in Written => <<t.v, t.s>> \in ks

Agree ==
    alive = "yes" =>
        /\ \A p, q \in keys : p[1] = q[1] => p = q
        /\ \A u \in User : envelopes[u] \subseteq keys
        /\ \A u \in User : disk[u] \subseteq keys
        /\ \A u \in User : mem[u] = NoKey \/ mem[u] \in keys

IInv ==
    /\ TypeOK
    /\ Agree
    /\ \A t \in tasks : Good(t, keys, alive)
    /\ \A u \in User : loss[u].at = "announce" => loss[u].v \in Version

------------------------------------------------------------------------------
\* The newest key of a set is one of the set, or there is none: what the
\* ORDER BY ... LIMIT 1 of the envelope query and the search of the store give.
LEMMA LatestIn == \A S : LatestOf(S) = NoKey \/ LatestOf(S) \in S
  BY DEF LatestOf, Newest

\* What a client finds locally is a key it holds.
LEMMA LocalIn ==
  ASSUME IInv, NEW u \in User
  PROVE  /\ LocalKey(u) \in Key \cup {NoKey}
         /\ alive = "yes" => LocalKey(u) = NoKey \/ LocalKey(u) \in keys
<1>1. LatestOf(disk[u]) = NoKey \/ LatestOf(disk[u]) \in disk[u]
  BY LatestIn
<1>2. disk[u] \subseteq Key /\ mem[u] \in Key \cup {NoKey}
  BY DEF IInv, TypeOK
<1>3. alive = "yes" => disk[u] \subseteq keys /\ (mem[u] = NoKey \/ mem[u] \in keys)
  BY DEF IInv, Agree
<1>. QED
  BY <1>1, <1>2, <1>3 DEF LocalKey

\* What the server answers is a key of group_keys.
LEMMA AnswerIn ==
  ASSUME IInv, NEW u \in User
  PROVE  /\ Answer(u) \in Key \cup {NoKey}
         /\ alive = "yes" => Answer(u) = NoKey \/ Answer(u) \in keys
<1>1. LatestOf(envelopes[u]) = NoKey \/ LatestOf(envelopes[u]) \in envelopes[u]
  BY LatestIn
<1>2. envelopes[u] \subseteq Key
  BY DEF IInv, TypeOK
<1>3. alive = "yes" => envelopes[u] \subseteq keys
  BY DEF IInv, Agree
<1>. QED
  BY <1>1, <1>2, <1>3 DEF Answer

\* A fresh task that carries nothing is good.
LEMMA FreshGood ==
  ASSUME NEW u \in User, NEW k \in Kind, NEW s \in {"get", "probe"}, k # "event",
         NEW ks, NEW al, MaxVersion \in Nat \ {0}
  PROVE  Good(Task(u, k, s), ks, al)
  BY DEF Good, Task, TaskType, Stage, Versioned, Minted, Written, NoKey

\* A step of the clients keeps the invariant when every key it caches and every
\* task it leaves is good.
LEMMA ClientStep ==
  ASSUME IInv, UNCHANGED serverVars,
         removals' \in 0..MaxRemovals, joins' \in 0..MaxJoins, faults' \in 0..MaxFaults,
         online' \subseteq User,
         mem' \in [User -> Key \cup {NoKey}],
         disk' \in [User -> SUBSET Key],
         alive = "yes" => \A u \in User : disk'[u] \subseteq keys,
         alive = "yes" => \A u \in User : mem'[u] = NoKey \/ mem'[u] \in keys,
         \A t \in tasks' : Good(t, keys, alive)
  PROVE  IInv'
<1>1. TypeOK'
  <2>1. tasks' \subseteq TaskType
    BY DEF Good
  <2>. QED
    BY <2>1 DEF IInv, TypeOK, serverVars
<1>2. Agree'
  BY DEF IInv, Agree, serverVars
<1>3. (\A t \in tasks : Good(t, keys, alive))'
  BY DEF serverVars
<1>. QED
  BY <1>1, <1>2, <1>3 DEF IInv, serverVars

\* What the client half of a step has to leave behind (the hypotheses of
\* ClientStep that speak of caches and tasks).
ClientGood ==
    /\ mem' \in [User -> Key \cup {NoKey}]
    /\ disk' \in [User -> SUBSET Key]
    /\ alive = "yes" => \A u \in User : disk'[u] \subseteq keys
    /\ alive = "yes" => \A u \in User : mem'[u] = NoKey \/ mem'[u] \in keys
    /\ \A t \in tasks' : Good(t, keys, alive)

\* Leaving the caches alone, or setting an entry to none or to a key of
\* group_keys, keeps them good.
LEMMA CachesKept ==
  ASSUME IInv, UNCHANGED <<mem, disk>>, \A t \in tasks' : Good(t, keys, alive)
  PROVE  ClientGood
  BY DEF IInv, TypeOK, Agree, ClientGood

\* Setting one entry of the in-memory cache (_cacheKey, or dropping it).
LEMMA CachesSet ==
  ASSUME IInv, NEW u \in User, NEW k \in Key \cup {NoKey},
         alive = "yes" => k = NoKey \/ k \in keys,
         mem' = [mem EXCEPT ![u] = k], UNCHANGED disk,
         \A t \in tasks' : Good(t, keys, alive)
  PROVE  ClientGood
  BY DEF IInv, TypeOK, Agree, ClientGood

\* Caching a key in memory and in the secure store at once.
LEMMA CachesStored ==
  ASSUME IInv, NEW u \in User, NEW k \in Key, alive = "yes" => k \in keys,
         Cached(u, k), \A t \in tasks' : Good(t, keys, alive)
  PROVE  ClientGood
<1>1. mem' \in [User -> Key \cup {NoKey}] /\ disk' \in [User -> SUBSET Key]
  BY DEF IInv, TypeOK, Cached
<1>2. ASSUME alive = "yes", NEW w \in User
      PROVE  disk'[w] \subseteq keys /\ (mem'[w] = NoKey \/ mem'[w] \in keys)
  BY <1>2 DEF IInv, TypeOK, Agree, Cached
<1>. QED
  BY <1>1, <1>2 DEF ClientGood

\* A task that ends leaves good caches and, at most, a fresh fetch.
LEMMA EndsGood ==
  ASSUME IInv, NEW t \in tasks, Ends(t)
  PROVE  ClientGood
<1>0. Good(t, keys, alive) /\ t.who \in User /\ MaxVersion \in Nat \ {0}
  BY BoundAssumption DEF IInv, Good, TaskType
<1>1. \A s \in tasks' : Good(s, keys, alive)
  <2>1. Good(Task(t.who, "fetch", "get"), keys, alive)
    BY <1>0, FreshGood DEF Kind
  <2>2. tasks' \subseteq tasks \cup {Task(t.who, "fetch", "get")}
    BY DEF Ends, Becomes
  <2>. QED
    BY <2>1, <2>2 DEF IInv
<1>2. CASE t.kind = "heal"
  <2>1. mem' = [mem EXCEPT ![t.who] = LocalKey(t.who)] /\ UNCHANGED disk
    BY <1>2 DEF Ends
  <2>. QED
    BY <1>0, <1>1, <2>1, LocalIn, CachesSet
<1>3. CASE t.kind # "heal"
  <2>1. UNCHANGED <<mem, disk>>
    BY <1>3 DEF Ends
  <2>. QED
    BY <1>1, <2>1, CachesKept
<1>. QED
  BY <1>2, <1>3

\* Replacing a task by a good one leaves good tasks.
LEMMA BecomesGood ==
  ASSUME IInv, NEW t \in tasks, NEW r, Good(r, keys, alive), Becomes(t, r)
  PROVE  \A s \in tasks' : Good(s, keys, alive)
  BY DEF IInv, Becomes

\* Removing a task leaves good tasks.
LEMMA EndsTasksGood ==
  ASSUME IInv, NEW t \in tasks, tasks' = tasks \ {t}
  PROVE  \A s \in tasks' : Good(s, keys, alive)
  BY DEF IInv

\* A task moved to a stage that needs no more than it has stays good.
LEMMA GotoGood ==
  ASSUME IInv, NEW t \in tasks, NEW st \in Stage, Goto(t, st),
         st \in Versioned => t.v \in Version, st \in Minted => t.s \in Secret,
         st \in Written /\ alive = "yes" => <<t.v, t.s>> \in keys
  PROVE  \A s \in tasks' : Good(s, keys, alive)
<1>1. Good([t EXCEPT !.st = st], keys, alive)
  BY DEF IInv, Good, TaskType
<1>. QED
  BY <1>1, BecomesGood DEF Goto

\* A task that has chosen its version is good.
LEMMA PurgeGood ==
  ASSUME NEW ks, NEW al, NEW t, Good(t, ks, al), NEW n \in Version,
         MaxVersion \in Nat \ {0}
  PROVE  Good([t EXCEPT !.st = "purge", !.v = n], ks, al)
<1>1. n \in 0..MaxVersion
  BY DEF Version
<1>. QED
  BY <1>1 DEF Good, TaskType, Stage, Versioned, Minted, Written

\* A task that has drawn its secret is good.
LEMMA MintGood ==
  ASSUME NEW ks, NEW al, NEW t, Good(t, ks, al), t.v \in Version,
         NEW k \in Secret, NEW M \in SUBSET User
  PROVE  Good([t EXCEPT !.st = "post", !.s = k, !.to = M], ks, al)
  BY DEF Good, TaskType, Stage, Versioned, Minted, Written

\* A client step that leaves the bounds alone.
LEMMA ClientStepGood ==
  ASSUME IInv, UNCHANGED <<serverVars, online, bounds>>, ClientGood
  PROVE  IInv'
<1>1. UNCHANGED serverVars
  OBVIOUS
<1>2. /\ removals' \in 0..MaxRemovals /\ joins' \in 0..MaxJoins /\ faults' \in 0..MaxFaults
      /\ online' \subseteq User
  BY DEF IInv, TypeOK, bounds
<1>. QED
  BY <1>1, <1>2, ClientStep DEF ClientGood

------------------------------------------------------------------------------
\* The client and server steps of a task that write no row.
LEMMA QuietTaskStep ==
  ASSUME IInv, NEW t \in tasks,
         \/ GetLatest(t) \/ GotForFetch(t) \/ GotForEvent(t) \/ GotForHeal(t)
         \/ WaitOver(t) \/ Probe(t) \/ Purge(t) \/ FetchMembers(t) \/ RequireAdmin(t)
         \/ EnsureMembers(t) \/ BroadcastRotated(t) \/ CacheUploaded(t)
  PROVE  IInv'
<1>0. /\ Good(t, keys, alive) /\ t \in TaskType /\ t.who \in User
      /\ t.v \in 0..MaxVersion /\ t.got \in Key \cup {NoKey}
      /\ MaxVersion \in Nat \ {0}
  BY BoundAssumption DEF IInv, Good, TaskType
<1>2. UNCHANGED <<serverVars, online, bounds>>
  BY DEF GetLatest, GotForFetch, GotForEvent, GotForHeal, WaitOver, Probe, Purge,
         FetchMembers, RequireAdmin, EnsureMembers, BroadcastRotated, CacheUploaded
<1>1. SUFFICES ClientGood
  BY <1>2, ClientStepGood
<1>3. CASE GetLatest(t)
  <2>. DEFINE r == [t EXCEPT !.st = "got", !.got = Answer(t.who)]
  <2>1. Good(r, keys, alive)
    BY <1>0, <1>3, AnswerIn DEF GetLatest, Good, TaskType, Stage, Versioned, Minted, Written
  <2>2. UNCHANGED <<mem, disk>> /\ Becomes(t, r)
    BY <1>3 DEF GetLatest
  <2>. QED
    BY <2>1, <2>2, BecomesGood, CachesKept
<1>4. ASSUME CacheGot(t), \A s \in tasks' : Good(s, keys, alive)
      PROVE  ClientGood
  <2>1. CASE t.got = NoKey
    BY <1>4, <2>1, CachesKept DEF CacheGot
  <2>2. CASE t.got # NoKey
    <3>1. t.got \in Key /\ (alive = "yes" => t.got \in keys) /\ Cached(t.who, t.got)
      BY <1>0, <1>4, <2>2 DEF CacheGot, Good
    <3>. QED
      BY <1>0, <1>4, <3>1, CachesStored
  <2>. QED
    BY <2>1, <2>2
<1>5. CASE GotForFetch(t)
  BY <1>4, <1>5, EndsTasksGood DEF GotForFetch
<1>6. CASE GotForEvent(t)
  <2>1. CacheGot(t) /\ (tasks' = tasks \ {t} \/ Goto(t, "purge")) /\ t.v \in Version
    BY <1>0, <1>6 DEF GotForEvent, Good
  <2>2. \A s \in tasks' : Good(s, keys, alive)
    BY <2>1, EndsTasksGood, GotoGood DEF Stage, Written, Minted
  <2>. QED
    BY <1>4, <2>1, <2>2
<1>7. CASE GotForHeal(t)
  <2>1. /\ CacheGot(t)
        /\ \/ tasks' = tasks \ {t} \/ Becomes(t, Task(t.who, "fetch", "get"))
           \/ Goto(t, "probe")
    BY <1>7 DEF GotForHeal
  <2>2. Good(Task(t.who, "fetch", "get"), keys, alive)
    BY <1>0, FreshGood DEF Kind
  <2>3. \A s \in tasks' : Good(s, keys, alive)
    BY <2>1, <2>2, EndsTasksGood, BecomesGood, GotoGood DEF Stage, Written, Versioned, Minted
  <2>. QED
    BY <1>4, <2>1, <2>3
<1>8. CASE WaitOver(t)
  <2>1. t.v \in Version
    BY <1>0, <1>8 DEF WaitOver, Good, Versioned
  <2>2. \/ Goto(t, "get") \/ tasks' = tasks \ {t} \/ Goto(t, "purge")
    BY <1>8 DEF WaitOver
  <2>3. \A s \in tasks' : Good(s, keys, alive)
    BY <2>1, <2>2, EndsTasksGood, GotoGood DEF Stage, Written, Versioned, Minted
  <2>4. mem' = [mem EXCEPT ![t.who] = LocalKey(t.who)] /\ UNCHANGED disk
    BY <1>8 DEF WaitOver
  <2>. QED
    BY <1>0, <2>3, <2>4, LocalIn, CachesSet
<1>9. CASE Probe(t)
  <2>. DEFINE next == Answer(t.who)[1] + 1
              r == [t EXCEPT !.st = "purge", !.v = next]
  <2>1. CASE Ends(t)
    BY <2>1, EndsGood
  <2>2. CASE ~(role[t.who] = "none" \/ next > MaxVersion)
    <3>1. Becomes(t, r) /\ UNCHANGED <<mem, disk>>
      BY <1>9, <2>2 DEF Probe
    <3>2. next \in Version
      <4>1. Answer(t.who) \in Key \cup {NoKey}
        BY <1>0, AnswerIn
      <4>2. Answer(t.who)[1] \in Nat
        BY <1>0, <4>1 DEF Key, Version, NoKey
      <4>3. MaxVersion \in Nat /\ next \in Nat /\ next >= 1 /\ next <= MaxVersion
        BY <1>0, <2>2, <4>2, SMTT(30)
      <4>. QED
        BY <4>3 DEF Version
    <3>3. Good(r, keys, alive)
      BY <1>0, <3>2, PurgeGood
    <3>. QED
      BY <3>1, <3>3, BecomesGood, CachesKept
  <2>. QED
    BY <1>9, <2>1, <2>2 DEF Probe
<1>10. CASE Purge(t)
  <2>1. t.v \in Version /\ Goto(t, "members")
    BY <1>0, <1>10 DEF Purge, Good, Versioned
  <2>2. \A s \in tasks' : Good(s, keys, alive)
    BY <2>1, GotoGood DEF Stage, Written, Minted
  <2>3. /\ mem' \in [User -> Key \cup {NoKey}] /\ disk' \in [User -> SUBSET Key]
        /\ alive = "yes" => \A u \in User : disk'[u] \subseteq keys
        /\ alive = "yes" => \A u \in User : mem'[u] = NoKey \/ mem'[u] \in keys
    BY <1>10 DEF Purge, IInv, TypeOK, Agree
  <2>. QED
    BY <2>2, <2>3 DEF ClientGood
<1>11. CASE FetchMembers(t)
  <2>. DEFINE r(k) == [t EXCEPT !.st = "post", !.s = k, !.to = Member]
  <2>1. CASE Ends(t)
    BY <2>1, EndsGood
  <2>2. ASSUME NEW k \in Secret, Becomes(t, r(k)), UNCHANGED <<mem, disk>>
        PROVE  ClientGood
    <3>1. t.v \in Version /\ Member \subseteq User
      BY <1>0, <1>11 DEF FetchMembers, Good, Versioned, Member
    <3>2. Good(r(k), keys, alive)
      BY <1>0, <3>1, MintGood
    <3>. QED
      BY <2>2, <3>2, BecomesGood, CachesKept
  <2>. QED
    BY <1>11, <2>1, <2>2 DEF FetchMembers
<1>12. CASE RequireAdmin(t)
  <2>1. t.v \in Version /\ t.s \in Secret
    BY <1>0, <1>12 DEF RequireAdmin, Good, Versioned, Minted
  <2>2. CASE Goto(t, "tx") /\ UNCHANGED <<mem, disk>>
    BY <2>1, <2>2, GotoGood, CachesKept DEF Stage, Written, Minted
  <2>. QED
    BY <1>12, <2>2, EndsGood DEF RequireAdmin
<1>13. CASE EnsureMembers(t)
  <2>1. t.v \in Version /\ t.s \in Secret
    BY <1>0, <1>13 DEF EnsureMembers, Good, Versioned, Minted
  <2>2. CASE Goto(t, "write") /\ UNCHANGED <<mem, disk>>
    BY <2>1, <2>2, GotoGood, CachesKept DEF Stage, Written, Minted
  <2>. QED
    BY <1>13, <2>2, EndsGood DEF EnsureMembers
<1>14. CASE BroadcastRotated(t)
  <2>. DEFINE told == online \cap (Member \cup {t.who})
              r == [t EXCEPT !.st = "cache"]
  <2>1. /\ told \subseteq User
        /\ mem' = [u \in User |-> IF u \in told THEN NoKey ELSE mem[u]]
        /\ tasks' \subseteq tasks \cup {Task(u, "fetch", "get") : u \in told} \cup {r}
    BY <1>0, <1>14 DEF BroadcastRotated, Member
  <2>2. \A u \in told : Good(Task(u, "fetch", "get"), keys, alive)
    BY <1>0, <2>1, FreshGood DEF Kind
  <2>3. Good(r, keys, alive)
    BY <1>0, <1>14 DEF BroadcastRotated, Good, TaskType, Stage, Versioned, Minted, Written
  <2>4. \A s \in tasks' : Good(s, keys, alive)
    BY <2>1, <2>2, <2>3 DEF IInv
  <2>5. UNCHANGED disk
    BY <1>14 DEF BroadcastRotated
  <2>. QED
    BY <2>1, <2>4, <2>5 DEF ClientGood, IInv, TypeOK, Agree
<1>15. CASE CacheUploaded(t)
  <2>1. <<t.v, t.s>> \in Key /\ (alive = "yes" => <<t.v, t.s>> \in keys)
    BY <1>0, <1>15 DEF CacheUploaded, Good, Versioned, Minted, Written, Key
  <2>. QED
    BY <1>0, <1>15, <2>1, EndsTasksGood, CachesStored DEF CacheUploaded
<1>. QED
  BY <1>3, <1>5, <1>6, <1>7, <1>8, <1>9, <1>10, <1>11, <1>12, <1>13, <1>14, <1>15

\* The commit of an upload: a fresh version's row and its envelopes.
LEMMA StoreKeyStep ==
  ASSUME IInv, NEW t \in tasks, StoreKey(t)
  PROVE  IInv'
<1>0. Good(t, keys, alive) /\ t.who \in User /\ t.v \in Version /\ t.s \in Secret
      /\ t.to \subseteq User
  BY DEF IInv, Good, TaskType, StoreKey, Versioned, Minted
<1>1. CASE VersionTaken(t.v) \/ alive = "no"
  <2>1. Ends(t) /\ UNCHANGED <<serverVars, online, bounds>>
    BY <1>1 DEF StoreKey, serverVars
  <2>. QED
    BY <2>1, EndsGood, ClientStepGood
<1>2. CASE ~(VersionTaken(t.v) \/ alive = "no")
  <2>. DEFINE k == <<t.v, t.s>>
  <2>1. /\ keys' = keys \cup {k}
        /\ envelopes' = [u \in User |-> IF u \in t.to
                           THEN {p \in envelopes[u] : p[1] # t.v} \cup {k}
                           ELSE envelopes[u]]
        /\ Becomes(t, [t EXCEPT !.st = "rotated"])
        /\ UNCHANGED <<mem, disk, role, alive, kv, loss, online, bounds>>
    BY <1>2 DEF StoreKey, Goto
  <2>2. k \in Key /\ \A p \in keys : p[1] # t.v
    BY <1>0, <1>2 DEF Key, VersionTaken
  <2>3. \A s \in tasks : Good(s, keys', alive')
    BY <2>1 DEF IInv, Good
  <2>4. Good([t EXCEPT !.st = "rotated"], keys', alive')
    BY <1>0, <2>1, <2>3 DEF Good, TaskType, Stage, Versioned, Minted, Written
  <2>5. (\A s \in tasks : Good(s, keys, alive))'
    BY <2>1, <2>3, <2>4 DEF Becomes
  <2>6. TypeOK'
    <3>1. envelopes' \in [User -> SUBSET Key] /\ keys' \subseteq Key
      BY <2>1, <2>2 DEF IInv, TypeOK
    <3>2. tasks' \subseteq TaskType
      BY <2>5 DEF Good
    <3>. QED
      BY <2>1, <3>1, <3>2 DEF IInv, TypeOK, bounds
  <2>7. Agree'
    <3>1. ASSUME alive = "yes" PROVE \A p, q \in keys' : p[1] = q[1] => p = q
      BY <2>1, <2>2, <3>1 DEF IInv, Agree
    <3>2. ASSUME alive = "yes", NEW u \in User PROVE envelopes'[u] \subseteq keys'
      <4>1. envelopes[u] \subseteq keys
        BY <3>2 DEF IInv, Agree
      <4>. QED
        BY <2>1, <4>1
    <3>. QED
      BY <2>1, <3>1, <3>2 DEF IInv, Agree
  <2>. QED
    BY <2>1, <2>5, <2>6, <2>7 DEF IInv
<1>. QED
  BY <1>1, <1>2

\* A failed request, and a lost answer.
LEMMA TaskFaultStep ==
  ASSUME IInv, NEW t \in tasks, TaskFault(t)
  PROVE  IInv'
<1>0. Good(t, keys, alive) /\ MaxVersion \in Nat \ {0} /\ MaxFaults \in Nat
  BY BoundAssumption DEF IInv
<1>1. /\ UNCHANGED <<serverVars, online, removals, joins>>
      /\ Fault
  BY DEF TaskFault, GetFails, ProbeFails, FetchMembersFails, AnswerLost
<1>2. SUFFICES ClientGood
  <2>1. /\ removals' \in 0..MaxRemovals /\ joins' \in 0..MaxJoins /\ faults' \in 0..MaxFaults
        /\ online' \subseteq User /\ UNCHANGED serverVars
    BY <1>0, <1>1 DEF IInv, TypeOK, Fault
  <2>. QED
    BY <2>1, ClientStep DEF ClientGood
<1>3. CASE GetFails(t)
  <2>1. Goto(t, "got") /\ UNCHANGED <<mem, disk>>
    BY <1>3 DEF GetFails, Goto
  <2>. QED
    BY <2>1, GotoGood, CachesKept DEF Stage, Versioned, Minted, Written
<1>4. CASE ProbeFails(t)
  <2>1. Becomes(t, [t EXCEPT !.st = "purge", !.v = 1]) /\ UNCHANGED <<mem, disk>>
    BY <1>4 DEF ProbeFails
  <2>2. Good([t EXCEPT !.st = "purge", !.v = 1], keys, alive)
    <3>1. 1 \in Version
      BY <1>0 DEF Version
    <3>. QED
      BY <1>0, <3>1, PurgeGood
  <2>. QED
    BY <2>1, <2>2, BecomesGood, CachesKept
<1>5. CASE FetchMembersFails(t) \/ AnswerLost(t)
  BY <1>5, EndsGood DEF FetchMembersFails, AnswerLost
<1>. QED
  BY <1>3, <1>4, <1>5 DEF TaskFault

\* A step that touches neither keys, envelopes nor clients: members come and go,
\* and a removal's handler moves on.
LEMMA MembershipStep ==
  ASSUME IInv, UNCHANGED <<alive, keys, envelopes, clientVars>>,
         role' \in [User -> {"owner", "admin", "member", "none"}],
         kv' \in Version,
         loss' \in [User -> [at : {"idle", "count", "bump", "announce"}, v : 0..MaxVersion]],
         \A u \in User : loss'[u].at = "announce" => loss'[u].v \in Version,
         removals' \in 0..MaxRemovals, joins' \in 0..MaxJoins, faults' \in 0..MaxFaults
  PROVE  IInv'
<1>1. TypeOK'
  BY DEF IInv, TypeOK, clientVars
<1>2. Agree'
  BY DEF IInv, Agree, clientVars
<1>. QED
  BY <1>1, <1>2 DEF IInv, clientVars

\* The commit of a removal or a leave: the member row goes.
LEMMA RemovalStep ==
  ASSUME IInv, NEW u \in User, Removed(u)
  PROVE  IInv'
<1>1. MaxRemovals \in Nat /\ MaxVersion \in Nat
  BY BoundAssumption
<1>2. /\ UNCHANGED <<alive, keys, envelopes, clientVars>>
      /\ role' \in [User -> {"owner", "admin", "member", "none"}]
      /\ kv' \in Version
      /\ removals' \in 0..MaxRemovals /\ joins' \in 0..MaxJoins /\ faults' \in 0..MaxFaults
  BY <1>1 DEF Removed, IInv, TypeOK
<1>3. /\ loss' \in [User -> [at : {"idle", "count", "bump", "announce"}, v : 0..MaxVersion]]
      /\ \A w \in User : loss'[w].at = "announce" => loss'[w].v \in Version
  BY <1>1 DEF Removed, IInv, TypeOK
<1>. QED
  BY <1>2, <1>3, MembershipStep

\* A handler's progress note is well formed.
LEMMA AtTyped ==
  ASSUME IInv, NEW u \in User, NEW at \in {"idle", "count", "bump", "announce"},
         NEW v \in 0..MaxVersion, at = "announce" => v \in Version, At(u, at, v)
  PROVE  /\ loss' \in [User -> [at : {"idle", "count", "bump", "announce"}, v : 0..MaxVersion]]
         /\ \A w \in User : loss'[w].at = "announce" => loss'[w].v \in Version
  BY DEF At, IInv, TypeOK

\* A fault spends one unit of its budget.
LEMMA FaultTyped ==
  ASSUME IInv, Fault
  PROVE  faults' \in 0..MaxFaults
  BY BoundAssumption DEF Fault, IInv, TypeOK

\* Deletion empties the rows, and agreement asks nothing of a deleted group.
LEMMA DeleteStep ==
  ASSUME IInv, NEW u \in User, Delete(u), faults' \in 0..MaxFaults
  PROVE  IInv'
<1>1. 0 \in 0..MaxVersion
  BY BoundAssumption
<1>2. /\ loss' \in [User -> [at : {"idle", "count", "bump", "announce"}, v : 0..MaxVersion]]
      /\ \A w \in User : loss'[w].at = "announce" => loss'[w].v \in Version
  BY <1>1, AtTyped DEF Delete
<1>3. TypeOK'
  BY <1>2 DEF Delete, IInv, TypeOK, clientVars
<1>4. Agree' /\ (\A t \in tasks : Good(t, keys, alive))'
  BY DEF Delete, IInv, Agree, Good, clientVars
<1>. QED
  BY <1>2, <1>3, <1>4 DEF IInv

\* The purge of the envelopes keeps what is left in agreement.
LEMMA BumpStep ==
  ASSUME IInv, NEW u \in User, Bump(u)
  PROVE  IInv'
<1>0. MaxVersion \in Nat \ {0} /\ 0 \in 0..MaxVersion
  BY BoundAssumption
<1>1. CASE alive = "no"
  <2>1. /\ At(u, "idle", 0)
        /\ UNCHANGED <<alive, keys, envelopes, clientVars, role, kv, bounds>>
    BY <1>1 DEF Bump
  <2>2. /\ loss' \in [User -> [at : {"idle", "count", "bump", "announce"}, v : 0..MaxVersion]]
        /\ \A w \in User : loss'[w].at = "announce" => loss'[w].v \in Version
    BY <1>0, <2>1, AtTyped
  <2>. QED
    BY <2>1, <2>2, MembershipStep DEF IInv, TypeOK, bounds
<1>2. CASE alive # "no"
  <2>1. /\ kv < MaxVersion /\ kv' = kv + 1 /\ At(u, "announce", kv + 1)
        /\ envelopes' = [w \in User |-> {}]
        /\ UNCHANGED <<alive, keys, clientVars, role, bounds>>
    BY <1>2 DEF Bump
  <2>2. kv' \in Version /\ kv + 1 \in Version /\ kv + 1 \in 0..MaxVersion
    BY <1>0, <2>1 DEF IInv, TypeOK, Version
  <2>3. /\ loss' \in [User -> [at : {"idle", "count", "bump", "announce"}, v : 0..MaxVersion]]
        /\ \A w \in User : loss'[w].at = "announce" => loss'[w].v \in Version
    BY <2>1, <2>2, AtTyped
  <2>4. TypeOK'
    BY <2>1, <2>2, <2>3 DEF IInv, TypeOK, clientVars, bounds
  <2>5. Agree' /\ (\A t \in tasks : Good(t, keys, alive))'
    BY <2>1 DEF IInv, Agree, clientVars
  <2>. QED
    BY <2>3, <2>4, <2>5 DEF IInv
<1>. QED
  BY <1>1, <1>2

\* The request to rotate starts a task per online member.
LEMMA AnnounceStep ==
  ASSUME IInv, NEW u \in User, Announce(u)
  PROVE  IInv'
<1>0. /\ MaxVersion \in Nat \ {0} /\ 0 \in 0..MaxVersion
      /\ loss[u].v \in Version /\ loss[u].v \in 0..MaxVersion
  <2>1. MaxVersion \in Nat \ {0}
    BY BoundAssumption
  <2>2. loss[u].v \in Version
    BY DEF Announce, IInv
  <2>. QED
    BY <2>1, <2>2 DEF Version
<1>1. ASSUME NEW w \in User, NEW l
      PROVE  Good(Request(w, loss[u].v, l), keys, alive)
  <2>1. CASE w = l
    BY <1>0, <2>1 DEF Request, Task, Good, TaskType, Kind, Stage, Versioned, Minted, Written, NoKey
  <2>2. CASE w # l
    BY <1>0, <2>2 DEF Request, Task, Good, TaskType, Kind, Stage, Versioned, Minted, Written, NoKey
  <2>. QED
    BY <2>1, <2>2
<1>2. \A t \in tasks' : Good(t, keys, alive)
  <2>. DEFINE on == Member \cap online
              l == elect_rotation_leader(on)
  <2>1. on \subseteq User
    BY DEF Member
  <2>2. tasks' \subseteq tasks \cup {Request(w, loss[u].v, l) : w \in on}
    BY DEF Announce
  <2>3. \A w \in on : Good(Request(w, loss[u].v, l), keys, alive)
    BY <1>1, <2>1
  <2>. QED
    BY <2>2, <2>3 DEF IInv
<1>3. /\ loss' \in [User -> [at : {"idle", "count", "bump", "announce"}, v : 0..MaxVersion]]
      /\ \A w \in User : loss'[w].at = "announce" => loss'[w].v \in Version
  BY <1>0, AtTyped DEF Announce
<1>4. UNCHANGED <<role, alive, kv, keys, envelopes, online, mem, disk, bounds>>
  BY DEF Announce
<1>5. TypeOK'
  <2>1. tasks' \subseteq TaskType
    BY <1>2 DEF Good
  <2>. QED
    BY <1>3, <1>4, <2>1 DEF IInv, TypeOK, bounds
<1>. QED
  BY <1>2, <1>3, <1>4, <1>5 DEF IInv, Agree

\* What a removal's handler does after the commit.
LEMMA LossStepKeeps ==
  ASSUME IInv, NEW u \in User, LossStep(u) \/ CountFails(u) \/ LossFails(u)
  PROVE  IInv'
<1>0. 0 \in 0..MaxVersion
  BY BoundAssumption
<1>1. CASE CountRemaining(u)
  <2>1. At(u, "bump", 0) /\ UNCHANGED <<role, alive, kv, keys, envelopes, clientVars, bounds>>
    BY <1>1 DEF CountRemaining
  <2>2. /\ loss' \in [User -> [at : {"idle", "count", "bump", "announce"}, v : 0..MaxVersion]]
        /\ \A w \in User : loss'[w].at = "announce" => loss'[w].v \in Version
    BY <1>0, <2>1, AtTyped
  <2>. QED
    BY <2>1, <2>2, MembershipStep DEF IInv, TypeOK, bounds
<1>2. CASE DeleteEmpty(u)
  BY <1>2, DeleteStep DEF DeleteEmpty, IInv, TypeOK
<1>3. CASE CountFails(u)
  BY <1>3, FaultTyped, DeleteStep DEF CountFails
<1>4. CASE LossFails(u)
  <2>1. /\ At(u, "idle", 0) /\ Fault
        /\ UNCHANGED <<role, alive, kv, keys, envelopes, clientVars, removals, joins>>
    BY <1>4 DEF LossFails
  <2>2. /\ loss' \in [User -> [at : {"idle", "count", "bump", "announce"}, v : 0..MaxVersion]]
        /\ \A w \in User : loss'[w].at = "announce" => loss'[w].v \in Version
    BY <1>0, <2>1, AtTyped
  <2>. QED
    BY <2>1, <2>2, FaultTyped, MembershipStep DEF IInv, TypeOK
<1>. QED
  BY <1>1, <1>2, <1>3, <1>4, BumpStep, AnnounceStep DEF LossStep

\* A send, a join, and restarts.
LEMMA UserStepKeeps ==
  ASSUME IInv, NEW u \in User, NEW by \in User,
         \/ SendGroupMessage(u) \/ AddMember(by, u) \/ AppRestart(u) \/ Reconnect(u)
  PROVE  IInv'
<1>0. MaxVersion \in Nat \ {0} /\ MaxJoins \in Nat
  BY BoundAssumption
<1>1. CASE SendGroupMessage(u)
  <2>1. /\ mem' = [mem EXCEPT ![u] = LocalKey(u)]
        /\ UNCHANGED <<serverVars, online, disk, bounds>>
        /\ tasks' \subseteq tasks \cup {Task(u, "heal", "get"), Task(u, "fetch", "get")}
    BY <1>1 DEF SendGroupMessage
  <2>2. Good(Task(u, "heal", "get"), keys, alive) /\ Good(Task(u, "fetch", "get"), keys, alive)
    BY <1>0, FreshGood DEF Kind
  <2>3. \A t \in tasks' : Good(t, keys, alive)
    BY <2>1, <2>2 DEF IInv
  <2>4. ClientGood
    BY <2>1, <2>3, LocalIn, CachesSet
  <2>. QED
    BY <2>1, <2>4, ClientStepGood
<1>2. CASE AddMember(by, u)
  <2>. DEFINE A == {w \in online : IsAdmin(w) /\ ~Seeding(w)}
  <2>1. /\ tasks' = tasks \cup {Task(a, "join", "probe") : a \in A}
        /\ role' = [role EXCEPT ![u] = "member"]
        /\ joins < MaxJoins /\ joins' = joins + 1
        /\ UNCHANGED <<alive, kv, keys, envelopes, loss, online, mem, disk, removals, faults>>
    BY <1>2 DEF AddMember
  <2>2. \A a \in A : Good(Task(a, "join", "probe"), keys, alive)
    BY <1>0, FreshGood DEF Kind, IInv, TypeOK
  <2>3. \A t \in tasks' : Good(t, keys, alive)
    BY <2>1, <2>2 DEF IInv
  <2>4. TypeOK'
    <3>1. tasks' \subseteq TaskType
      BY <2>3 DEF Good
    <3>2. joins' \in 0..MaxJoins
      <4>1. joins \in 0..MaxJoins
        BY DEF IInv, TypeOK
      <4>. QED
        BY <1>0, <2>1, <4>1
    <3>. QED
      BY <2>1, <3>1, <3>2 DEF IInv, TypeOK
  <2>. QED
    BY <2>1, <2>3, <2>4 DEF IInv, Agree
<1>3. CASE AppRestart(u)
  <2>. DEFINE O == {[t EXCEPT !.kind = "orphan"] : t \in {s \in tasks : s.who = u /\ OnServer(s)}}
  <2>1. /\ Fault /\ online' = online \ {u} /\ mem' = [mem EXCEPT ![u] = NoKey]
        /\ tasks' \subseteq tasks \cup O
        /\ UNCHANGED <<serverVars, disk, removals, joins>>
    BY <1>3 DEF AppRestart
  <2>2. ASSUME NEW t \in tasks, OnServer(t)
        PROVE  Good([t EXCEPT !.kind = "orphan"], keys, alive)
    BY <2>2 DEF IInv, Good, TaskType, Kind, OnServer, Versioned, Minted, Written
  <2>3. \A t \in tasks' : Good(t, keys, alive)
    BY <2>1, <2>2 DEF IInv
  <2>4. ClientGood
    BY <2>1, <2>3, CachesSet
  <2>. QED
    BY <2>1, <2>4, FaultTyped, ClientStep DEF ClientGood, IInv, TypeOK
<1>4. CASE Reconnect(u)
  <2>1. /\ UNCHANGED <<serverVars, mem, disk, tasks, bounds>>
        /\ online' = online \cup {u}
    BY <1>4 DEF Reconnect
  <2>2. /\ removals' \in 0..MaxRemovals /\ joins' \in 0..MaxJoins /\ faults' \in 0..MaxFaults
        /\ online' \subseteq User /\ UNCHANGED serverVars
    BY <2>1 DEF IInv, TypeOK, bounds
  <2>3. ClientGood
    BY <2>1, CachesKept DEF IInv
  <2>. QED
    BY <2>2, <2>3, ClientStep DEF ClientGood
<1>. QED
  BY <1>1, <1>2, <1>3, <1>4

\* A restart of the server drops the handlers in flight.
LEMMA ServerRestartKeeps ==
  ASSUME IInv, ServerRestart
  PROVE  IInv'
<1>0. MaxVersion \in Nat \ {0}
  BY BoundAssumption
<1>1. /\ Fault /\ loss' = [u \in User |-> Idle] /\ online' = {}
      /\ tasks' \subseteq tasks \cup {Task(t.who, "fetch", "get") : t \in tasks}
      /\ UNCHANGED <<role, alive, kv, keys, envelopes, mem, disk, removals, joins>>
  BY DEF ServerRestart
<1>2. \A t \in tasks : Good(Task(t.who, "fetch", "get"), keys, alive)
  <2>1. \A t \in tasks : t.who \in User
    BY DEF IInv, TypeOK, TaskType
  <2>. QED
    BY <1>0, <2>1, FreshGood DEF Kind
<1>3. \A t \in tasks' : Good(t, keys, alive)
  BY <1>1, <1>2 DEF IInv
<1>4. TypeOK'
  <2>1. tasks' \subseteq TaskType
    BY <1>3 DEF Good
  <2>2. loss' \in [User -> [at : {"idle", "count", "bump", "announce"}, v : 0..MaxVersion]]
    BY <1>0, <1>1 DEF Idle
  <2>. QED
    BY <1>1, <2>1, <2>2, FaultTyped DEF IInv, TypeOK
<1>. QED
  BY <1>1, <1>3, <1>4 DEF IInv, Agree, Idle

------------------------------------------------------------------------------
\* The invariant holds when the group has just been created.
LEMMA InitIInv == Init => IInv
<1>. SUFFICES ASSUME Init PROVE IInv
  OBVIOUS
<1>0. MaxVersion \in Nat \ {0} /\ MaxRemovals \in Nat /\ MaxJoins \in Nat /\ MaxFaults \in Nat
  BY BoundAssumption
<1>1. Good(Task(Creator, "join", "probe"), keys, alive)
  BY <1>0, UserAssumption, FreshGood DEF Kind
<1>2. tasks \subseteq TaskType
  BY <1>1 DEF Init, Good
<1>3. TypeOK
  <2>1. role \in [User -> {"owner", "admin", "member", "none"}] /\ alive \in {"yes", "no"}
    BY DEF Init
  <2>2. kv \in Version /\ removals \in 0..MaxRemovals /\ joins \in 0..MaxJoins
        /\ faults \in 0..MaxFaults
    BY <1>0 DEF Init, Version
  <2>3. loss \in [User -> [at : {"idle", "count", "bump", "announce"}, v : 0..MaxVersion]]
    BY <1>0 DEF Init, Idle
  <2>4. /\ keys \subseteq Key /\ envelopes \in [User -> SUBSET Key] /\ online \subseteq User
        /\ mem \in [User -> Key \cup {NoKey}] /\ disk \in [User -> SUBSET Key]
    BY DEF Init
  <2>. QED
    BY <1>2, <2>1, <2>2, <2>3, <2>4 DEF TypeOK
<1>4. Agree
  BY DEF Init, Agree
<1>5. \A t \in tasks : Good(t, keys, alive)
  BY <1>1 DEF Init
<1>6. \A u \in User : loss[u].at # "announce"
  BY DEF Init, Idle
<1>. QED
  BY <1>3, <1>4, <1>5, <1>6 DEF IInv

\* The invariant is inductive: one case per action of the specification.
LEMMA NextIInv == IInv /\ [Next]_vars => IInv'
<1>. SUFFICES ASSUME IInv, [Next]_vars PROVE IInv'
  OBVIOUS
<1>1. CASE UNCHANGED vars
  <2>1. UNCHANGED <<serverVars, online, bounds>> /\ UNCHANGED <<mem, disk, tasks>>
    BY <1>1 DEF vars, clientVars
  <2>2. ClientGood
    BY <2>1, CachesKept DEF IInv
  <2>. QED
    BY <2>1, <2>2, ClientStepGood
<1>2. ASSUME NEW t \in tasks, TaskStep(t) \/ TaskFault(t) PROVE IInv'
  BY <1>2, QuietTaskStep, StoreKeyStep, TaskFaultStep DEF TaskStep
<1>3. ASSUME NEW u \in User,
             \/ LossStep(u) \/ CountFails(u) \/ LossFails(u)
             \/ SendGroupMessage(u) \/ LeaveGroup(u) \/ AppRestart(u) \/ Reconnect(u)
             \/ \E by \in User : RemoveMember(by, u) \/ AddMember(by, u)
      PROVE  IInv'
  <2>1. CASE LeaveGroup(u) \/ \E by \in User : RemoveMember(by, u)
    BY <2>1, RemovalStep DEF LeaveGroup, RemoveMember
  <2>2. CASE \/ SendGroupMessage(u) \/ AppRestart(u) \/ Reconnect(u)
             \/ \E by \in User : AddMember(by, u)
    BY <2>2, UserStepKeeps
  <2>. QED
    BY <1>3, <2>1, <2>2, LossStepKeeps
<1>. QED
  BY <1>1, <1>2, <1>3, ServerRestartKeeps DEF Next

\* The type invariant of the rows, the caches and the requests in flight.
THEOREM TypeCorrect == Spec => []TypeOK
<1>1. IInv => TypeOK
  BY DEF IInv
<1>. QED
  BY <1>1, InitIInv, NextIInv, PTL DEF Spec

\* A version of the group key names one key for everyone, however many rotators
\* race in upload_group_key and whatever fails or restarts in between: the rows,
\* the envelopes and every client's cache and store agree.
THEOREM KeyAgreementHolds == Spec => []KeyAgreement
<1>1. IInv => KeyAgreement
  BY DEF IInv, Agree, KeyAgreement
<1>. QED
  BY <1>1, InitIInv, NextIInv, PTL DEF Spec

\* No step but the deletion of the conversation drops or replaces a row of
\* group_keys, so the UNIQUE constraint keeps its force.
THEOREM VersionWrittenOnceHolds == Spec => VersionWrittenOnce
<1>1. [Next]_vars => [alive' = "yes" => keys \subseteq keys']_vars
  <2>. SUFFICES ASSUME Next PROVE alive' = "yes" => keys \subseteq keys'
    OBVIOUS
  <2>1. ASSUME NEW t \in tasks, TaskStep(t) PROVE keys \subseteq keys'
    BY <2>1 DEF TaskStep, StoreKey, GetLatest, GotForFetch, GotForEvent, GotForHeal,
                WaitOver, Probe, Purge, FetchMembers, RequireAdmin, EnsureMembers,
                BroadcastRotated, CacheUploaded, serverVars
  <2>2. ASSUME NEW t \in tasks, TaskFault(t) PROVE keys \subseteq keys'
    BY <2>2 DEF TaskFault, GetFails, ProbeFails, FetchMembersFails, AnswerLost, serverVars
  <2>3. ASSUME NEW u \in User, LossStep(u) \/ CountFails(u) \/ LossFails(u)
        PROVE  alive' = "yes" => keys \subseteq keys'
    BY <2>3 DEF LossStep, CountRemaining, DeleteEmpty, CountFails, Delete, Bump, Announce,
                LossFails
  <2>4. ASSUME NEW u \in User, NEW by \in User,
               \/ SendGroupMessage(u) \/ LeaveGroup(u) \/ AppRestart(u) \/ Reconnect(u)
               \/ RemoveMember(by, u) \/ AddMember(by, u)
        PROVE  keys \subseteq keys'
    BY <2>4 DEF SendGroupMessage, LeaveGroup, RemoveMember, Removed, AddMember,
                AppRestart, Reconnect, serverVars
  <2>5. CASE ServerRestart
    BY <2>5 DEF ServerRestart
  <2>. QED
    BY <2>1, <2>2, <2>3, <2>4, <2>5 DEF Next
<1>. QED
  BY <1>1, PTL DEF Spec, VersionWrittenOnce
==============================================================================
