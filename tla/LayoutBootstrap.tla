--------------------------- MODULE LayoutBootstrap --------------------------
(***************************************************************************)
(* The bootstrap data of protected pages:                                  *)
(* src/src/lib/auth/protected-layout-bootstrap.ts, read by the layout and  *)
(* the start page once the guard has let them in, and dropped by the       *)
(* settings route (src/src/app/%5Fhubuum-bff/settings/route.ts).           *)
(*                                                                         *)
(* Each pod keeps, per session, the promise of the last load for a few     *)
(* seconds, pending or not.  What is loaded is here the version of the     *)
(* principal's settings, which sessions on every pod read and write.       *)
(***************************************************************************)
EXTENDS Naturals, Integers, FiniteSets, Functions

CONSTANTS
    Pods,        \* server processes
    Sids,        \* sessions of one principal
    MaxVisits,   \* bound: page loads and settings updates
    CacheTtl,    \* PROTECTED_LAYOUT_BOOTSTRAP_TTL_MS, in ticks
    MaxEntries,  \* MAX_CACHE_ENTRIES
    MaxVersion   \* bound: settings updates

ASSUME BoundsAssumption ==
    /\ CacheTtl \in Nat \ {0}
    /\ MaxEntries \in Nat \ {0}
    /\ MaxVersion \in Nat
    /\ MaxVisits \in Nat

\* Numbered in the order they arrive.
Visits == 1..MaxVisits

Versions == 0..MaxVersion
Pending == -2      \* the promise of a load is not settled
Unloaded == -1     \* it settled without settings

VARIABLES
    version,   \* backend: the settings
    past,      \* history: the version so many ticks ago
    written,   \* history: per pod and session, the latest update answered
    cache,     \* per pod: bootstrapCache, from some of the sessions
    stage,     \* where a request is
    pod, sid,  \* where and for which session it runs
    leader,    \* whose load it awaits
    value,     \* what its own load settled with
    floor,     \* history: the version CacheTtl ticks before it arrived
    own        \* history: the update its session had been answered by then

settings == <<version, past, written>>
bootstrapVars == <<settings, cache, stage, pod, sid, leader, value, floor, own>>

Entries == [left : 0..CacheTtl, by : Visits]
Caches == UNION {[S -> Entries] : S \in SUBSET Sids}

BootstrapTypeOK ==
    /\ version \in Versions
    /\ past \in [0..CacheTtl -> Versions]
    /\ written \in [Pods -> [Sids -> Versions]]
    /\ cache \in [Pods -> Caches]
    /\ stage \in [Visits -> {"idle", "identify", "read", "waiting",
                            "patching", "applied", "patched", "failed"}]
    /\ pod \in [Visits -> Pods]
    /\ sid \in [Visits -> Sids]
    /\ leader \in [Visits -> Visits]
    /\ value \in [Visits -> Versions \union {Pending, Unloaded}]
    /\ floor \in [Visits -> Versions]
    /\ own \in [Visits -> Versions]

GoTo(r, where) == stage' = [stage EXCEPT ![r] = where]

BootstrapInit ==
    \E p \in Pods, s \in Sids :
        /\ version = 0
        /\ past = [i \in 0..CacheTtl |-> 0]
        /\ written = [q \in Pods |-> [t \in Sids |-> 0]]
        /\ cache = [q \in Pods |-> [t \in {} |-> 0]]
        /\ stage = [r \in Visits |-> "idle"]
        /\ pod = [r \in Visits |-> p]
        /\ sid = [r \in Visits |-> s]
        /\ leader = [r \in Visits |-> r]
        /\ value = [r \in Visits |-> Pending]
        /\ floor = [r \in Visits |-> 0]
        /\ own = [r \in Visits |-> 0]

-----------------------------------------------------------------------------
PrunedNever(p) == cache[p]

\* pruneCache
Pruned(p) == Restrict(cache[p], {s \in DOMAIN cache[p] : cache[p][s].left > 0})

RoomWhenOverfull(entries, K) ==
    /\ K \subseteq DOMAIN entries
    /\ IF Cardinality(DOMAIN entries) <= MaxEntries
       THEN K = DOMAIN entries
       ELSE Cardinality(K) = MaxEntries - 1

\* makeRoomForCacheEntry: the oldest entries go until one more fits, and the
\* sessions K remain.  All entries live equally long, so the oldest have the
\* least time left; of those that are equally old any may be the first.
WithRoom(entries, K) ==
    /\ K \subseteq DOMAIN entries
    /\ IF Cardinality(DOMAIN entries) < MaxEntries
       THEN K = DOMAIN entries
       ELSE /\ Cardinality(K) = MaxEntries - 1
            /\ \A s \in K, t \in DOMAIN entries \ K :
                   entries[t].left <= entries[s].left

EntryFor(r) == [left |-> CacheTtl, by |-> r]

\* A page of session s arrives at p.
Arrive(r, p, s) ==
    /\ stage[r] = "idle"
    /\ \A q \in Visits : q < r => stage[q] # "idle"
    /\ pod' = [pod EXCEPT ![r] = p]
    /\ sid' = [sid EXCEPT ![r] = s]
    /\ floor' = [floor EXCEPT ![r] = past[CacheTtl]]
    /\ own' = [own EXCEPT ![r] = written[p][s]]
    /\ UNCHANGED <<settings, value>>

\* loadProtectedLayoutBootstrap with an entry: its promise is returned.
LoadCached(r, p, s) ==
    /\ Arrive(r, p, s)
    /\ s \in DOMAIN Pruned(p)
    /\ leader' = [leader EXCEPT ![r] = Pruned(p)[s].by]
    /\ cache' = [cache EXCEPT ![p] = Pruned(p)]
    /\ GoTo(r, "waiting")

\* And without one: a load is begun and remembered at once.
LoadFresh(r, p, s) ==
    /\ Arrive(r, p, s)
    /\ s \notin DOMAIN Pruned(p)
    /\ leader' = [leader EXCEPT ![r] = r]
    /\ \E K \in SUBSET DOMAIN Pruned(p) :
           /\ WithRoom(Pruned(p), K)
           /\ cache' = [cache EXCEPT ![p] =
                           [t \in K \union {s} |->
                               IF t = s THEN EntryFor(r) ELSE Pruned(p)[t]]]
    /\ GoTo(r, "identify")

\* hasAdminAccess and getCurrentPrincipalId; without a principal id there is
\* nothing more to load.
Identify(r) ==
    /\ stage[r] = "identify"
    /\ \/ GoTo(r, "read") /\ UNCHANGED value
       \/ GoTo(r, "waiting") /\ value' = [value EXCEPT ![r] = Unloaded]
    /\ UNCHANGED <<settings, cache, pod, sid, leader, floor, own>>

\* loadUserSettingsSnapshotForPrincipal; a failure counts as no settings.
ReadSettings(r) ==
    /\ stage[r] = "read"
    /\ \E seen \in {version, Unloaded} : value' = [value EXCEPT ![r] = seen]
    /\ GoTo(r, "waiting")
    /\ UNCHANGED <<settings, cache, pod, sid, leader, floor, own>>

-----------------------------------------------------------------------------
(* The settings route                                                      *)

Without(p, s) == Restrict(cache[p], DOMAIN cache[p] \ {s})

KeptOnAnswer(p, s) == cache

\* invalidateProtectedLayoutBootstrap, once the update has been answered.
Invalidated(p, s) == [cache EXCEPT ![p] = Without(p, s)]

Patch(r, p, s) ==
    /\ Arrive(r, p, s)
    /\ GoTo(r, "patching")
    /\ UNCHANGED <<cache, leader>>

PatchApplied(r) ==
    /\ stage[r] = "patching"
    /\ version < MaxVersion
    /\ version' = version + 1
    /\ past' = [past EXCEPT ![0] = version + 1]
    /\ GoTo(r, "applied")
    /\ UNCHANGED <<written, cache, pod, sid, leader, value, floor, own>>

PatchAnswered(r) ==
    /\ stage[r] = "applied"
    /\ cache' = Invalidated(pod[r], sid[r])
    /\ written' = [written EXCEPT ![pod[r]][sid[r]] = version]
    /\ GoTo(r, "patched")
    /\ UNCHANGED <<version, past, pod, sid, leader, value, floor, own>>

\* Nothing is invalidated if the update fails or its answer is lost.
PatchFails(r) ==
    /\ stage[r] \in {"patching", "applied"}
    /\ GoTo(r, "failed")
    /\ UNCHANGED <<settings, cache, pod, sid, leader, value, floor, own>>

\* destroySession on p
Destroy(p, s) ==
    /\ cache' = [cache EXCEPT ![p] = Without(p, s)]
    /\ UNCHANGED <<settings, stage, pod, sid, leader, value, floor, own>>

-----------------------------------------------------------------------------
LeftUnclamped(e) == e.left - 1

\* expiresAt - now() one tick later; what is past is all the same.
Left(e) == IF e.left > 0 THEN e.left - 1 ELSE 0

\* One tick; an expired entry stays until the next load prunes it.
Tick ==
    /\ past' = [i \in 0..CacheTtl |-> IF i = 0 THEN version ELSE past[i - 1]]
    /\ cache' = [p \in Pods |->
                    [s \in DOMAIN cache[p] |->
                        [cache[p][s] EXCEPT !.left = Left(cache[p][s])]]]
    /\ UNCHANGED <<version, written, stage, pod, sid, leader, value, floor, own>>

BootstrapNext ==
    \/ \E r \in Visits :
           \/ \E p \in Pods, s \in Sids : \/ LoadCached(r, p, s)
                                          \/ LoadFresh(r, p, s)
                                          \/ Patch(r, p, s)
           \/ Identify(r) \/ ReadSettings(r)
           \/ PatchApplied(r) \/ PatchAnswered(r) \/ PatchFails(r)
    \/ \E p \in Pods, s \in Sids : Destroy(p, s)
    \/ Tick

BootstrapSpec == BootstrapInit /\ [][BootstrapNext]_bootstrapVars
-----------------------------------------------------------------------------
\* The settings a page is rendered with, if any.
Served(r) == IF stage[r] = "waiting" THEN value[leader[r]] ELSE Pending

\* A page is never rendered with settings that were out of date for the whole
\* life of a cache entry when it was requested.
StaleNoLongerThanTtl ==
    \A r \in Visits : Served(r) \in Versions => Served(r) >= floor[r]

\* A page requested after the pod answered an update of the same session is
\* rendered with that update, also if a load begun before is still pending.
OwnUpdateServed ==
    \A r \in Visits : Served(r) \in Versions => Served(r) >= own[r]

\* The cache of a pod never outgrows its limit.
CacheBounded == \A p \in Pods : Cardinality(DOMAIN cache[p]) <= MaxEntries
=============================================================================
