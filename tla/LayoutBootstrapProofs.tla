------------------------ MODULE LayoutBootstrapProofs -----------------------
(***************************************************************************)
(* Proofs about LayoutBootstrap: what a page is rendered with is no older  *)
(* than the life of a cache entry allows, and no older than the session's  *)
(* own updates on the pod; the cache stays within its limit.               *)
(*                                                                         *)
(* The invariant compares what a remembered load has settled with to the   *)
(* settings at the last tick before it began, CacheTtl - left + 1 ticks    *)
(* ago: an update of the same tick may have come after it was read.        *)
(***************************************************************************)
EXTENDS LayoutBootstrap, FiniteSetTheorems, TLAPS

\* The history of the settings leads up to the present ones.
Aged ==
    /\ past[0] = version
    /\ \A i, j \in 0..CacheTtl : i <= j => past[j] <= past[i]
    /\ \A p \in Pods, s \in Sids : written[p][s] <= version

\* A load that may still be joined has settled with nothing too old.
Recent(p, s) ==
    LET e == cache[p][s] IN
    value[e.by] \in Versions =>
        /\ e.left > 0 => past[CacheTtl - e.left + 1] <= value[e.by]
        /\ written[p][s] <= value[e.by]

AllRecent == \A p \in Pods : \A s \in DOMAIN cache[p] : Recent(p, s)

\* A request has had no answer before it asks, leads the load it runs, and is
\* rendered with nothing older than was there when it arrived.
Rendered(r) ==
    /\ stage[r] = "idle" => value[r] = Pending
    /\ stage[r] \in {"identify", "read"} => leader[r] = r
    /\ floor[r] <= version /\ own[r] <= version
    /\ stage[r] = "waiting" /\ value[leader[r]] \in Versions
          => floor[r] <= value[leader[r]] /\ own[r] <= value[leader[r]]

AllRendered == \A r \in Visits : Rendered(r)

Bounded ==
    \A p \in Pods : /\ IsFiniteSet(DOMAIN cache[p])
                    /\ Cardinality(DOMAIN cache[p]) <= MaxEntries

BootstrapInv == BootstrapTypeOK /\ Aged /\ AllRecent /\ AllRendered /\ Bounded

-----------------------------------------------------------------------------
(* Maps                                                                    *)

\* A cache is a function of some of the sessions.
LEMMA CacheTypes ==
    ASSUME NEW c
    PROVE  c \in Caches <=> DOMAIN c \in SUBSET Sids /\ c \in [DOMAIN c -> Entries]
BY DEF Caches

\* What is left of one.
LEMMA RestrictedTypes ==
    ASSUME NEW c \in Caches, NEW S \in SUBSET DOMAIN c
    PROVE  /\ Restrict(c, S) \in Caches
           /\ DOMAIN Restrict(c, S) = S
           /\ \A s \in S : Restrict(c, S)[s] = c[s] /\ c[s] \in Entries
<1>1. DOMAIN c \in SUBSET Sids /\ c \in [DOMAIN c -> Entries]
  BY CacheTypes
<1>2. DOMAIN Restrict(c, S) = S /\ Restrict(c, S) \in [S -> Entries]
      /\ \A s \in S : Restrict(c, S)[s] = c[s] /\ c[s] \in Entries
  BY <1>1 DEF Restrict
<1> QED BY <1>1, <1>2, CacheTypes

\* The numbers are numbers.
LEMMA Numbers ==
    /\ CacheTtl \in Nat /\ CacheTtl >= 1 /\ MaxEntries \in Nat /\ MaxEntries >= 1
    /\ MaxVersion \in Nat /\ 0 \in Versions /\ Versions \subseteq Nat
    /\ Pending \notin Versions /\ Unloaded \notin Versions
    /\ 0 \in 0..CacheTtl /\ CacheTtl \in 0..CacheTtl
BY BoundsAssumption DEF Versions, Pending, Unloaded

-----------------------------------------------------------------------------
(* The parts of a step                                                     *)

\* A load is remembered still, or has just begun.
Remembers(p, s) ==
    LET e == cache'[p][s] IN
    \/ s \in DOMAIN cache[p] /\ e = cache[p][s]
    \/ e.left = CacheTtl /\ value'[e.by] = Pending

\* Without a tick or an update the remembered loads stay recent.
LEMMA RecentStays ==
    ASSUME BootstrapInv, UNCHANGED settings, UNCHANGED value,
           \A p \in Pods : \A s \in DOMAIN cache'[p] : Remembers(p, s)
    PROVE  AllRecent'
<1> SUFFICES ASSUME NEW p \in Pods, NEW s \in DOMAIN cache'[p]
             PROVE  Recent(p, s)'
  BY DEF AllRecent
<1>1. CASE s \in DOMAIN cache[p] /\ cache'[p][s] = cache[p][s]
  BY <1>1 DEF BootstrapInv, AllRecent, Recent, settings
<1>2. CASE value'[cache'[p][s].by] = Pending
  BY <1>2, Numbers DEF Recent
<1> QED BY <1>1, <1>2 DEF Remembers

\* Fewer sessions stay within the limit.
LEMMA FewerBounded ==
    ASSUME BootstrapInv, \A p \in Pods : DOMAIN cache'[p] \subseteq DOMAIN cache[p]
    PROVE  Bounded'
<1> SUFFICES ASSUME NEW p \in Pods
             PROVE  /\ IsFiniteSet(DOMAIN cache'[p])
                    /\ Cardinality(DOMAIN cache'[p]) <= MaxEntries
  BY DEF Bounded
<1>1. IsFiniteSet(DOMAIN cache[p]) /\ Cardinality(DOMAIN cache[p]) <= MaxEntries
  BY DEF BootstrapInv, Bounded
<1>2. /\ IsFiniteSet(DOMAIN cache'[p])
      /\ Cardinality(DOMAIN cache'[p]) <= Cardinality(DOMAIN cache[p])
  BY <1>1, FS_Subset
<1>3. Cardinality(DOMAIN cache[p]) \in Nat /\ Cardinality(DOMAIN cache'[p]) \in Nat
  BY <1>1, <1>2, FS_CardinalityType
<1> QED BY <1>1, <1>2, <1>3, Numbers

\* A page is requested, or an update.
LEMMA ArriveKeeps ==
    ASSUME BootstrapInv, NEW r \in Visits, NEW p \in Pods, NEW s \in Sids,
           Arrive(r, p, s), NEW where \in {"waiting", "identify", "patching"},
           GoTo(r, where), NEW l \in Visits, leader' = [leader EXCEPT ![r] = l],
           where = "identify" => l = r,
           where = "waiting" => s \in DOMAIN cache[p] /\ cache[p][s].left > 0
                                /\ l = cache[p][s].by /\ cache[p][s] \in Entries
    PROVE  /\ AllRendered' /\ Aged'
           /\ stage' \in [Visits -> {"idle", "identify", "read", "waiting",
                                    "patching", "applied", "patched", "failed"}]
           /\ pod' \in [Visits -> Pods] /\ sid' \in [Visits -> Sids]
           /\ floor' \in [Visits -> Versions] /\ own' \in [Visits -> Versions]
           /\ leader' \in [Visits -> Visits]
<1>1. BootstrapTypeOK /\ Aged /\ AllRecent /\ AllRendered
  BY DEF BootstrapInv
<1>2. /\ stage' \in [Visits -> {"idle", "identify", "read", "waiting",
                               "patching", "applied", "patched", "failed"}]
      /\ pod' \in [Visits -> Pods] /\ sid' \in [Visits -> Sids]
      /\ leader' \in [Visits -> Visits]
  BY <1>1 DEF BootstrapTypeOK, Arrive, GoTo
<1>3. past[CacheTtl] \in Versions /\ written[p][s] \in Versions
  BY <1>1, Numbers DEF BootstrapTypeOK
<1>4. floor' \in [Visits -> Versions] /\ own' \in [Visits -> Versions]
  BY <1>1, <1>3 DEF BootstrapTypeOK, Arrive
<1>5. Aged'
  BY <1>1 DEF Aged, Arrive, settings
<1>6. ASSUME NEW q \in Visits PROVE Rendered(q)'
  <2>1. CASE q # r
    <3>1. /\ stage'[q] = stage[q] /\ leader'[q] = leader[q] /\ floor'[q] = floor[q]
          /\ own'[q] = own[q] /\ UNCHANGED <<version, value>>
      BY <1>1, <2>1 DEF BootstrapTypeOK, Arrive, GoTo, settings
    <3>2. Rendered(q)
      BY <1>1 DEF AllRendered
    <3> QED BY <3>1, <3>2 DEF Rendered
  <2>2. CASE q = r
    <3>1. /\ stage'[q] = where /\ leader'[q] = l /\ floor'[q] = past[CacheTtl]
          /\ own'[q] = written[p][s] /\ UNCHANGED <<version, value>>
      BY <1>1, <2>2 DEF BootstrapTypeOK, Arrive, GoTo, settings
    <3>2. past[CacheTtl] <= version /\ written[p][s] <= version
      BY <1>1, Numbers DEF Aged
    <3>3. ASSUME where = "waiting", value[l] \in Versions
          PROVE  past[CacheTtl] <= value[l] /\ written[p][s] <= value[l]
      <4>1. Recent(p, s)
        BY <1>1, <3>3 DEF AllRecent
      <4>2. cache[p][s].left \in 1..CacheTtl
        BY <3>3, Numbers DEF Entries
      <4> DEFINE k == CacheTtl - cache[p][s].left + 1
      <4>3. k \in 0..CacheTtl
        BY <4>2, Numbers
      <4>4. past[k] <= value[l] /\ written[p][s] <= value[l]
        BY <3>3, <4>1 DEF Recent
      <4>5. past[CacheTtl] <= past[k]
        BY <1>1, <4>3, Numbers DEF Aged
      <4>6. past[CacheTtl] \in Nat /\ past[k] \in Nat /\ value[l] \in Nat
        BY <1>1, <3>3, <4>3, Numbers DEF BootstrapTypeOK
      <4> HIDE DEF k
      <4> QED BY <4>4, <4>5, <4>6
    <3> QED BY <2>2, <3>1, <3>2, <3>3 DEF Rendered
  <2> QED BY <2>1, <2>2
<1> QED BY <1>2, <1>4, <1>5, <1>6 DEF AllRendered

\* pruneCache leaves what has time left.
LEMMA PrunedTypes ==
    ASSUME BootstrapTypeOK, NEW p \in Pods
    PROVE  /\ Pruned(p) \in Caches /\ DOMAIN Pruned(p) \subseteq DOMAIN cache[p]
           /\ \A s \in DOMAIN Pruned(p) : /\ Pruned(p)[s] = cache[p][s]
                                          /\ Pruned(p)[s] \in Entries
                                          /\ Pruned(p)[s].left > 0
<1> DEFINE S == {s \in DOMAIN cache[p] : cache[p][s].left > 0}
<1>1. cache[p] \in Caches /\ S \in SUBSET DOMAIN cache[p]
  BY DEF BootstrapTypeOK
<1>2. \A s \in S : cache[p][s].left > 0
  OBVIOUS
<1>3. Pruned(p) = Restrict(cache[p], S)
  BY DEF Pruned
<1> HIDE DEF S
<1> QED BY <1>1, <1>2, <1>3, RestrictedTypes

-----------------------------------------------------------------------------
(* The steps                                                               *)

\* A page finds an entry.
LEMMA CachedKeeps ==
    ASSUME BootstrapInv, NEW r \in Visits, NEW p \in Pods, NEW s \in Sids,
           LoadCached(r, p, s)
    PROVE  BootstrapInv'
<1>1. BootstrapTypeOK
  BY DEF BootstrapInv
<1>2. /\ Arrive(r, p, s) /\ GoTo(r, "waiting") /\ s \in DOMAIN Pruned(p)
      /\ leader' = [leader EXCEPT ![r] = Pruned(p)[s].by]
      /\ cache' = [cache EXCEPT ![p] = Pruned(p)]
      /\ UNCHANGED <<settings, value>>
  BY DEF LoadCached, Arrive
<1>3. /\ s \in DOMAIN cache[p] /\ cache[p][s].left > 0
      /\ Pruned(p)[s] = cache[p][s] /\ cache[p][s] \in Entries
      /\ cache[p][s].by \in Visits
  BY <1>1, <1>2, PrunedTypes DEF Entries
<1>4. /\ AllRendered' /\ Aged'
      /\ stage' \in [Visits -> {"idle", "identify", "read", "waiting",
                               "patching", "applied", "patched", "failed"}]
      /\ pod' \in [Visits -> Pods] /\ sid' \in [Visits -> Sids]
      /\ floor' \in [Visits -> Versions] /\ own' \in [Visits -> Versions]
      /\ leader' \in [Visits -> Visits]
  BY <1>2, <1>3, ArriveKeeps
<1>5. cache' \in [Pods -> Caches]
  BY <1>1, <1>2, PrunedTypes DEF BootstrapTypeOK
<1>6. ASSUME NEW o \in Pods
      PROVE  /\ DOMAIN cache'[o] \subseteq DOMAIN cache[o]
             /\ \A t \in DOMAIN cache'[o] : cache'[o][t] = cache[o][t]
  BY <1>1, <1>2, PrunedTypes DEF BootstrapTypeOK
<1>7. AllRecent'
  <2>1. \A o \in Pods : \A t \in DOMAIN cache'[o] : Remembers(o, t)
    BY <1>6 DEF Remembers
  <2> QED BY <1>2, <2>1, RecentStays
<1>8. Bounded'
  BY <1>6, FewerBounded
<1>9. BootstrapTypeOK'
  BY <1>1, <1>2, <1>4, <1>5 DEF BootstrapTypeOK, settings
<1> QED BY <1>4, <1>7, <1>8, <1>9 DEF BootstrapInv

\* A page begins a load.
LEMMA FreshKeeps ==
    ASSUME BootstrapInv, NEW r \in Visits, NEW p \in Pods, NEW s \in Sids,
           LoadFresh(r, p, s)
    PROVE  BootstrapInv'
<1>1. BootstrapTypeOK /\ Rendered(r)
  BY DEF BootstrapInv, AllRendered
<1>2. PICK K \in SUBSET DOMAIN Pruned(p) :
         /\ WithRoom(Pruned(p), K)
         /\ cache' = [cache EXCEPT ![p] =
                         [t \in K \union {s} |->
                             IF t = s THEN EntryFor(r) ELSE Pruned(p)[t]]]
  BY DEF LoadFresh
<1> DEFINE c == [t \in K \union {s} |-> IF t = s THEN EntryFor(r) ELSE Pruned(p)[t]]
<1>3. /\ Arrive(r, p, s) /\ GoTo(r, "identify") /\ stage[r] = "idle"
      /\ leader' = [leader EXCEPT ![r] = r]
      /\ UNCHANGED <<settings, value>>
  BY DEF LoadFresh, Arrive
<1>4. EntryFor(r) \in Entries /\ EntryFor(r).left = CacheTtl /\ EntryFor(r).by = r
  BY Numbers DEF EntryFor, Entries
<1>5. /\ DOMAIN c = K \union {s} /\ c[s] = EntryFor(r)
      /\ \A t \in K : t # s => c[t] = Pruned(p)[t]
  OBVIOUS
<1>6. c \in Caches
  <2>1. /\ DOMAIN Pruned(p) \in SUBSET Sids
        /\ \A t \in DOMAIN Pruned(p) : Pruned(p)[t] \in Entries
    BY <1>1, PrunedTypes, CacheTypes
  <2>2. c \in [K \union {s} -> Entries]
    BY <1>4, <2>1
  <2> QED BY <1>5, <2>1, <2>2, CacheTypes
<1>7. cache'[p] = c /\ cache' \in [Pods -> Caches]
      /\ \A o \in Pods : o # p => cache'[o] = cache[o]
  BY <1>1, <1>2, <1>6 DEF BootstrapTypeOK
<1> HIDE DEF c
<1>8. /\ AllRendered' /\ Aged'
      /\ stage' \in [Visits -> {"idle", "identify", "read", "waiting",
                               "patching", "applied", "patched", "failed"}]
      /\ pod' \in [Visits -> Pods] /\ sid' \in [Visits -> Sids]
      /\ floor' \in [Visits -> Versions] /\ own' \in [Visits -> Versions]
      /\ leader' \in [Visits -> Visits]
  BY <1>3, ArriveKeeps
<1>9. AllRecent'
  <2>1. value'[r] = Pending
    BY <1>1, <1>3 DEF Rendered
  <2>2. ASSUME NEW o \in Pods, NEW t \in DOMAIN cache'[o] PROVE Remembers(o, t)
    <3>1. CASE o # p
      BY <1>7, <2>2, <3>1 DEF Remembers
    <3>2. CASE o = p /\ t = s
      BY <1>4, <1>5, <1>7, <2>1, <3>2 DEF Remembers
    <3>3. CASE o = p /\ t # s
      <4>1. t \in K /\ cache'[o][t] = Pruned(p)[t]
        BY <1>5, <1>7, <2>2, <3>3
      <4> QED BY <1>1, <3>3, <4>1, PrunedTypes DEF Remembers
    <3> QED BY <3>1, <3>2, <3>3
  <2> QED BY <1>3, <2>2, RecentStays
<1>10. Bounded'
  <2> DEFINE P == DOMAIN Pruned(p)
  <2>1. /\ IsFiniteSet(DOMAIN cache[p]) /\ P \subseteq DOMAIN cache[p]
    BY <1>1, PrunedTypes DEF BootstrapInv, Bounded
  <2>2. IsFiniteSet(P) /\ IsFiniteSet(K)
    BY <2>1, FS_Subset
  <2>3. Cardinality(P) \in Nat /\ Cardinality(K) \in Nat
    BY <2>2, FS_CardinalityType
  <2>4. Cardinality(K) <= MaxEntries - 1
    <3>1. CASE Cardinality(P) < MaxEntries
      <4>1. K = P
        BY <1>2, <3>1 DEF WithRoom
      <4> QED BY <2>3, <3>1, <4>1, Numbers
    <3>2. CASE ~(Cardinality(P) < MaxEntries)
      <4>1. Cardinality(K) = MaxEntries - 1
        BY <1>2, <3>2 DEF WithRoom
      <4> QED BY <4>1, Numbers
    <3> QED BY <3>1, <3>2
  <2>5. /\ IsFiniteSet(K \union {s})
        /\ Cardinality(K \union {s}) \in {Cardinality(K), Cardinality(K) + 1}
    BY <2>2, FS_AddElement
  <2>6. IsFiniteSet(DOMAIN cache'[p]) /\ Cardinality(DOMAIN cache'[p]) <= MaxEntries
    BY <1>5, <1>7, <2>3, <2>4, <2>5, Numbers
  <2> QED BY <1>7, <2>6 DEF Bounded, BootstrapInv
<1>11. BootstrapTypeOK'
  BY <1>1, <1>3, <1>7, <1>8 DEF BootstrapTypeOK, settings
<1> QED BY <1>8, <1>9, <1>10, <1>11 DEF BootstrapInv

\* A load goes on: with the settings as they are, or with none.
LEMMA LoadKeeps ==
    ASSUME BootstrapInv, NEW r \in Visits, Identify(r) \/ ReadSettings(r)
    PROVE  BootstrapInv'
<1>1. BootstrapTypeOK /\ Aged /\ AllRecent /\ AllRendered /\ version \in Versions
  BY DEF BootstrapInv, BootstrapTypeOK
<1>2. /\ UNCHANGED <<settings, cache, pod, sid, leader, floor, own>>
      /\ \A q \in Visits : q # r => stage'[q] = stage[q] /\ value'[q] = value[q]
      /\ value'[r] \in {value[r], version, Unloaded}
      /\ stage[r] \in {"identify", "read"}
      /\ \/ stage'[r] = "read"
         \/ stage'[r] = "waiting" /\ value'[r] \in {version, Unloaded}
  BY <1>1 DEF Identify, ReadSettings, GoTo, BootstrapTypeOK
<1>3. BootstrapTypeOK'
  <2>1. /\ stage' \in [Visits -> {"idle", "identify", "read", "waiting",
                                 "patching", "applied", "patched", "failed"}]
        /\ value' \in [Visits -> Versions \union {Pending, Unloaded}]
    <3>1. CASE Identify(r)
      <4>1. CASE GoTo(r, "read") /\ UNCHANGED value
        BY <1>1, <4>1 DEF GoTo, BootstrapTypeOK
      <4>2. CASE GoTo(r, "waiting") /\ value' = [value EXCEPT ![r] = Unloaded]
        BY <1>1, <4>2 DEF GoTo, BootstrapTypeOK
      <4> QED BY <3>1, <4>1, <4>2 DEF Identify
    <3>2. CASE ReadSettings(r)
      <4>1. PICK seen \in {version, Unloaded} : value' = [value EXCEPT ![r] = seen]
        BY <3>2 DEF ReadSettings
      <4>2. GoTo(r, "waiting")
        BY <3>2 DEF ReadSettings
      <4>3. value' \in [Visits -> Versions \union {Pending, Unloaded}]
        BY <1>1, <4>1 DEF BootstrapTypeOK
      <4>4. stage' \in [Visits -> {"idle", "identify", "read", "waiting",
                                 "patching", "applied", "patched", "failed"}]
        BY <1>1, <4>2 DEF GoTo, BootstrapTypeOK
      <4> QED BY <4>3, <4>4
    <3> QED BY <3>1, <3>2
  <2> QED BY <1>1, <1>2, <2>1 DEF BootstrapTypeOK, settings
<1>4. Aged'
  BY <1>1, <1>2 DEF Aged, settings
<1>5. \A q \in Visits : value'[q] = value[q] \/ value'[q] \in {version, Unloaded}
  BY <1>2
<1>6. ASSUME NEW p \in Pods, NEW s \in DOMAIN cache'[p]
      PROVE  Recent(p, s)'
  <2> DEFINE e == cache[p][s]
  <2>1. /\ s \in DOMAIN cache[p] /\ cache'[p][s] = e /\ Recent(p, s)
        /\ UNCHANGED <<version, past, written>>
    BY <1>1, <1>2, <1>6 DEF AllRecent, settings
  <2>2. s \in Sids /\ e.by \in Visits /\ e.left \in 0..CacheTtl
    BY <1>1, <2>1, CacheTypes DEF BootstrapTypeOK, Entries
  <2>3. /\ written[p][s] <= version
        /\ e.left > 0 => past[CacheTtl - e.left + 1] <= version
    <3>1. e.left > 0 => CacheTtl - e.left + 1 \in 0..CacheTtl
      BY <2>2, Numbers
    <3>2. \A k \in 0..CacheTtl : past[k] <= version
      BY <1>1, Numbers DEF Aged
    <3> QED BY <1>1, <2>2, <3>1, <3>2 DEF Aged
  <2> HIDE DEF e
  <2>4. CASE value'[e.by] = value[e.by]
    BY <2>1, <2>4 DEF Recent, e
  <2>5. CASE value'[e.by] = version
    BY <2>1, <2>3, <2>5 DEF Recent
  <2>6. CASE value'[e.by] = Unloaded
    BY <2>1, <2>6, Numbers DEF Recent
  <2> QED BY <1>5, <2>2, <2>4, <2>5, <2>6
<1>7. ASSUME NEW q \in Visits PROVE Rendered(q)'
  <2>1. Rendered(q) /\ leader[q] \in Visits
    BY <1>1 DEF AllRendered, BootstrapTypeOK
  <2>2. value'[leader[q]] = value[leader[q]] \/ value'[leader[q]] \in {version, Unloaded}
    BY <1>5, <2>1
  <2>3. CASE q # r
    BY <1>2, <2>1, <2>2, <2>3, Numbers DEF Rendered, settings
  <2>4. CASE q = r
    <3>1. leader[q] = q
      BY <1>2, <2>1, <2>4 DEF Rendered
    <3> QED BY <1>2, <2>1, <2>4, <3>1, Numbers DEF Rendered, settings
  <2> QED BY <2>3, <2>4
<1>8. Bounded'
  BY <1>2, FewerBounded
<1> QED BY <1>3, <1>4, <1>6, <1>7, <1>8 DEF BootstrapInv, AllRecent, AllRendered

\* What has been rendered stays so while settings only get newer.
LEMMA RenderedStays ==
    ASSUME BootstrapInv, UNCHANGED <<leader, value, floor, own>>,
           version' \in Versions, version <= version',
           \A q \in Visits : \/ stage'[q] = stage[q]
                               \/ stage'[q] \in {"applied", "patched", "failed"}
    PROVE  AllRendered'
<1>1. BootstrapTypeOK /\ AllRendered /\ version \in Nat /\ version' \in Nat
  BY Numbers DEF BootstrapInv, BootstrapTypeOK
<1>2. ASSUME NEW q \in Visits PROVE Rendered(q)'
  <2>1. Rendered(q) /\ floor[q] \in Nat /\ own[q] \in Nat
    BY <1>1, Numbers DEF AllRendered, BootstrapTypeOK
  <2>2. floor[q] <= version' /\ own[q] <= version'
    BY <1>1, <2>1 DEF Rendered
  <2> QED BY <2>1, <2>2 DEF Rendered
<1> QED BY <1>2 DEF AllRendered

\* An update is requested.
LEMMA PatchKeeps ==
    ASSUME BootstrapInv, NEW r \in Visits, NEW p \in Pods, NEW s \in Sids,
           Patch(r, p, s)
    PROVE  BootstrapInv'
<1>1. BootstrapTypeOK
  BY DEF BootstrapInv
<1>2. Arrive(r, p, s) /\ GoTo(r, "patching") /\ UNCHANGED <<settings, value, cache, leader>>
  BY DEF Patch, Arrive
<1>3. leader[r] \in Visits /\ leader' = [leader EXCEPT ![r] = leader[r]]
  BY <1>1, <1>2 DEF BootstrapTypeOK
<1>4. /\ AllRendered' /\ Aged'
      /\ stage' \in [Visits -> {"idle", "identify", "read", "waiting",
                               "patching", "applied", "patched", "failed"}]
      /\ pod' \in [Visits -> Pods] /\ sid' \in [Visits -> Sids]
      /\ floor' \in [Visits -> Versions] /\ own' \in [Visits -> Versions]
      /\ leader' \in [Visits -> Visits]
  BY <1>2, <1>3, ArriveKeeps
<1>5. \A o \in Pods : \A t \in DOMAIN cache'[o] : Remembers(o, t)
  BY <1>2 DEF Remembers
<1>6. AllRecent'
  BY <1>2, <1>5, RecentStays
<1>7. Bounded'
  BY <1>2, FewerBounded
<1>8. BootstrapTypeOK'
  BY <1>1, <1>2, <1>4 DEF BootstrapTypeOK, settings
<1> QED BY <1>4, <1>6, <1>7, <1>8 DEF BootstrapInv

\* The backend applies it.
LEMMA AppliedKeeps ==
    ASSUME BootstrapInv, NEW r \in Visits, PatchApplied(r)
    PROVE  BootstrapInv'
<1>1. BootstrapTypeOK /\ Aged /\ AllRecent /\ version \in Nat
  BY Numbers DEF BootstrapInv, BootstrapTypeOK
<1>2. /\ version < MaxVersion /\ version' = version + 1
      /\ past' = [past EXCEPT ![0] = version + 1] /\ GoTo(r, "applied")
      /\ UNCHANGED <<written, cache, pod, sid, leader, value, floor, own>>
  BY DEF PatchApplied
<1>3. version' \in Versions /\ version <= version'
  BY <1>1, <1>2, Numbers DEF Versions
<1>4. /\ past'[0] = version + 1
      /\ \A i \in 0..CacheTtl : i # 0 => past'[i] = past[i]
  BY <1>1, <1>2, Numbers DEF BootstrapTypeOK
<1>5. stage' \in [Visits -> {"idle", "identify", "read", "waiting",
                            "patching", "applied", "patched", "failed"}]
  BY <1>1, <1>2 DEF GoTo, BootstrapTypeOK
<1>6. BootstrapTypeOK'
  <2>1. past' \in [0..CacheTtl -> Versions]
    BY <1>1, <1>2, <1>3 DEF BootstrapTypeOK
  <2> QED BY <1>1, <1>2, <1>3, <1>5, <2>1 DEF BootstrapTypeOK
<1>7. Aged'
  <2>1. past[0] = version
    BY <1>1 DEF Aged
  <2>2. ASSUME NEW i \in 0..CacheTtl, NEW j \in 0..CacheTtl, i <= j
        PROVE  past'[j] <= past'[i]
    <3>0. 0 \in 0..CacheTtl /\ 0 <= j
      BY Numbers
    <3>1. past[j] <= past[i] /\ past[j] <= past[0] /\ past[j] \in Nat
      BY <1>1, <2>2, <3>0, Numbers DEF Aged, BootstrapTypeOK
    <3>2. CASE i = 0
      BY <1>1, <1>4, <2>1, <3>1, <3>2
    <3>3. CASE i # 0
      <4>1. j # 0
        BY <2>2, <3>3
      <4> QED BY <1>4, <3>1, <3>3, <4>1
    <3> QED BY <3>2, <3>3
  <2>3. ASSUME NEW p \in Pods, NEW s \in Sids PROVE written'[p][s] <= version'
    <3>1. written[p][s] <= version /\ written[p][s] \in Nat
      BY <1>1, Numbers DEF Aged, BootstrapTypeOK
    <3> QED BY <1>1, <1>2, <3>1
  <2> QED BY <1>2, <1>4, <2>2, <2>3 DEF Aged
<1>8. AllRecent'
  <2> SUFFICES ASSUME NEW p \in Pods, NEW s \in DOMAIN cache'[p]
               PROVE  Recent(p, s)'
    BY DEF AllRecent
  <2>1. s \in DOMAIN cache[p] /\ cache'[p][s] = cache[p][s] /\ Recent(p, s)
    BY <1>1, <1>2 DEF AllRecent
  <2>2. cache[p][s].left \in 0..CacheTtl
    BY <1>1, <2>1, CacheTypes DEF BootstrapTypeOK, Entries
  <2> DEFINE k == CacheTtl - cache[p][s].left + 1
  <2>3. cache[p][s].left > 0 => k \in 0..CacheTtl /\ k # 0
    BY <2>2, Numbers
  <2>4. cache[p][s].left > 0 => past'[k] = past[k]
    BY <1>4, <2>3
  <2> QED BY <1>2, <2>1, <2>4 DEF Recent
<1>9. AllRendered'
  <2>1. \A q \in Visits : stage'[q] = stage[q] \/ stage'[q] = "applied"
    BY <1>1, <1>2 DEF BootstrapTypeOK, GoTo
  <2> QED BY <1>2, <1>3, <2>1, RenderedStays
<1>10. Bounded'
  BY <1>2, FewerBounded
<1> QED BY <1>6, <1>7, <1>8, <1>9, <1>10 DEF BootstrapInv

\* Sessions leave the cache of a pod.
LEMMA WithoutTypes ==
    ASSUME BootstrapTypeOK, NEW p \in Pods, NEW s \in Sids,
           cache' = [cache EXCEPT ![p] = Without(p, s)]
    PROVE  /\ cache' \in [Pods -> Caches] /\ s \notin DOMAIN cache'[p]
           /\ \A o \in Pods : /\ DOMAIN cache'[o] \subseteq DOMAIN cache[o]
                              /\ \A t \in DOMAIN cache'[o] : cache'[o][t] = cache[o][t]
<1> DEFINE S == DOMAIN cache[p] \ {s}
<1>1. cache[p] \in Caches /\ S \in SUBSET DOMAIN cache[p] /\ s \notin S
  BY DEF BootstrapTypeOK
<1>2. Without(p, s) = Restrict(cache[p], S)
  BY DEF Without
<1> HIDE DEF S
<1>3. /\ Without(p, s) \in Caches /\ DOMAIN Without(p, s) = S
      /\ \A t \in S : Without(p, s)[t] = cache[p][t]
  BY <1>1, <1>2, RestrictedTypes
<1> QED BY <1>1, <1>3 DEF BootstrapTypeOK

\* It is answered, and the pod forgets what it remembers of the session.
LEMMA AnsweredKeeps ==
    ASSUME BootstrapInv, NEW r \in Visits, PatchAnswered(r)
    PROVE  BootstrapInv'
<1> DEFINE p == pod[r]  s == sid[r]
<1>1. BootstrapTypeOK /\ Aged /\ AllRecent /\ version \in Versions /\ version \in Nat
  BY Numbers DEF BootstrapInv, BootstrapTypeOK
<1>2. p \in Pods /\ s \in Sids
  BY <1>1 DEF BootstrapTypeOK
<1>3. /\ cache' = [cache EXCEPT ![p] = Without(p, s)]
      /\ written' = [written EXCEPT ![p][s] = version] /\ GoTo(r, "patched")
      /\ UNCHANGED <<version, past, pod, sid, leader, value, floor, own>>
  BY DEF PatchAnswered, Invalidated
<1> HIDE DEF p, s
<1>4. /\ cache' \in [Pods -> Caches] /\ s \notin DOMAIN cache'[p]
      /\ \A o \in Pods : /\ DOMAIN cache'[o] \subseteq DOMAIN cache[o]
                         /\ \A t \in DOMAIN cache'[o] : cache'[o][t] = cache[o][t]
  BY <1>1, <1>2, <1>3, WithoutTypes
<1>5. /\ written' \in [Pods -> [Sids -> Versions]]
      /\ written'[p][s] = version
      /\ \A o \in Pods, t \in Sids :
             o # p \/ t # s => written'[o][t] = written[o][t]
  BY <1>1, <1>2, <1>3 DEF BootstrapTypeOK
<1>6. stage' \in [Visits -> {"idle", "identify", "read", "waiting",
                            "patching", "applied", "patched", "failed"}]
      /\ \A q \in Visits : stage'[q] = stage[q] \/ stage'[q] = "patched"
  BY <1>1, <1>3 DEF GoTo, BootstrapTypeOK
<1>7. BootstrapTypeOK'
  BY <1>1, <1>3, <1>4, <1>5, <1>6 DEF BootstrapTypeOK
<1>8. Aged'
  <2>1. \A o \in Pods, t \in Sids : written'[o][t] <= version
    BY <1>1, <1>5 DEF Aged
  <2> QED BY <1>1, <1>3, <2>1 DEF Aged
<1>9. AllRecent'
  <2> SUFFICES ASSUME NEW o \in Pods, NEW t \in DOMAIN cache'[o]
               PROVE  Recent(o, t)'
    BY DEF AllRecent
  <2>1. t \in DOMAIN cache[o] /\ cache'[o][t] = cache[o][t] /\ Recent(o, t)
    BY <1>1, <1>4 DEF AllRecent
  <2>2. t \in Sids /\ (o # p \/ t # s)
    BY <1>1, <1>4, <2>1, CacheTypes DEF BootstrapTypeOK
  <2>3. written'[o][t] = written[o][t]
    BY <1>5, <2>2
  <2> QED BY <1>3, <2>1, <2>3 DEF Recent
<1>10. AllRendered'
  <2>1. version' \in Versions /\ version <= version'
    BY <1>1, <1>3
  <2> QED BY <1>3, <1>6, <2>1, RenderedStays
<1>11. Bounded'
  BY <1>4, FewerBounded
<1> QED BY <1>7, <1>8, <1>9, <1>10, <1>11 DEF BootstrapInv

\* An update fails.
LEMMA FailsKeeps ==
    ASSUME BootstrapInv, NEW r \in Visits, PatchFails(r)
    PROVE  BootstrapInv'
<1>1. BootstrapTypeOK /\ version \in Versions /\ version \in Nat
  BY Numbers DEF BootstrapInv, BootstrapTypeOK
<1>2. /\ GoTo(r, "failed")
      /\ UNCHANGED <<settings, cache, pod, sid, leader, value, floor, own>>
  BY DEF PatchFails
<1>3. stage' \in [Visits -> {"idle", "identify", "read", "waiting",
                            "patching", "applied", "patched", "failed"}]
      /\ \A q \in Visits : stage'[q] = stage[q] \/ stage'[q] = "failed"
  BY <1>1, <1>2 DEF GoTo, BootstrapTypeOK
<1>4. BootstrapTypeOK'
  BY <1>1, <1>2, <1>3 DEF BootstrapTypeOK, settings
<1>5. Aged' /\ AllRecent' /\ Bounded'
  BY <1>2 DEF BootstrapInv, Aged, AllRecent, Recent, Bounded, settings
<1>6. version' \in Versions /\ version <= version'
  BY <1>1, <1>2 DEF settings
<1>7. AllRendered'
  BY <1>2, <1>3, <1>6, RenderedStays
<1> QED BY <1>4, <1>5, <1>7 DEF BootstrapInv

\* A session is destroyed on a pod.
LEMMA DestroyKeeps ==
    ASSUME BootstrapInv, NEW p \in Pods, NEW s \in Sids, Destroy(p, s)
    PROVE  BootstrapInv'
<1>1. BootstrapTypeOK
  BY DEF BootstrapInv
<1>2. /\ cache' = [cache EXCEPT ![p] = Without(p, s)]
      /\ UNCHANGED <<settings, stage, pod, sid, leader, value, floor, own>>
  BY DEF Destroy
<1>3. /\ cache' \in [Pods -> Caches]
      /\ \A o \in Pods : /\ DOMAIN cache'[o] \subseteq DOMAIN cache[o]
                         /\ \A t \in DOMAIN cache'[o] : cache'[o][t] = cache[o][t]
  BY <1>1, <1>2, WithoutTypes
<1>4. \A o \in Pods : \A t \in DOMAIN cache'[o] : Remembers(o, t)
  BY <1>3 DEF Remembers
<1>5. AllRecent'
  BY <1>2, <1>4, RecentStays
<1>6. Bounded'
  BY <1>3, FewerBounded
<1>7. Aged' /\ AllRendered'
  BY <1>2 DEF BootstrapInv, Aged, AllRendered, Rendered, settings
<1>8. BootstrapTypeOK'
  BY <1>1, <1>2, <1>3 DEF BootstrapTypeOK, settings
<1> QED BY <1>5, <1>6, <1>7, <1>8 DEF BootstrapInv

\* Time passes.
LEMMA TickKeeps ==
    ASSUME BootstrapInv, Tick
    PROVE  BootstrapInv'
<1>1. BootstrapTypeOK /\ Aged /\ AllRecent /\ version \in Versions /\ version \in Nat
  BY Numbers DEF BootstrapInv, BootstrapTypeOK
<1>2. /\ past' = [i \in 0..CacheTtl |-> IF i = 0 THEN version ELSE past[i - 1]]
      /\ UNCHANGED <<version, written, stage, pod, sid, leader, value, floor, own>>
  BY DEF Tick
<1>3. /\ past'[0] = version
      /\ \A i \in 0..CacheTtl : i # 0 => /\ i - 1 \in 0..CacheTtl
                                         /\ past'[i] = past[i - 1]
      /\ past' \in [0..CacheTtl -> Versions]
  BY <1>1, <1>2, Numbers DEF BootstrapTypeOK
<1>4. ASSUME NEW p \in Pods
      PROVE  /\ DOMAIN cache'[p] = DOMAIN cache[p]
             /\ \A s \in DOMAIN cache[p] :
                    /\ s \in Sids /\ cache[p][s] \in Entries
                    /\ cache'[p][s] \in Entries
                    /\ cache'[p][s].by = cache[p][s].by
                    /\ cache'[p][s].left = Left(cache[p][s])
  <2>1. cache'[p] = [s \in DOMAIN cache[p] |->
                        [cache[p][s] EXCEPT !.left = Left(cache[p][s])]]
    BY DEF Tick
  <2>2. ASSUME NEW s \in DOMAIN cache[p]
        PROVE  s \in Sids /\ cache[p][s] \in Entries
    BY <1>1, <2>2, CacheTypes DEF BootstrapTypeOK
  <2>3. ASSUME NEW e \in Entries PROVE Left(e) \in 0..CacheTtl
    BY <2>3, Numbers DEF Entries, Left
  <2>4. ASSUME NEW e \in Entries, NEW n \in 0..CacheTtl
        PROVE  /\ [e EXCEPT !.left = n] \in Entries
               /\ [e EXCEPT !.left = n].by = e.by /\ [e EXCEPT !.left = n].left = n
    BY <2>4 DEF Entries
  <2>5. ASSUME NEW s \in DOMAIN cache[p]
        PROVE  /\ cache'[p][s] \in Entries
               /\ cache'[p][s].by = cache[p][s].by
               /\ cache'[p][s].left = Left(cache[p][s])
    <3>1. cache'[p][s] = [cache[p][s] EXCEPT !.left = Left(cache[p][s])]
      BY <2>1, <2>5
    <3> QED BY <2>2, <2>3, <2>4, <2>5, <3>1
  <2> QED BY <2>1, <2>2, <2>5
<1>5. cache' \in [Pods -> Caches]
  <2>1. DOMAIN cache' = Pods /\ cache' = [p \in Pods |-> cache'[p]]
    BY DEF Tick
  <2>2. ASSUME NEW p \in Pods PROVE cache'[p] \in Caches
    <3>1. cache'[p] = [s \in DOMAIN cache'[p] |-> cache'[p][s]]
      BY DEF Tick
    <3>2. DOMAIN cache'[p] \in SUBSET Sids /\ cache'[p] \in [DOMAIN cache'[p] -> Entries]
      BY <1>4, <3>1
    <3> QED BY <3>2, CacheTypes
  <2> QED BY <2>1, <2>2
<1>6. BootstrapTypeOK'
  BY <1>1, <1>2, <1>3, <1>5 DEF BootstrapTypeOK
<1>7. Aged'
  <2>1. past[0] = version
    BY <1>1 DEF Aged
  <2>2. ASSUME NEW i \in 0..CacheTtl, NEW j \in 0..CacheTtl, i <= j
        PROVE  past'[j] <= past'[i]
    <3>1. CASE j = 0
      BY <1>1, <1>3, <2>2, <3>1
    <3>2. CASE j # 0 /\ i = 0
      <4>1. past[j - 1] <= past[0]
        BY <1>1, <1>3, <3>2, Numbers DEF Aged
      <4> QED BY <1>3, <2>1, <3>2, <4>1
    <3>3. CASE j # 0 /\ i # 0
      <4>1. i - 1 \in 0..CacheTtl /\ j - 1 \in 0..CacheTtl /\ i - 1 <= j - 1
        BY <1>3, <2>2, <3>3
      <4>2. past[j - 1] <= past[i - 1]
        BY <1>1, <4>1 DEF Aged
      <4> QED BY <1>3, <3>3, <4>2
    <3> QED BY <3>1, <3>2, <3>3
  <2> QED BY <1>1, <1>2, <1>3, <2>2 DEF Aged
<1>8. AllRecent'
  <2> SUFFICES ASSUME NEW p \in Pods, NEW s \in DOMAIN cache'[p]
               PROVE  Recent(p, s)'
    BY DEF AllRecent
  <2>1. /\ s \in DOMAIN cache[p] /\ cache'[p][s].by = cache[p][s].by
        /\ cache'[p][s].left = Left(cache[p][s]) /\ Recent(p, s)
        /\ cache[p][s].left \in 0..CacheTtl
    BY <1>1, <1>4 DEF AllRecent, Entries
  <2> DEFINE n == cache[p][s].left  m == cache'[p][s].left
             k == CacheTtl - n + 1  l == CacheTtl - m + 1
  <2>2. m > 0 => n > 0 /\ l \in 0..CacheTtl /\ l # 0 /\ l - 1 = k
    BY <2>1, Numbers DEF Left
  <2>3. m > 0 => past'[l] = past[k]
    BY <1>3, <2>2
  <2> QED BY <1>2, <2>1, <2>2, <2>3 DEF Recent
<1>9. AllRendered'
  BY <1>2 DEF BootstrapInv, AllRendered, Rendered
<1>10. Bounded'
  BY <1>4, FewerBounded
<1> QED BY <1>6, <1>7, <1>8, <1>9, <1>10 DEF BootstrapInv

\* Nothing is remembered at first.
LEMMA WellInitially ==
    ASSUME BootstrapInit
    PROVE  BootstrapInv
<1>1. PICK p \in Pods, s \in Sids :
        /\ version = 0
        /\ past = [i \in 0..CacheTtl |-> 0]
        /\ written = [q \in Pods |-> [t \in Sids |-> 0]]
        /\ cache = [q \in Pods |-> [t \in {} |-> 0]]
        /\ stage = [r \in Visits |-> "idle"]
        /\ pod = [r \in Visits |-> p]
        /\ sid = [r \in Visits |-> s]
        /\ leader = [r \in Visits |-> r]
        /\ value = [r \in Visits |-> Pending]
        /\ floor = [r \in Visits |-> 0]
        /\ own = [r \in Visits |-> 0]
  BY DEF BootstrapInit
<1> DEFINE none == [t \in {} |-> 0]
<1>2. none \in Caches /\ DOMAIN none = {}
  <2>1. DOMAIN none = {} /\ none \in [DOMAIN none -> Entries]
    OBVIOUS
  <2> QED BY <2>1, CacheTypes
<1>3. \A q \in Pods : cache[q] = none
  BY <1>1
<1>4. cache \in [Pods -> Caches]
  BY <1>1, <1>2
<1> HIDE DEF none
<1>5. BootstrapTypeOK
  BY <1>1, <1>4, Numbers DEF BootstrapTypeOK
<1>6. Aged
  BY <1>1, Numbers DEF Aged
<1>7. AllRecent
  BY <1>2, <1>3 DEF AllRecent
<1>8. AllRendered
  BY <1>1 DEF AllRendered, Rendered
<1>9. Bounded
  <2>1. IsFiniteSet({}) /\ Cardinality({}) = 0
    BY FS_EmptySet
  <2> QED BY <1>2, <1>3, <2>1, Numbers DEF Bounded
<1> QED BY <1>5, <1>6, <1>7, <1>8, <1>9 DEF BootstrapInv

\* Every step keeps the invariant.
LEMMA WellPreserved ==
    ASSUME BootstrapInv, [BootstrapNext]_bootstrapVars
    PROVE  BootstrapInv'
<1>1. CASE UNCHANGED bootstrapVars
  BY <1>1 DEF BootstrapInv, BootstrapTypeOK, Aged, AllRecent, Recent, AllRendered,
              Rendered, Bounded, bootstrapVars, settings
<1>2. ASSUME NEW r \in Visits, NEW p \in Pods, NEW s \in Sids,
             LoadCached(r, p, s) \/ LoadFresh(r, p, s) \/ Patch(r, p, s)
      PROVE  BootstrapInv'
  BY <1>2, CachedKeeps, FreshKeeps, PatchKeeps
<1>3. ASSUME NEW r \in Visits, Identify(r) \/ ReadSettings(r)
      PROVE  BootstrapInv'
  BY <1>3, LoadKeeps
<1>4. ASSUME NEW r \in Visits,
             PatchApplied(r) \/ PatchAnswered(r) \/ PatchFails(r)
      PROVE  BootstrapInv'
  BY <1>4, AppliedKeeps, AnsweredKeeps, FailsKeeps
<1>5. ASSUME NEW p \in Pods, NEW s \in Sids, Destroy(p, s)
      PROVE  BootstrapInv'
  BY <1>5, DestroyKeeps
<1>6. CASE Tick
  BY <1>6, TickKeeps
<1> QED BY <1>1, <1>2, <1>3, <1>4, <1>5, <1>6 DEF BootstrapNext

\* The cache of bootstrap data keeps the invariant in every reachable state.
THEOREM BootstrapWell == BootstrapSpec => []BootstrapInv
<1> QED BY WellInitially, WellPreserved, PTL DEF BootstrapSpec

\* Every variable keeps its type.
THEOREM BootstrapTypes == BootstrapSpec => []BootstrapTypeOK
<1>1. BootstrapInv => BootstrapTypeOK
  BY DEF BootstrapInv
<1> QED BY <1>1, BootstrapWell, PTL

\* A page is never rendered with settings that were out of date for the whole
\* life of a cache entry when it was requested, however many pods, sessions
\* and requests there are.
THEOREM NeverStaleBeyondTtl == BootstrapSpec => []StaleNoLongerThanTtl
<1>1. ASSUME BootstrapInv PROVE StaleNoLongerThanTtl
  <2> SUFFICES ASSUME NEW r \in Visits, Served(r) \in Versions
               PROVE  Served(r) >= floor[r]
    BY DEF StaleNoLongerThanTtl
  <2>1. stage[r] = "waiting" /\ Served(r) = value[leader[r]]
    BY Numbers DEF Served
  <2>2. floor[r] <= value[leader[r]] /\ floor[r] \in Nat /\ value[leader[r]] \in Nat
    BY <1>1, <2>1, Numbers DEF BootstrapInv, AllRendered, Rendered, BootstrapTypeOK
  <2> QED BY <2>1, <2>2
<1> QED BY <1>1, BootstrapWell, PTL

\* A page requested after its pod answered an update of the same session shows
\* that update, also when it joins a load that was begun before.
THEOREM OwnUpdatesShown == BootstrapSpec => []OwnUpdateServed
<1>1. ASSUME BootstrapInv PROVE OwnUpdateServed
  <2> SUFFICES ASSUME NEW r \in Visits, Served(r) \in Versions
               PROVE  Served(r) >= own[r]
    BY DEF OwnUpdateServed
  <2>1. stage[r] = "waiting" /\ Served(r) = value[leader[r]]
    BY Numbers DEF Served
  <2>2. own[r] <= value[leader[r]] /\ own[r] \in Nat /\ value[leader[r]] \in Nat
    BY <1>1, <2>1, Numbers DEF BootstrapInv, AllRendered, Rendered, BootstrapTypeOK
  <2> QED BY <2>1, <2>2
<1> QED BY <1>1, BootstrapWell, PTL

\* The cache of a pod never outgrows its limit, at any limit.
THEOREM CacheStaysBounded == BootstrapSpec => []CacheBounded
<1>1. BootstrapInv => CacheBounded
  BY DEF BootstrapInv, Bounded, CacheBounded
<1> QED BY <1>1, BootstrapWell, PTL
=============================================================================
