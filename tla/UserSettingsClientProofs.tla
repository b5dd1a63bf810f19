---------------------- MODULE UserSettingsClientProofs ----------------------
(***************************************************************************)
(* Proofs about UserSettingsClient, by four invariants:                    *)
(*   Types      TypeOK in parts, and what is known of the page to come;    *)
(*   Edits      EditsSurvive and EditsShown: each needs the other, since   *)
(*              what is persisted is what the page shows, and the page     *)
(*              shows what was persisted before it;                        *)
(*   Triggers   PendingHasTrigger, and that a request in flight that has   *)
(*              to be followed by another one will be;                     *)
(*   Own        where a principal's values may be: the documents, the      *)
(*              storage, the page to come and every request, also those    *)
(*              that outlive their page.                                   *)
(* Each operation has a lemma; the step theorem splits Next into them.     *)
(***************************************************************************)
EXTENDS UserSettingsClient, FiniteSetTheorems, TLAPS

(* TypeOK, variables that change together in a part each. *)
ServerType ==
  /\ doc \in [Principals -> Settings]
  /\ session \in Principals \cup {None}

PageType ==
  /\ page \in {"console", "leaving", "login", "none"}
  /\ arriving \in Page \cup {NoPage}
  /\ arriving # NoPage =>
       /\ arriving.settings # NoPage => arriving.principal # None
       /\ page # "none" => arriving.settings # NoPage
  /\ shown \in Principals \cup {None}
  /\ query \in {"done", "loading", "error"}

StorageType ==
  /\ cache \in Settings
  /\ owner \in Principals \cup {None}
  /\ persisted \in [Principals -> Updates]

ModuleType ==
  /\ active \in Principals \cup {None}
  /\ enabled \in BOOLEAN
  /\ enabled => active # None
  /\ pending \in Updates
  /\ unconfirmed \in Updates
  /\ unconfirmed = IF active = None THEN NoUpdates ELSE persisted[active]
  /\ timer \in BOOLEAN
  /\ flight \in Flight \cup {NoRequest}
  /\ chained \in BOOLEAN
  /\ degraded \in BOOLEAN
  /\ forbidden \in BOOLEAN

OrphansType ==
  /\ orphans \subseteq Orphan
  /\ IsFiniteSet(orphans)
  /\ Cardinality(orphans) <= MaxOrphans

OwedType == owed \in [Principals -> Updates]

Types == ServerType /\ PageType /\ StorageType /\ ModuleType /\ OrphansType /\ OwedType

-----------------------------------------------------------------------------
(* The data. *)

(* The constant documents and updates have their types. *)
LEMMA ConstantTypes ==
  /\ NoSettings \in Settings /\ NoUpdates \in Updates
  /\ \A k \in Keys : NoSettings[k] = None /\ NoUpdates[k] = Same
BY DEF NoSettings, NoUpdates, Settings, Updates

(* Merging updates into settings gives settings. *)
LEMMA MergeType ==
  ASSUME NEW s \in Settings, NEW u \in Updates
  PROVE  /\ Merge(s, u) \in Settings
         /\ \A k \in Keys : Merge(s, u)[k] = IF u[k] = Same THEN s[k] ELSE u[k]
BY SentinelsAreNoValues DEF Merge, Settings, Updates

(* What the module does to updates gives updates. *)
LEMMA FillType ==
  ASSUME NEW u \in Updates, NEW v \in Updates
  PROVE  /\ Fill(u, v) \in Updates
         /\ \A k \in Keys : Fill(u, v)[k] = IF u[k] = Same THEN v[k] ELSE u[k]
BY DEF Fill, Updates

(* Dropping updates gives updates. *)
LEMMA DropType ==
  ASSUME NEW u \in Updates, NEW v \in Updates
  PROVE  /\ Drop(u, v) \in Updates
         /\ \A k \in Keys : Drop(u, v)[k] = IF u[k] = v[k] THEN Same ELSE u[k]
BY DEF Drop, Updates

(* What settings confirm is dropped from updates. *)
LEMMA UnresolvedType ==
  ASSUME NEW u \in Updates, NEW s \in Settings
  PROVE  /\ Unresolved(u, s) \in Updates
         /\ \A k \in Keys : Unresolved(u, s)[k] = IF u[k] = s[k] THEN Same ELSE u[k]
BY DEF Unresolved, Updates

(* A migration is made of updates. *)
LEMMA MigrationType ==
  ASSUME NEW s \in Settings, cache \in Settings
  PROVE  /\ Migration(s) \in Updates
         /\ \A k \in Keys : Migration(s)[k] =
              IF owner = None /\ s[k] = None /\ cache[k] # None THEN cache[k] ELSE Same
BY DEF Migration, Updates, Settings

(* What is left of the persisted updates and the migration, and what the   *)
(* page then shows.                                                        *)
LEMMA LeftType ==
  ASSUME StorageType, NEW p \in Principals, NEW s \in Settings
  PROVE  LET left == Unresolved(Fill(persisted[p], Migration(s)), s) IN
         /\ left \in Updates
         /\ Merge(s, left) \in Settings
         /\ \A k \in Keys :
              /\ persisted[p][k] \notin {Same, s[k]} => left[k] = persisted[p][k]
              /\ left[k] \in {Same, persisted[p][k], Migration(s)[k]}
              /\ Merge(s, left)[k] = IF left[k] = Same THEN s[k] ELSE left[k]
<1> DEFINE filled == Fill(persisted[p], Migration(s))
           left == Unresolved(filled, s)
<1>1. persisted[p] \in Updates /\ Migration(s) \in Updates
  BY MigrationType DEF StorageType
<1>2. /\ filled \in Updates
      /\ \A k \in Keys : filled[k] = IF persisted[p][k] = Same THEN Migration(s)[k]
                                     ELSE persisted[p][k]
  BY <1>1, FillType
<1> HIDE DEF filled
<1>3. /\ left \in Updates
      /\ \A k \in Keys : left[k] = IF filled[k] = s[k] THEN Same ELSE filled[k]
  BY <1>2, UnresolvedType
<1> HIDE DEF left
<1>4. /\ Merge(s, left) \in Settings
      /\ \A k \in Keys : Merge(s, left)[k] = IF left[k] = Same THEN s[k] ELSE left[k]
  BY <1>3, MergeType
<1>5. \A k \in Keys :
        /\ persisted[p][k] \notin {Same, s[k]} => left[k] = persisted[p][k]
        /\ left[k] \in {Same, persisted[p][k], Migration(s)[k]}
  BY <1>2, <1>3
<1> QED BY <1>3, <1>4, <1>5 DEF left, filled

(* A request that the module makes while it works has its type. *)
LEMMA RequestType ==
  ASSUME ServerType, active \in Principals, NEW u \in Updates
  PROVE  Request(u) \in Flight /\ Request(u) # NoRequest
BY NothingIsNoRequest DEF Request, Flight, Answers, ServerType
-----------------------------------------------------------------------------
(* Types: what the module's functions do. *)

(* initializeUserSettings keeps the types. *)
LEMMA InitializeTypes ==
  ASSUME Types, NEW p \in Principals, NEW s \in Settings, Initialize(p, s)
  PROVE  StorageType' /\ ModuleType' /\ OwedType'
<1> DEFINE left == Unresolved(Fill(persisted[p], Migration(s)), s)
<1>1. CASE enabled /\ active = p
  <2>1. UNCHANGED <<storageState, moduleState, owed>>
    BY <1>1 DEF Initialize
  <2> QED BY <2>1 DEF Types, StorageType, ModuleType, OwedType, storageState, moduleState
<1>2. CASE ~(enabled /\ active = p)
  <2>1. left \in Updates /\ Merge(s, left) \in Settings
    BY LeftType DEF Types
  <2>2. /\ cache' = Merge(s, left) /\ owner' = p
        /\ persisted' = [persisted EXCEPT ![p] = left]
        /\ active' = p /\ enabled' = TRUE /\ pending' = left /\ unconfirmed' = left
        /\ timer' = (timer \/ left # NoUpdates) /\ degraded' = FALSE
        /\ owed' = [owed EXCEPT ![p] = Unresolved(@, s)]
        /\ UNCHANGED <<flight, chained, forbidden>>
    BY <1>2 DEF Initialize
  <2> HIDE DEF left
  <2>3. StorageType'
    BY <2>1, <2>2 DEF Types, StorageType
  <2>4. persisted'[p] = left
    BY <2>2 DEF Types, StorageType
  <2>5. timer' \in BOOLEAN
    BY <2>2
  <2>6. ModuleType'
    BY <2>1, <2>2, <2>4, <2>5, PrincipalsAreKnown DEF Types, ModuleType
  <2>7. owed[p] \in Updates
    BY DEF Types, OwedType
  <2>8. OwedType'
    BY <2>2, <2>7, UnresolvedType DEF Types, OwedType
  <2> QED BY <2>3, <2>6, <2>8
<1> QED BY <1>1, <1>2

(* prepareUserSettingsCache keeps the types. *)
LEMMA PrepareTypes ==
  ASSUME Types, NEW p \in Principals \cup {None}, Prepare(p), degraded' \in BOOLEAN
  PROVE  StorageType' /\ ModuleType' /\ OwedType'
<1> DEFINE kept == IF p = None \/ owner # p THEN NoSettings ELSE cache
           old == IF p = None THEN NoUpdates ELSE persisted[p]
<1>1. kept \in Settings /\ old \in Updates
  BY ConstantTypes DEF Types, StorageType
<1>2. /\ cache' = Merge(kept, old) /\ owner' = p /\ active' = p /\ enabled' = FALSE
      /\ pending' = old /\ unconfirmed' = old
      /\ UNCHANGED <<persisted, timer, flight, chained, forbidden, owed>>
  BY DEF Prepare
<1>3. unconfirmed' = IF active' = None THEN NoUpdates ELSE persisted'[active']
  BY <1>2
<1> HIDE DEF kept, old
<1>4. Merge(kept, old) \in Settings
  BY <1>1, MergeType
<1> QED BY <1>1, <1>2, <1>3, <1>4 DEF Types, StorageType, ModuleType, OwedType

(* A flush keeps the types. *)
LEMMA FlushTypes ==
  ASSUME Types, NEW t \in BOOLEAN, Flush(t),
         UNCHANGED <<storageState, active, enabled, unconfirmed>>
  PROVE  StorageType' /\ ModuleType'
<1>1. /\ pending' \in Updates /\ timer' \in BOOLEAN /\ chained' \in BOOLEAN
      /\ flight' \in Flight \cup {NoRequest}
      /\ degraded' \in BOOLEAN /\ forbidden' \in BOOLEAN
  <2>1. CASE flight # NoRequest
    BY <2>1 DEF Flush, Types, ModuleType
  <2>2. CASE flight = NoRequest /\ enabled /\ pending # NoUpdates
    <3>1. active \in Principals /\ pending \in Updates
      BY <2>2 DEF Types, ModuleType
    <3>2. Request(pending) \in Flight
      BY <3>1, RequestType DEF Types
    <3> QED BY <2>2, <3>2, ConstantTypes DEF Flush, Types, ModuleType
  <2>3. CASE flight = NoRequest /\ ~(enabled /\ pending # NoUpdates)
    BY <2>3 DEF Flush, Types, ModuleType
  <2> QED BY <2>1, <2>2, <2>3
<1> QED BY <1>1 DEF Types, StorageType, ModuleType, storageState

(* The scripts of a page are gone. *)
LEMMA UnloadTypes ==
  ASSUME Types, Unload
  PROVE  ModuleType' /\ PageType'
BY ConstantTypes DEF Unload, ModuleType, PageType

(* What a page leaves behind is a request of the right type. *)
LEMMA OrphanedTypes ==
  ASSUME OrphansType, NEW q \in Flight \cup {NoRequest}, Orphaned(q)
  PROVE  OrphansType'
<1>1. CASE UNCHANGED orphans
  BY <1>1 DEF OrphansType
<1>2. CASE ~UNCHANGED orphans
  <2> DEFINE o == [by |-> q.by, updates |-> q.updates]
  <2>1. /\ q # NoRequest /\ q.by # None /\ Cardinality(orphans) < MaxOrphans
        /\ orphans' = orphans \cup {o}
    BY <1>2 DEF Orphaned
  <2>2. o \in Orphan
    BY <2>1 DEF Orphan, Flight
  <2>3. /\ IsFiniteSet(orphans \cup {o})
        /\ Cardinality(orphans \cup {o}) \in {Cardinality(orphans), Cardinality(orphans) + 1}
    BY FS_AddElement DEF OrphansType
  <2>4. Cardinality(orphans) \in Nat
    BY FS_CardinalityType DEF OrphansType
  <2> QED BY <2>1, <2>2, <2>3, <2>4, MaxOrphansIsANumber DEF OrphansType
<1> QED BY <1>1, <1>2
-----------------------------------------------------------------------------
(* Types: the actions. *)

(* What a page does that shows the settings. *)
LEMMA PageTypes ==
  ASSUME Types,
         \/ \E p \in Principals : SignIn(p)
         \/ Render \/ Mount \/ QueryRead \/ QueryArrives \/ QueryFails
         \/ Leave \/ SignOut \/ SignedOut \/ SignOutFails \/ NoticeExpiry \/ SoftRedirect
  PROVE  Types'
<1> USE DEF serverState, pageState, storageState, moduleState
<1>0. ServerType /\ PageType /\ StorageType /\ ModuleType /\ OrphansType /\ OwedType
  BY DEF Types
<1>p. \A q \in Page : q.principal \in Principals \cup {None}
                      /\ q.settings \in Settings \cup {NoPage}
  BY DEF Page
<1>1. ASSUME NEW p \in Principals, SignIn(p) PROVE Types'
  <2>1. ModuleType' /\ PageType' BY <1>1, UnloadTypes DEF SignIn
  <2>2. OrphansType' BY <1>0, <1>1, OrphanedTypes DEF SignIn, ModuleType
  <2>3. ServerType' /\ StorageType' /\ OwedType'
    BY <1>0, <1>1 DEF SignIn, ServerType, StorageType, OwedType
  <2> QED BY <2>1, <2>2, <2>3 DEF Types
<1>2. CASE Render
  <2>1. PICK known \in {session, None} :
          \E settings \in {NoPage} \cup (IF known = None THEN {} ELSE {doc[known]}) :
            arriving' = [principal |-> known, settings |-> settings]
    BY <1>2 DEF Render
  <2>2. PICK settings \in {NoPage} \cup (IF known = None THEN {} ELSE {doc[known]}) :
          arriving' = [principal |-> known, settings |-> settings]
    BY <2>1
  <2>3. known \in Principals \cup {None} BY <1>0 DEF ServerType
  <2>4. settings \in Settings \cup {NoPage} BY <1>0, <2>3 DEF ServerType
  <2>5. arriving' \in Page BY <2>2, <2>3, <2>4 DEF Page
  <2>6. UNCHANGED <<serverState, page, shown, query, storageState, moduleState, orphans, owed>>
    BY <1>2 DEF Render
  <2>7. page' = "none" /\ (arriving'.settings # NoPage => arriving'.principal # None)
    BY <1>2, <2>2, <2>3, <2>4, NothingIsNoPage, PrincipalsAreKnown, <1>0 DEF Render, ServerType
  <2> QED BY <1>0, <2>5, <2>6, <2>7
        DEF Types, ServerType, PageType, StorageType, ModuleType, OrphansType, OwedType
<1>3. CASE Mount
  <2>1. arriving \in Page BY <1>0, <1>3 DEF Mount, PageType
  <2>2. UNCHANGED <<serverState, orphans>> BY <1>3 DEF Mount
  <2>3. PageType' BY <1>3, <2>1, <1>p DEF Mount, PageType
  <2>4. ServerType' /\ OrphansType' BY <1>0, <2>2 DEF ServerType, OrphansType
  <2>5. CASE arriving.settings # NoPage
    <3>1. Initialize(arriving.principal, arriving.settings) /\ arriving.settings \in Settings
      BY <1>3, <2>1, <2>5, <1>p DEF Mount
    <3>2. arriving.principal \in Principals
      BY <2>1, <2>5, <1>0, <1>p, NothingIsNoPage DEF PageType
    <3> QED BY <3>1, <3>2, InitializeTypes, <2>3, <2>4 DEF Types
  <2>6. CASE arriving.settings = NoPage
    <3>1. Prepare(arriving.principal) /\ degraded' \in BOOLEAN
      BY <1>3, <2>6 DEF Mount
    <3> QED BY <3>1, <2>1, <1>p, PrepareTypes, <2>3, <2>4 DEF Types
  <2> QED BY <2>5, <2>6
<1>4. CASE QueryRead
  <2>1. /\ arriving' = [principal |-> session, settings |-> doc[session]]
        /\ session \in Principals /\ doc[session] \in Settings
        /\ UNCHANGED <<serverState, page, shown, query, storageState, moduleState, orphans, owed>>
    BY <1>0, <1>4 DEF QueryRead, ServerType
  <2>2. arriving' \in Page /\ arriving'.settings # NoPage /\ arriving'.principal # None
    BY <2>1, NothingIsNoPage, PrincipalsAreKnown DEF Page
  <2> QED BY <1>0, <2>1, <2>2
        DEF Types, ServerType, PageType, StorageType, ModuleType, OrphansType, OwedType
<1>5. CASE QueryArrives
  <2>1. /\ arriving \in Page /\ arriving.settings \in Settings
        /\ arriving.principal \in Principals
    BY <1>0, <1>5, <1>p DEF QueryArrives, PageType, Mounted
  <2>2. Initialize(arriving.principal, arriving.settings)
        /\ UNCHANGED <<serverState, page, shown, orphans>>
        /\ arriving' = NoPage /\ query' = "done"
    BY <1>5 DEF QueryArrives
  <2>3. StorageType' /\ ModuleType' /\ OwedType'
    BY <2>1, <2>2, InitializeTypes
  <2>4. ServerType' /\ PageType' /\ OrphansType'
    BY <1>0, <2>2 DEF ServerType, PageType, OrphansType
  <2> QED BY <2>3, <2>4 DEF Types
<1>6. CASE QueryFails
  <2>1. /\ Prepare(shown) /\ degraded' \in BOOLEAN /\ arriving' = NoPage /\ query' = "error"
        /\ UNCHANGED <<serverState, page, shown, orphans>>
    BY <1>6 DEF QueryFails
  <2>2. StorageType' /\ ModuleType' /\ OwedType'
    BY <1>0, <2>1, PrepareTypes DEF PageType
  <2>3. ServerType' /\ PageType' /\ OrphansType'
    BY <1>0, <2>1 DEF ServerType, PageType, OrphansType
  <2> QED BY <2>2, <2>3 DEF Types
<1>7. CASE Leave
  <2> DEFINE q == IF flight = NoRequest /\ enabled /\ pending # NoUpdates
                    THEN Request(pending) ELSE flight
  <2>1. q \in Flight \cup {NoRequest}
    BY <1>0, RequestType DEF ModuleType
  <2>2. OrphansType' BY <1>0, <1>7, <2>1, OrphanedTypes DEF Leave
  <2>3. ModuleType' /\ PageType' BY <1>7, UnloadTypes DEF Leave
  <2>4. ServerType' /\ StorageType' /\ OwedType'
    BY <1>0, <1>7 DEF Leave, ServerType, StorageType, OwedType
  <2> QED BY <2>2, <2>3, <2>4 DEF Types
<1>8. CASE SignOut
  <2>1. StorageType' /\ ModuleType'
    BY <1>0, <1>8, FlushTypes DEF SignOut, ModuleType
  <2>2. ServerType' /\ PageType' /\ OrphansType' /\ OwedType'
    BY <1>0, <1>8 DEF SignOut, ServerType, PageType, OrphansType, OwedType
  <2> QED BY <2>1, <2>2 DEF Types
<1>9. CASE SignedOut \/ SignOutFails
  <2>1. ModuleType' /\ StorageType'
    BY <1>0, <1>9, ConstantTypes
       DEF SignedOut, SignOutFails, Disable, ClearStorage, ModuleType, StorageType
  <2>2. ServerType' /\ PageType' /\ OrphansType' /\ OwedType'
    BY <1>0, <1>9
       DEF SignedOut, SignOutFails, ServerType, PageType, OrphansType, OwedType
  <2> QED BY <2>1, <2>2 DEF Types
<1>10. CASE NoticeExpiry
  <2>1. ModuleType' /\ PageType' BY <1>10, UnloadTypes DEF NoticeExpiry
  <2>2. OrphansType' BY <1>0, <1>10, OrphanedTypes DEF NoticeExpiry, ModuleType
  <2>3. ServerType' /\ StorageType' /\ OwedType'
    BY <1>0, <1>10, ConstantTypes DEF NoticeExpiry, ClearStorage, ServerType, StorageType, OwedType
  <2> QED BY <2>1, <2>2, <2>3 DEF Types
<1>11. CASE SoftRedirect
  <2>1. StorageType' /\ ModuleType'
    BY <1>0, <1>11, FlushTypes DEF SoftRedirect, ModuleType
  <2>2. ServerType' /\ PageType' /\ OrphansType' /\ OwedType'
    BY <1>0, <1>11 DEF SoftRedirect, ServerType, PageType, OrphansType, OwedType
  <2> QED BY <2>1, <2>2 DEF Types
<1> QED BY <1>1, <1>2, <1>3, <1>4, <1>5, <1>6, <1>7, <1>8, <1>9, <1>10, <1>11

(* A choice is a setting or the removal of one. *)
LEMMA ChoiceTypes ==
  /\ \A p \in Principals \cup {None} : Choosable[p] \subseteq Values \cup {None}
  /\ \A p \in Principals : Elsewhere[p] \subseteq Values \cup {None}
BY ChoicesAreSettings

(* writeUserSetting and removeUserSetting keep the types. *)
LEMMA WriteTypes ==
  ASSUME Types, NEW k \in Keys, NEW v \in Values \cup {None}, Write(k, v)
  PROVE  Types'
<1> USE DEF serverState, pageState
<1>0. ServerType /\ PageType /\ StorageType /\ ModuleType /\ OrphansType /\ OwedType
  BY DEF Types
<1>1. cache' = [cache EXCEPT ![k] = v] /\ cache' \in Settings
  BY <1>0 DEF Write, StorageType, Settings
<1>2. UNCHANGED <<serverState, pageState, owner, active, enabled, flight, chained,
                  forbidden, orphans>>
  BY DEF Write
<1>3. CASE active = None
  BY <1>0, <1>1, <1>2, <1>3
     DEF Write, Types, ServerType, PageType, StorageType, ModuleType, OrphansType, OwedType
<1>4. CASE active # None
  <2>1. /\ pending' = [pending EXCEPT ![k] = v]
        /\ unconfirmed' = [unconfirmed EXCEPT ![k] = v]
        /\ persisted' = [persisted EXCEPT ![active] = unconfirmed']
        /\ timer' = (timer \/ enabled) /\ degraded' = (degraded /\ ~enabled)
        /\ owed' = [owed EXCEPT ![active][k] = v]
    BY <1>4 DEF Write
  <2>2. active \in Principals BY <1>0, <1>4 DEF ModuleType
  <2>3. pending' \in Updates /\ unconfirmed' \in Updates
    BY <1>0, <2>1 DEF ModuleType, Updates
  <2>4. persisted' \in [Principals -> Updates] /\ persisted'[active] = unconfirmed'
    BY <1>0, <2>1, <2>2, <2>3 DEF StorageType
  <2>5. owed' \in [Principals -> Updates]
    BY <1>0, <2>1, <2>2 DEF OwedType, Updates
  <2>6. timer' \in BOOLEAN /\ degraded' \in BOOLEAN
    BY <2>1
  <2>7. StorageType' /\ OwedType'
    BY <1>0, <1>1, <1>2, <2>4, <2>5 DEF StorageType, OwedType
  <2>8. ModuleType'
    BY <1>0, <1>2, <1>4, <2>3, <2>4, <2>6 DEF ModuleType
  <2>9. ServerType' /\ PageType' /\ OrphansType'
    BY <1>0, <1>2 DEF ServerType, PageType, OrphansType
  <2> QED BY <2>7, <2>8, <2>9 DEF Types
<1> QED BY <1>3, <1>4

(* The answer of a flush keeps the types. *)
LEMMA PatchAnsweredTypes ==
  ASSUME Types, PatchAnswered
  PROVE  Types'
<1> USE DEF serverState, pageState
<1>0. ServerType /\ PageType /\ StorageType /\ ModuleType /\ OrphansType /\ OwedType
  BY DEF Types
<1> DEFINE u == flight.updates
           a == flight.answer
           live == enabled /\ active = flight.of
           left == IF live /\ PendingAgain(a) THEN Fill(pending, u) ELSE pending
           again == live /\ left # NoUpdates /\ Rescheduled(a)
           next == chained /\ enabled /\ left # NoUpdates
<1>1. /\ unconfirmed' = IF live /\ GivenUp(a) THEN Drop(unconfirmed, u) ELSE unconfirmed
      /\ persisted' = IF live THEN [persisted EXCEPT ![active] = unconfirmed'] ELSE persisted
      /\ owed' = IF live /\ a = "refused"
                   THEN [owed EXCEPT ![active] = Drop(@, u)] ELSE owed
      /\ chained' = FALSE
      /\ flight' = IF next THEN Request(left) ELSE NoRequest
      /\ pending' = IF next THEN NoUpdates ELSE left
      /\ timer' = (~next /\ (timer \/ again))
      /\ degraded' = (~next /\ IF live THEN a # "stored" ELSE degraded)
      /\ forbidden' = (~next /\ IF live THEN a = "forbidden" ELSE forbidden)
      /\ UNCHANGED <<serverState, pageState, cache, owner, active, enabled, orphans>>
  BY DEF PatchAnswered
<1>2. u \in Updates /\ a \in Answers
  BY <1>0 DEF PatchAnswered, ModuleType, Flight
<1>3. Fill(pending, u) \in Updates /\ Drop(unconfirmed, u) \in Updates
  BY <1>0, <1>2, FillType, DropType DEF ModuleType
<1>4. left \in Updates /\ unconfirmed' \in Updates
  BY <1>0, <1>1, <1>3 DEF ModuleType
<1>5. live => active \in Principals
  BY <1>0 DEF ModuleType
<1>6. StorageType' /\ unconfirmed' = IF active' = None THEN NoUpdates ELSE persisted'[active']
  <2>1. CASE live
    <3>1. persisted' = [persisted EXCEPT ![active] = unconfirmed'] /\ active' = active
      BY <1>1, <2>1
    <3>2. persisted' \in [Principals -> Updates] /\ persisted'[active] = unconfirmed'
      BY <1>0, <1>4, <1>5, <2>1, <3>1 DEF StorageType
    <3> QED BY <1>0, <1>1, <1>5, <2>1, <3>1, <3>2, PrincipalsAreKnown DEF StorageType
  <2>2. CASE ~live
    BY <1>0, <1>1, <2>2 DEF StorageType, ModuleType
  <2> QED BY <2>1, <2>2
<1>7. OwedType'
  <2>1. CASE live /\ a = "refused"
    <3>1. owed[active] \in Updates BY <1>0, <1>5, <2>1 DEF OwedType
    <3>2. Drop(owed[active], u) \in Updates BY <3>1, <1>2, DropType
    <3>3. owed' = [owed EXCEPT ![active] = Drop(owed[active], u)] BY <1>1, <2>1
    <3> QED BY <1>0, <3>2, <3>3 DEF OwedType
  <2>2. CASE ~(live /\ a = "refused")
    BY <1>0, <1>1, <2>2 DEF OwedType
  <2> QED BY <2>1, <2>2
<1>8. flight' \in Flight \cup {NoRequest} /\ pending' \in Updates
  <2>1. next => Request(left) \in Flight
    BY <1>0, <1>4, RequestType DEF ModuleType
  <2> HIDE DEF left, next
  <2> QED BY <1>1, <1>4, <2>1, ConstantTypes
<1>9. timer' \in BOOLEAN /\ degraded' \in BOOLEAN /\ forbidden' \in BOOLEAN /\ chained' \in BOOLEAN
  <2> HIDE DEF next, again, live
  <2> QED BY <1>1
<1>10. ModuleType'
  BY <1>0, <1>1, <1>4, <1>6, <1>8, <1>9 DEF ModuleType
<1>11. ServerType' /\ PageType' /\ OrphansType'
  BY <1>0, <1>1 DEF ServerType, PageType, OrphansType
<1> QED BY <1>6, <1>7, <1>10, <1>11 DEF Types

(* The server stores updates that have their type. *)
LEMMA StoredTypes ==
  ASSUME ServerType, OwedType, NEW p \in Principals, NEW u \in Updates, Stored(p, u)
  PROVE  doc' \in [Principals -> Settings] /\ OwedType'
<1>1. doc[p] \in Settings /\ owed[p] \in Updates
  BY DEF ServerType, OwedType
<1>2. Merge(doc[p], u) \in Settings /\ Drop(owed[p], u) \in Updates
  BY <1>1, MergeType, DropType
<1>3. doc' = [doc EXCEPT ![p] = Merge(doc[p], u)] /\ owed' = [owed EXCEPT ![p] = Drop(owed[p], u)]
  BY DEF Stored
<1> QED BY <1>2, <1>3 DEF ServerType, OwedType

(* What the server, the network and other devices do keeps the types. *)
LEMMA ServerTypes ==
  ASSUME Types,
         \/ PatchStored \/ PatchFails \/ PatchUnauthorized \/ Expire
         \/ \E q \in orphans : OrphanStored(q) \/ OrphanFails(q)
         \/ \E p \in Principals, k \in Keys : \E v \in Elsewhere[p] : OtherDevice(p, k, v)
  PROVE  Types'
<1> USE DEF serverState, pageState, storageState, AwayFromServer
<1>0. ServerType /\ PageType /\ StorageType /\ ModuleType /\ OrphansType /\ OwedType
  BY DEF Types
<1>1. PageType' /\ StorageType'
  BY <1>0 DEF PatchStored, PatchFails, PatchUnauthorized, Expire, OrphanStored, OrphanFails,
              OtherDevice, PageType, StorageType
<1>2. ASSUME flight' \in Flight \cup {NoRequest}
      PROVE  ModuleType'
  BY <1>0, <1>2 DEF PatchStored, PatchFails, PatchUnauthorized, Expire, OrphanStored,
                    OrphanFails, OtherDevice, ModuleType
<1>3. ASSUME NEW x \in Answers, Answer(x), flight \in Flight
      PROVE  flight' \in Flight
  BY <1>3 DEF Answer, Flight
<1>4. ASSUME NEW q \in orphans, orphans' = orphans \ {q} PROVE OrphansType'
  <2>1. IsFiniteSet(orphans \ {q}) /\ Cardinality(orphans \ {q}) = Cardinality(orphans) - 1
    BY <1>0, FS_RemoveElement DEF OrphansType
  <2>2. Cardinality(orphans) \in Nat BY <1>0, FS_CardinalityType DEF OrphansType
  <2> QED BY <1>0, <1>4, <2>1, <2>2, MaxOrphansIsANumber DEF OrphansType
<1>5. CASE PatchStored
  <2>1. flight \in Flight /\ flight.by \in Principals /\ flight.updates \in Updates
    BY <1>0, <1>5 DEF PatchStored, Waiting, ModuleType, Flight
  <2>2. Stored(flight.by, flight.updates) /\ UNCHANGED <<session, orphans>>
    BY <1>5 DEF PatchStored
  <2>3. PICK x \in {"stored", "retry"} : Answer(x) BY <1>5 DEF PatchStored
  <2>4. ModuleType' BY <1>2, <1>3, <2>1, <2>3 DEF Answers
  <2>5. doc' \in [Principals -> Settings] /\ OwedType' BY <1>0, <2>1, <2>2, StoredTypes
  <2> QED BY <1>0, <1>1, <2>2, <2>4, <2>5 DEF Types, ServerType, OrphansType
<1>6. CASE PatchFails \/ PatchUnauthorized
  <2>1. PICK x \in Answers : Answer(x)
    BY <1>6 DEF PatchFails, PatchUnauthorized, Answers
  <2>2. flight \in Flight
    BY <1>0, <1>6 DEF PatchFails, PatchUnauthorized, Waiting, ModuleType
  <2>3. ModuleType' BY <1>2, <1>3, <2>1, <2>2
  <2> QED BY <1>0, <1>1, <1>6, <2>3
        DEF PatchFails, PatchUnauthorized, Types, ServerType, OrphansType, OwedType
<1>7. ASSUME NEW q \in orphans, OrphanStored(q) PROVE Types'
  <2>1. q.by \in Principals /\ q.updates \in Updates
    BY <1>0 DEF OrphansType, Orphan
  <2>2. Stored(q.by, q.updates) /\ orphans' = orphans \ {q} /\ UNCHANGED <<flight, session>>
    BY <1>7 DEF OrphanStored
  <2>3. ModuleType' BY <1>0, <1>2, <2>2 DEF ModuleType
  <2>4. doc' \in [Principals -> Settings] /\ OwedType' BY <1>0, <2>1, <2>2, StoredTypes
  <2> QED BY <1>0, <1>1, <1>4, <2>2, <2>3, <2>4 DEF Types, ServerType
<1>8. ASSUME NEW q \in orphans, OrphanFails(q) PROVE Types'
  <2>1. orphans' = orphans \ {q} /\ session' \in {session, None} /\ UNCHANGED <<flight, doc, owed>>
    BY <1>8 DEF OrphanFails
  <2>2. ModuleType' BY <1>0, <1>2, <2>1 DEF ModuleType
  <2> QED BY <1>0, <1>1, <1>4, <2>1, <2>2 DEF Types, ServerType, OwedType
<1>9. CASE Expire
  <2>1. session' = None /\ UNCHANGED <<flight, doc, orphans, owed>> BY <1>9 DEF Expire
  <2>2. ModuleType' BY <1>0, <1>2, <2>1 DEF ModuleType
  <2> QED BY <1>0, <1>1, <2>1, <2>2 DEF Types, ServerType, OwedType, OrphansType
<1>10. ASSUME NEW p \in Principals, NEW k \in Keys, NEW v \in Elsewhere[p], OtherDevice(p, k, v)
       PROVE  Types'
  <2>1. doc' = [doc EXCEPT ![p][k] = v] /\ UNCHANGED <<flight, session, orphans, owed>>
    BY <1>10 DEF OtherDevice
  <2>2. v \in Values \cup {None} BY ChoiceTypes
  <2>3. doc' \in [Principals -> Settings] BY <1>0, <2>1, <2>2 DEF ServerType, Settings
  <2>4. ModuleType' BY <1>0, <1>2, <2>1 DEF ModuleType
  <2> QED BY <1>0, <1>1, <2>1, <2>3, <2>4 DEF Types, ServerType, OwedType, OrphansType
<1> QED BY <1>5, <1>6, <1>7, <1>8, <1>9, <1>10

(* Every step keeps the types. *)
LEMMA NextTypes == Types /\ [Next]_vars => Types'
<1> SUFFICES ASSUME Types, [Next]_vars PROVE Types'
  OBVIOUS
<1>1. CASE UNCHANGED vars
  BY <1>1 DEF vars, serverState, pageState, storageState, moduleState,
              Types, ServerType, PageType, StorageType, ModuleType, OrphansType, OwedType
<1>2. ASSUME NEW k \in Keys, NEW v \in Choosable[active], Write(k, v) PROVE Types'
  <2>1. v \in Values \cup {None} BY ChoiceTypes DEF Types, ModuleType
  <2> QED BY <1>2, <2>1, WriteTypes
<1>3. CASE TimerFires
  <2>1. Flush(FALSE) /\ UNCHANGED <<serverState, pageState, storageState, active, enabled,
                                    unconfirmed, orphans, owed>>
    BY <1>3 DEF TimerFires
  <2>2. StorageType' /\ ModuleType' BY <2>1, FlushTypes
  <2>3. ServerType' /\ PageType' /\ OrphansType' /\ OwedType'
    BY <2>1 DEF serverState, pageState, Types, ServerType, PageType, OrphansType, OwedType
  <2> QED BY <2>2, <2>3 DEF Types
<1> QED BY <1>1, <1>2, <1>3, PageTypes, PatchAnsweredTypes, ServerTypes DEF Next

(* The initial state has its types. *)
LEMMA InitTypes == Init => Types
<1> SUFFICES ASSUME Init PROVE Types
  OBVIOUS
<1> USE DEF Init
<1>1. ServerType /\ StorageType /\ OwedType
  BY ConstantTypes DEF ServerType, StorageType, OwedType
<1>2. PageType
  BY DEF PageType
<1>3. ModuleType
  BY ConstantTypes DEF ModuleType
<1>4. OrphansType
  BY FS_EmptySet, MaxOrphansIsANumber DEF OrphansType
<1> QED BY <1>1, <1>2, <1>3, <1>4 DEF Types

(* Every reachable state of the browser's settings is well typed, and what *)
(* the module holds as unconfirmed is what it has persisted, so a page can *)
(* be left at any moment (TypeOK).                                         *)
THEOREM ClientTypeCorrect == Spec => []TypeOK
<1>1. Types => TypeOK
  BY DEF Types, ServerType, PageType, StorageType, ModuleType, OrphansType, OwedType, TypeOK
<1> QED BY <1>1, InitTypes, NextTypes, PTL DEF Spec

-----------------------------------------------------------------------------
(* Edits are kept, and shown. *)

(* The module's state is that of a page. *)
NoPageNoModule == page = "none" => active = None

Edits == EditsSurvive /\ EditsShown /\ NoPageNoModule

(* What may be forgotten of the edits: all but what stays as it is. *)
OwedLess == \A p \in Principals, k \in Keys : owed'[p][k] \in {Same, owed[p][k]}

(* Edits that are stored, refused or shown by a snapshot are owed no more. *)
LEMMA EditsOwedLess ==
  ASSUME Types, Edits, OwedLess,
         UNCHANGED <<cache, persisted, active>>,
         Mounted' => Mounted, page' = "none" => page = "none"
  PROVE  Edits'
<1>1. EditsSurvive'
  BY DEF Edits, EditsSurvive, OwedLess
<1>2. EditsShown'
  BY DEF Edits, EditsShown, OwedLess, Types, ModuleType
<1> QED BY <1>1, <1>2 DEF Edits, NoPageNoModule

(* initializeUserSettings keeps what is unconfirmed, and shows it on top    *)
(* of the snapshot.                                                         *)
LEMMA InitializeEdits ==
  ASSUME Types, EditsSurvive, NEW p \in Principals, NEW s \in Settings, Initialize(p, s),
         enabled /\ active = p => EditsShown /\ Mounted
  PROVE  EditsSurvive' /\ EditsShown'
<1>0. StorageType /\ ModuleType /\ OwedType BY DEF Types
<1>1. CASE enabled /\ active = p
  BY <1>1 DEF Initialize, EditsSurvive, EditsShown, storageState, moduleState
<1>2. CASE ~(enabled /\ active = p)
  <2> DEFINE left == Unresolved(Fill(persisted[p], Migration(s)), s)
  <2>1. /\ cache' = Merge(s, left) /\ active' = p
        /\ persisted' = [persisted EXCEPT ![p] = left]
        /\ owed' = [owed EXCEPT ![p] = Unresolved(owed[p], s)]
    BY <1>2 DEF Initialize
  <2>2. /\ left \in Updates
        /\ \A k \in Keys :
             /\ persisted[p][k] \notin {Same, s[k]} => left[k] = persisted[p][k]
             /\ Merge(s, left)[k] = IF left[k] = Same THEN s[k] ELSE left[k]
    BY <1>0, LeftType
  <2>3. \A k \in Keys : Unresolved(owed[p], s)[k] = IF owed[p][k] = s[k] THEN Same ELSE owed[p][k]
    BY <1>0, UnresolvedType DEF OwedType
  <2> HIDE DEF left
  <2>4. persisted'[p] = left /\ \A q \in Principals \ {p} : persisted'[q] = persisted[q]
    BY <1>0, <2>1 DEF StorageType
  <2>5. /\ owed'[p] = Unresolved(owed[p], s)
        /\ \A q \in Principals \ {p} : owed'[q] = owed[q]
    BY <1>0, <2>1 DEF OwedType
  <2>6. ASSUME NEW k \in Keys, owed'[p][k] # Same
        PROVE  persisted'[p][k] = owed'[p][k] /\ cache'[k] = owed'[p][k]
    <3>1. owed[p][k] # s[k] /\ owed'[p][k] = owed[p][k]
      BY <2>3, <2>5, <2>6
    <3>2. persisted[p][k] = owed[p][k] BY <2>6, <3>1 DEF EditsSurvive
    <3>3. left[k] = owed[p][k] BY <2>2, <2>6, <3>1, <3>2
    <3> QED BY <2>1, <2>2, <2>4, <2>6, <3>1, <3>3
  <2>7. EditsSurvive' BY <2>4, <2>5, <2>6 DEF EditsSurvive
  <2>8. EditsShown' BY <2>1, <2>6 DEF EditsShown
  <2> QED BY <2>7, <2>8
<1> QED BY <1>1, <1>2

(* prepareUserSettingsCache shows what is persisted. *)
LEMMA PrepareEdits ==
  ASSUME Types, EditsSurvive, NEW p \in Principals \cup {None}, Prepare(p)
  PROVE  EditsSurvive' /\ EditsShown'
<1>0. StorageType BY DEF Types
<1> DEFINE kept == IF p = None \/ owner # p THEN NoSettings ELSE cache
           old == IF p = None THEN NoUpdates ELSE persisted[p]
<1>1. kept \in Settings /\ old \in Updates
  BY <1>0, ConstantTypes DEF StorageType
<1>2. cache' = Merge(kept, old) /\ active' = p /\ UNCHANGED <<persisted, owed>>
  BY DEF Prepare
<1>3. p # None => old = persisted[p]
  OBVIOUS
<1> HIDE DEF kept, old
<1>4. \A k \in Keys : Merge(kept, old)[k] = IF old[k] = Same THEN kept[k] ELSE old[k]
  BY <1>1, MergeType
<1>5. EditsSurvive' BY <1>2 DEF EditsSurvive
<1>6. EditsShown'
  <2>1. ASSUME p # None, NEW k \in Keys, owed[p][k] # Same PROVE cache'[k] = owed[p][k]
    BY <1>2, <1>3, <1>4, <2>1 DEF EditsSurvive
  <2> QED BY <1>2, <2>1 DEF EditsShown
<1> QED BY <1>5, <1>6

(* writeUserSetting persists and shows the edit it makes. *)
LEMMA WriteEdits ==
  ASSUME Types, Edits, NEW k \in Keys, NEW v \in Values \cup {None}, Write(k, v)
  PROVE  Edits'
<1>0. StorageType /\ ModuleType /\ OwedType /\ PageType BY DEF Types
<1>1. /\ cache' = [cache EXCEPT ![k] = v]
      /\ UNCHANGED <<page, active>>
  BY DEF Write, pageState
<1>2. cache'[k] = v /\ \A l \in Keys \ {k} : cache'[l] = cache[l]
  BY <1>0, <1>1 DEF StorageType, Settings
<1>3. CASE active = None
  BY <1>1, <1>3 DEF Write, Edits, EditsSurvive, EditsShown, NoPageNoModule
<1>4. CASE active # None
  <2>1. /\ unconfirmed' = [unconfirmed EXCEPT ![k] = v]
        /\ persisted' = [persisted EXCEPT ![active] = unconfirmed']
        /\ owed' = [owed EXCEPT ![active][k] = v]
    BY <1>4 DEF Write
  <2>2. active \in Principals /\ unconfirmed = persisted[active]
    BY <1>0, <1>4 DEF ModuleType
  <2>3. /\ owed'[active][k] = v
        /\ \A l \in Keys \ {k} : owed'[active][l] = owed[active][l]
        /\ \A q \in Principals \ {active} : owed'[q] = owed[q]
    BY <1>0, <2>1, <2>2 DEF OwedType, Updates
  <2>4. /\ persisted'[active] = unconfirmed'
        /\ \A q \in Principals \ {active} : persisted'[q] = persisted[q]
    BY <1>0, <2>1, <2>2 DEF StorageType
  <2>5. unconfirmed'[k] = v /\ \A l \in Keys \ {k} : unconfirmed'[l] = persisted[active][l]
    BY <1>0, <2>1, <2>2 DEF ModuleType, Updates
  <2>6. EditsSurvive' BY <2>3, <2>4, <2>5 DEF Edits, EditsSurvive
  <2>7. Mounted BY DEF Write
  <2>8. EditsShown'
    BY <1>1, <1>2, <1>4, <2>3, <2>7 DEF Edits, EditsShown
  <2> QED BY <1>1, <2>6, <2>8 DEF Edits, NoPageNoModule
<1> QED BY <1>3, <1>4

(* The answer of a flush gives up only what the server has refused, and no *)
(* newer value of the same key.                                            *)
LEMMA PatchAnsweredEdits ==
  ASSUME Types, Edits, PatchAnswered
  PROVE  Edits'
<1>0. StorageType /\ ModuleType /\ OwedType BY DEF Types
<1> DEFINE u == flight.updates
           a == flight.answer
           live == enabled /\ active = flight.of
<1>1. /\ unconfirmed' = IF live /\ GivenUp(a) THEN Drop(unconfirmed, u) ELSE unconfirmed
      /\ persisted' = IF live THEN [persisted EXCEPT ![active] = unconfirmed'] ELSE persisted
      /\ owed' = IF live /\ a = "refused"
                   THEN [owed EXCEPT ![active] = Drop(owed[active], u)] ELSE owed
      /\ UNCHANGED <<page, active, cache>>
  BY DEF PatchAnswered, pageState
<1>2. u \in Updates
  BY <1>0 DEF PatchAnswered, ModuleType, Flight
<1>3. CASE live
  <2>1. active \in Principals /\ unconfirmed = persisted[active]
    BY <1>0, <1>3 DEF ModuleType
  <2>2. /\ persisted'[active] = unconfirmed'
        /\ \A q \in Principals \ {active} : persisted'[q] = persisted[q]
    BY <1>0, <1>1, <1>3, <2>1 DEF StorageType
  <2>3. CASE a = "refused"
    <3>1. \A k \in Keys : unconfirmed'[k] = IF unconfirmed[k] = u[k] THEN Same ELSE unconfirmed[k]
      BY <1>0, <1>1, <1>2, <1>3, <2>3, DropType DEF GivenUp, ModuleType
    <3>2. owed[active] \in Updates BY <1>0, <2>1 DEF OwedType
    <3>3. /\ owed'[active] = Drop(owed[active], u)
          /\ \A q \in Principals \ {active} : owed'[q] = owed[q]
      BY <1>0, <1>1, <1>3, <2>1, <2>3 DEF OwedType
    <3>4. \A k \in Keys : owed'[active][k] = IF owed[active][k] = u[k] THEN Same ELSE owed[active][k]
      BY <1>2, <3>2, <3>3, DropType
    <3>5. EditsSurvive'
      BY <2>1, <2>2, <3>1, <3>3, <3>4 DEF Edits, EditsSurvive
    <3>6. EditsShown'
      BY <1>1, <3>4 DEF Edits, EditsShown, Mounted
    <3> QED BY <1>1, <3>5, <3>6 DEF Edits, NoPageNoModule
  <2>4. CASE a # "refused"
    <3>1. unconfirmed' = unconfirmed /\ owed' = owed
      BY <1>1, <2>4 DEF GivenUp
    <3>2. EditsSurvive'
      BY <2>1, <2>2, <3>1 DEF Edits, EditsSurvive
    <3>3. EditsShown'
      BY <1>1, <3>1 DEF Edits, EditsShown, Mounted
    <3> QED BY <1>1, <3>2, <3>3 DEF Edits, NoPageNoModule
  <2> QED BY <2>3, <2>4
<1>4. CASE ~live
  <2>1. persisted' = persisted /\ owed' = owed BY <1>1, <1>4
  <2> QED BY <1>1, <2>1 DEF Edits, EditsSurvive, EditsShown, NoPageNoModule, Mounted
<1> QED BY <1>3, <1>4

(* What is stored is owed no more. *)
LEMMA StoredOwesLess ==
  ASSUME OwedType, NEW p \in Principals, NEW u \in Updates, Stored(p, u)
  PROVE  OwedLess
<1>1. owed[p] \in Updates BY DEF OwedType
<1>2. owed' = [owed EXCEPT ![p] = Drop(owed[p], u)] BY DEF Stored
<1>3. \A k \in Keys : Drop(owed[p], u)[k] \in {Same, owed[p][k]}
  BY <1>1, DropType
<1> QED BY <1>2, <1>3 DEF OwedLess, OwedType

(* A step that leaves the page, or the module without a principal, shows    *)
(* nothing that could be wrong.                                             *)
LEMMA NobodyEdits ==
  ASSUME Types, Edits, UNCHANGED <<persisted, owed>>, active' = None
  PROVE  Edits'
BY DEF Edits, EditsSurvive, EditsShown, NoPageNoModule

(* A step that touches neither the copy nor what is persisted. *)
LEMMA SameEdits ==
  ASSUME Types, Edits, UNCHANGED <<cache, persisted, active, owed>>,
         Mounted' => Mounted, page' = "none" => page = "none"
  PROVE  Edits'
BY DEF Edits, EditsSurvive, EditsShown, NoPageNoModule

(* Every step keeps and shows the edits. *)
LEMMA NextEdits == Types /\ Edits /\ [Next]_vars => Edits'
<1> SUFFICES ASSUME Types, Edits, [Next]_vars PROVE Edits'
  OBVIOUS
<1> USE DEF serverState, pageState, storageState, moduleState
<1>0. StorageType /\ ModuleType /\ OwedType /\ PageType /\ EditsSurvive
  BY DEF Types, Edits
<1>p. \A q \in Page : q.principal \in Principals \cup {None}
                      /\ q.settings \in Settings \cup {NoPage}
  BY DEF Page
<1>1. CASE UNCHANGED vars
  BY <1>1, SameEdits DEF vars, Mounted
<1>2. CASE \E p \in Principals : SignIn(p)
  BY <1>2, NobodyEdits DEF SignIn, Unload
<1>3. CASE Render \/ QueryRead
  BY <1>3, SameEdits DEF Render, QueryRead, Mounted
<1>4. CASE Mount
  <2>1. arriving \in Page /\ page = "none" /\ active = None /\ ~enabled /\ page' = "console"
    BY <1>0, <1>4 DEF Mount, PageType, ModuleType, Edits, NoPageNoModule
  <2>2. CASE arriving.settings # NoPage
    <3>1. arriving.principal \in Principals /\ arriving.settings \in Settings
      BY <1>0, <1>p, <2>1, <2>2, NothingIsNoPage DEF PageType
    <3>2. Initialize(arriving.principal, arriving.settings)
      BY <1>4, <2>2 DEF Mount
    <3>3. EditsSurvive' /\ EditsShown'
      BY <1>0, <2>1, <3>1, <3>2, InitializeEdits
    <3> QED BY <2>1, <3>3 DEF Edits, NoPageNoModule
  <2>3. CASE arriving.settings = NoPage
    <3>1. Prepare(arriving.principal) BY <1>4, <2>3 DEF Mount
    <3>2. EditsSurvive' /\ EditsShown'
      BY <1>0, <1>p, <2>1, <3>1, PrepareEdits
    <3> QED BY <2>1, <3>2 DEF Edits, NoPageNoModule
  <2> QED BY <2>2, <2>3
<1>5. CASE QueryArrives
  <2>1. /\ arriving.settings \in Settings /\ arriving.principal \in Principals
        /\ Mounted /\ page' = page
        /\ Initialize(arriving.principal, arriving.settings)
    BY <1>0, <1>5, <1>p DEF QueryArrives, PageType, Mounted
  <2>2. EditsSurvive' /\ EditsShown'
    BY <1>0, <2>1, InitializeEdits DEF Edits
  <2> QED BY <2>1, <2>2 DEF Edits, NoPageNoModule, Mounted
<1>6. CASE QueryFails
  <2>1. Prepare(shown) /\ shown \in Principals \cup {None} /\ Mounted /\ page' = page
    BY <1>0, <1>6 DEF QueryFails, PageType
  <2>2. EditsSurvive' /\ EditsShown'
    BY <1>0, <2>1, PrepareEdits
  <2> QED BY <2>1, <2>2 DEF Edits, NoPageNoModule, Mounted
<1>7. ASSUME NEW k \in Keys, NEW v \in Choosable[active], Write(k, v) PROVE Edits'
  <2>1. v \in Values \cup {None} BY <1>0, ChoiceTypes DEF ModuleType
  <2> QED BY <1>7, <2>1, WriteEdits
<1>8. CASE TimerFires \/ SignOut \/ SoftRedirect
  BY <1>8, SameEdits DEF TimerFires, SignOut, SoftRedirect, Mounted
<1>9. CASE Leave
  BY <1>9, NobodyEdits DEF Leave, Unload
<1>10. CASE SignedOut \/ SignOutFails
  BY <1>10, NobodyEdits DEF SignedOut, SignOutFails, Disable, ClearStorage
<1>11. CASE NoticeExpiry
  BY <1>11, NobodyEdits DEF NoticeExpiry, Unload, ClearStorage
<1>12. CASE PatchStored
  <2>1. flight.by \in Principals /\ flight.updates \in Updates /\ Stored(flight.by, flight.updates)
    BY <1>0, <1>12 DEF PatchStored, Waiting, ModuleType, Flight
  <2>2. OwedLess BY <1>0, <2>1, StoredOwesLess
  <2> QED BY <1>12, <2>2, EditsOwedLess DEF PatchStored, AwayFromServer, Mounted
<1>13. CASE PatchFails \/ PatchUnauthorized \/ Expire
  BY <1>13, SameEdits DEF PatchFails, PatchUnauthorized, Expire, AwayFromServer, Mounted
<1>14. CASE PatchAnswered
  BY <1>14, PatchAnsweredEdits
<1>15. ASSUME NEW q \in orphans, OrphanStored(q) PROVE Edits'
  <2>1. q.by \in Principals /\ q.updates \in Updates /\ Stored(q.by, q.updates)
    BY <1>15 DEF OrphanStored, Types, OrphansType, Orphan
  <2>2. OwedLess BY <1>0, <2>1, StoredOwesLess
  <2> QED BY <1>15, <2>2, EditsOwedLess DEF OrphanStored, AwayFromServer, Mounted
<1>16. ASSUME NEW q \in orphans, OrphanFails(q) PROVE Edits'
  BY <1>16, SameEdits DEF OrphanFails, AwayFromServer, Mounted
<1>17. CASE \E p \in Principals, k \in Keys : \E v \in Elsewhere[p] : OtherDevice(p, k, v)
  BY <1>17, SameEdits DEF OtherDevice, AwayFromServer, Mounted
<1> QED BY <1>1, <1>2, <1>3, <1>4, <1>5, <1>6, <1>7, <1>8, <1>9, <1>10, <1>11, <1>12,
           <1>13, <1>14, <1>15, <1>16, <1>17 DEF Next

(* Nothing is owed at the start. *)
LEMMA InitEdits == Init => Edits
BY ConstantTypes DEF Init, Edits, EditsSurvive, EditsShown, NoPageNoModule

(* Types and edits, together. *)
LEMMA EditsInvariant == Spec => [](Types /\ Edits)
BY InitTypes, InitEdits, NextTypes, NextEdits, PTL DEF Spec

(* However many pages come and go, requests fail and sessions end, an edit  *)
(* that the server has neither stored nor refused, and no snapshot has      *)
(* shown, is persisted on the device (EditsSurvive).                        *)
THEOREM EditsAreKept == Spec => []EditsSurvive
BY EditsInvariant, PTL DEF Edits

(* A page that knows whose it is shows every such edit of its principal,    *)
(* whatever older snapshot or other copy it was loaded with (EditsShown).   *)
THEOREM EditsAreShown == Spec => []EditsShown
BY EditsInvariant, PTL DEF Edits

-----------------------------------------------------------------------------
(* What is pending has a trigger. *)

(* What is written while a flush is in flight has a timer, or a flush that  *)
(* waits for the one in flight.                                             *)
Followed == enabled /\ pending # NoUpdates /\ flight # NoRequest => timer \/ chained

Triggers == PendingHasTrigger /\ Followed /\ NoPageNoModule

(* A flush sends what is pending, or leaves its trigger. *)
LEMMA FlushTriggers ==
  ASSUME Types, Triggers, NEW t \in {timer, FALSE}, Flush(t),
         UNCHANGED enabled, Mounted' => Mounted, page' = "none" => page = "none",
         UNCHANGED active
  PROVE  Triggers'
<1>0. ModuleType /\ ServerType BY DEF Types
<1>1. CASE flight # NoRequest
  BY <1>1 DEF Flush, Triggers, PendingHasTrigger, Followed, NoPageNoModule
<1>2. CASE flight = NoRequest /\ enabled /\ pending # NoUpdates
  BY <1>2 DEF Flush, Triggers, PendingHasTrigger, Followed, NoPageNoModule
<1>3. CASE flight = NoRequest /\ ~(enabled /\ pending # NoUpdates)
  BY <1>3 DEF Flush, Triggers, PendingHasTrigger, Followed, NoPageNoModule
<1> QED BY <1>1, <1>2, <1>3

(* A module that does not work has nothing to trigger. *)
LEMMA IdleTriggers ==
  ASSUME enabled' = FALSE, NoPageNoModule'
  PROVE  Triggers'
BY DEF Triggers, PendingHasTrigger, Followed

(* A step that leaves the module alone. *)
LEMMA SameTriggers ==
  ASSUME Triggers, UNCHANGED <<active, enabled, pending, timer, chained, forbidden>>,
         (flight' = NoRequest) <=> (flight = NoRequest),
         Mounted' => Mounted, page' = "none" => page = "none"
  PROVE  Triggers'
BY DEF Triggers, PendingHasTrigger, Followed, NoPageNoModule

(* initializeUserSettings sets the timer for what it finds unconfirmed. *)
LEMMA InitializeTriggers ==
  ASSUME Types, Triggers, NEW p \in Principals, NEW s \in Settings, Initialize(p, s),
         page' # "none", enabled /\ active = p => Mounted
  PROVE  Triggers'
<1>1. CASE enabled /\ active = p
  BY <1>1 DEF Initialize, moduleState, Triggers, PendingHasTrigger, Followed, NoPageNoModule
<1>2. CASE ~(enabled /\ active = p)
  <2>1. /\ timer' = (timer \/ pending' # NoUpdates)
    BY <1>2 DEF Initialize
  <2> QED BY <2>1 DEF Triggers, PendingHasTrigger, Followed, NoPageNoModule
<1> QED BY <1>1, <1>2

(* The answer of a flush leaves what is pending with a trigger. *)
LEMMA PatchAnsweredTriggers ==
  ASSUME Types, Triggers, PatchAnswered
  PROVE  Triggers'
<1>0. ModuleType /\ ServerType BY DEF Types
<1> DEFINE u == flight.updates
           a == flight.answer
           live == enabled /\ active = flight.of
           left == IF live /\ PendingAgain(a) THEN Fill(pending, u) ELSE pending
           again == live /\ left # NoUpdates /\ Rescheduled(a)
           next == chained /\ enabled /\ left # NoUpdates
<1>1. /\ chained' = FALSE
      /\ flight' = IF next THEN Request(left) ELSE NoRequest
      /\ pending' = IF next THEN NoUpdates ELSE left
      /\ timer' = (~next /\ (timer \/ again))
      /\ forbidden' = (~next /\ IF live THEN a = "forbidden" ELSE forbidden)
      /\ UNCHANGED <<page, active, enabled>>
      /\ flight # NoRequest
      /\ a = "expired" => ~Mounted
      /\ a # "none"
  BY DEF PatchAnswered, pageState
<1>2. a \in Answers
  BY <1>0, <1>1 DEF ModuleType, Flight
<1>3. Followed'
  BY <1>1 DEF Followed
<1>4. PendingHasTrigger'
  <2> SUFFICES ASSUME Mounted, enabled, pending' # NoUpdates PROVE timer' \/ forbidden'
    BY <1>1 DEF PendingHasTrigger, Mounted
  <2>1. ~next /\ left # NoUpdates /\ ~chained BY <1>1
  <2>2. CASE live /\ PendingAgain(a)
    <3>1. a \in {"retry", "forbidden"} BY <1>1, <2>2 DEF PendingAgain
    <3> QED BY <1>1, <2>1, <2>2, <3>1 DEF Rescheduled
  <2>3. CASE ~(live /\ PendingAgain(a))
    <3>1. pending # NoUpdates BY <2>1, <2>3
    <3>2. timer BY <1>1, <2>1, <3>1 DEF Triggers, Followed
    <3> QED BY <1>1, <2>1, <3>2
  <2> QED BY <2>2, <2>3
<1> QED BY <1>1, <1>3, <1>4 DEF Triggers, NoPageNoModule

(* Every step leaves what is pending with a trigger. *)
LEMMA NextTriggers == Types /\ Triggers /\ [Next]_vars => Triggers'
<1> SUFFICES ASSUME Types, Triggers, [Next]_vars PROVE Triggers'
  OBVIOUS
<1> USE DEF serverState, pageState, storageState, moduleState
<1>0. ModuleType /\ PageType /\ ServerType
  BY DEF Types
<1>p. \A q \in Page : q.principal \in Principals \cup {None}
                      /\ q.settings \in Settings \cup {NoPage}
  BY DEF Page
<1>1. CASE UNCHANGED vars
  BY <1>1, SameTriggers DEF vars, Mounted
<1>2. CASE (\E p \in Principals : SignIn(p)) \/ Leave \/ NoticeExpiry
  <2>1. enabled' = FALSE /\ active' = None BY <1>2 DEF SignIn, Leave, NoticeExpiry, Unload
  <2> QED BY <2>1, IdleTriggers DEF NoPageNoModule
<1>3. CASE Render \/ QueryRead
  BY <1>3, SameTriggers DEF Render, QueryRead, Mounted
<1>4. CASE Mount
  <2>1. arriving \in Page /\ active = None /\ ~enabled /\ page' = "console"
    BY <1>0, <1>4 DEF Mount, PageType, ModuleType, Triggers, NoPageNoModule
  <2>2. CASE arriving.settings # NoPage
    <3>1. arriving.principal \in Principals /\ arriving.settings \in Settings
      BY <1>0, <1>p, <1>4, <2>1, <2>2, NothingIsNoPage DEF PageType, Mount
    <3>2. Initialize(arriving.principal, arriving.settings)
      BY <1>4, <2>2 DEF Mount
    <3> QED BY <2>1, <3>1, <3>2, InitializeTriggers
  <2>3. CASE arriving.settings = NoPage
    <3>1. Prepare(arriving.principal) BY <1>4, <2>3 DEF Mount
    <3> QED BY <2>1, <3>1, IdleTriggers DEF Prepare, NoPageNoModule
  <2> QED BY <2>2, <2>3
<1>5. CASE QueryArrives
  <2>1. /\ arriving.settings \in Settings /\ arriving.principal \in Principals
        /\ Mounted /\ page' # "none"
        /\ Initialize(arriving.principal, arriving.settings)
    BY <1>0, <1>5, <1>p DEF QueryArrives, PageType, Mounted
  <2> QED BY <2>1, InitializeTriggers
<1>6. CASE QueryFails
  <2>1. enabled' = FALSE /\ page' # "none" BY <1>6 DEF QueryFails, Prepare, Mounted
  <2> QED BY <2>1, IdleTriggers DEF NoPageNoModule
<1>7. ASSUME NEW k \in Keys, NEW v \in Choosable[active], Write(k, v) PROVE Triggers'
  <2>1. UNCHANGED <<page, active, enabled, flight, chained, forbidden>>
    BY <1>7 DEF Write
  <2>2. CASE active = None
    BY <1>0, <2>1, <2>2
       DEF ModuleType, Triggers, PendingHasTrigger, Followed, NoPageNoModule
  <2>3. CASE active # None
    <3>1. timer' = (timer \/ enabled) /\ Mounted BY <1>7, <2>3 DEF Write
    <3> QED BY <2>1, <3>1 DEF Triggers, PendingHasTrigger, Followed, NoPageNoModule, Mounted
  <2> QED BY <2>2, <2>3
<1>8. CASE TimerFires \/ SignOut \/ SoftRedirect
  <2>1. \E t \in {timer, FALSE} : Flush(t)
    BY <1>8 DEF TimerFires, SignOut, SoftRedirect
  <2>2. UNCHANGED <<enabled, active>> /\ (Mounted' => Mounted) /\ (page' = "none" => page = "none")
    BY <1>8 DEF TimerFires, SignOut, SoftRedirect, Mounted
  <2> QED BY <2>1, <2>2, FlushTriggers
<1>9. CASE SignedOut \/ SignOutFails
  <2>1. enabled' = FALSE /\ active' = None BY <1>9 DEF SignedOut, SignOutFails, Disable
  <2> QED BY <2>1, IdleTriggers DEF NoPageNoModule
<1>10. CASE PatchAnswered
  BY <1>10, PatchAnsweredTriggers
<1>11. CASE PatchStored \/ PatchFails \/ PatchUnauthorized
  <2>1. flight # NoRequest /\ flight \in Flight /\ \E x \in Answers : Answer(x)
    BY <1>0, <1>11 DEF PatchStored, PatchFails, PatchUnauthorized, Waiting, Answers, ModuleType
  <2>2. flight' \in Flight BY <2>1 DEF Answer, Flight
  <2>3. flight' # NoRequest BY <2>2, NothingIsNoRequest
  <2> QED BY <1>11, <2>1, <2>3, SameTriggers
        DEF PatchStored, PatchFails, PatchUnauthorized, AwayFromServer, Mounted
<1>12. CASE Expire \/ \E q \in orphans : OrphanStored(q) \/ OrphanFails(q)
  BY <1>12, SameTriggers DEF Expire, OrphanStored, OrphanFails, AwayFromServer, Mounted
<1>13. CASE \E p \in Principals, k \in Keys : \E v \in Elsewhere[p] : OtherDevice(p, k, v)
  BY <1>13, SameTriggers DEF OtherDevice, AwayFromServer, Mounted
<1> QED BY <1>1, <1>2, <1>3, <1>4, <1>5, <1>6, <1>7, <1>8, <1>9, <1>10, <1>11, <1>12, <1>13
        DEF Next

(* On a working page, what is pending will be sent: a timer is set, a       *)
(* flush is in flight, or the last answer was a 403 (PendingHasTrigger).    *)
THEOREM PendingIsTriggered == Spec => []PendingHasTrigger
<1>1. Init => Triggers
  BY DEF Init, Triggers, PendingHasTrigger, Followed, NoPageNoModule, Mounted
<1>2. Types /\ Triggers => PendingHasTrigger
  BY DEF Triggers
<1> QED BY <1>1, <1>2, InitTypes, NextTypes, NextTriggers, PTL DEF Spec

-----------------------------------------------------------------------------
(* Whose settings they are. *)

(* What p may have: p's own settings, those of pages that did not know     *)
(* whose they are, and those of p's other devices.                         *)
Anybody == Choosable[None] \cup {None, Same}
Allowed(p) == Choosable[p] \cup Anybody \cup Elsewhere[p]

OnlyHas(f, S) == \A k \in Keys : f[k] \in S

OwnDocs == \A p \in Principals : OnlyHas(doc[p], Allowed(p))

OwnOrphans == \A q \in orphans : OnlyHas(q.updates, Allowed(q.by))

OwnArriving ==
  arriving # NoPage /\ arriving.settings # NoPage =>
    OnlyHas(arriving.settings, Allowed(arriving.principal))

(* The browser's copy is its owner's, who is the module's principal. *)
OwnStorage ==
  /\ \A p \in Principals : OnlyHas(persisted[p], Allowed(p))
  /\ OnlyHas(cache, IF owner = None THEN Anybody ELSE Allowed(owner))
  /\ active # None => owner = active /\ OnlyHas(pending, Allowed(active))

OwnFlight ==
  flight # NoRequest =>
    flight.by \in {None, flight.of} /\ OnlyHas(flight.updates, Allowed(flight.of))

(* Whoever has a session is the page's and the module's principal. *)
OwnSession ==
  session # None =>
    /\ active \in {None, session}
    /\ shown \in {None, session}
    /\ arriving # NoPage => arriving.principal \in {None, session}

Own == OwnDocs /\ OwnOrphans /\ OwnArriving /\ OwnStorage /\ OwnFlight /\ OwnSession

(* Merging what S has into what S has. *)
LEMMA MergeHas ==
  ASSUME NEW S, NEW s, OnlyHas(s, S), NEW u, OnlyHas(u, S)
  PROVE  OnlyHas(Merge(s, u), S) /\ OnlyHas(Fill(s, u), S)
BY DEF OnlyHas, Merge, Fill

(* Nobody's settings and updates are anybody's. *)
LEMMA NothingHas ==
  /\ OnlyHas(NoSettings, Anybody) /\ OnlyHas(NoUpdates, Anybody)
  /\ \A p : OnlyHas(NoSettings, Allowed(p)) /\ OnlyHas(NoUpdates, Allowed(p))
BY DEF OnlyHas, NoSettings, NoUpdates, Anybody, Allowed

(* initializeUserSettings shows p what is p's. *)
LEMMA InitializeOwn ==
  ASSUME Types, OwnStorage, NEW p \in Principals, NEW s \in Settings,
         OnlyHas(s, Allowed(p)), Initialize(p, s)
  PROVE  OwnStorage' /\ active' = p /\ UNCHANGED flight
<1> DEFINE left == Unresolved(Fill(persisted[p], Migration(s)), s)
<1>1. CASE enabled /\ active = p
  <2>1. UNCHANGED <<cache, owner, persisted, active, pending, flight>>
    BY <1>1 DEF Initialize, storageState, moduleState
  <2> QED BY <1>1, <2>1 DEF OwnStorage
<1>2. CASE ~(enabled /\ active = p)
  <2>1. /\ left \in Updates
        /\ \A k \in Keys : left[k] \in {Same, persisted[p][k], Migration(s)[k]}
    BY LeftType DEF Types
  <2>2. \A k \in Keys : Migration(s)[k] \in Allowed(p)
    <3>1. \A k \in Keys : Migration(s)[k] \in {Same} \cup (IF owner = None THEN {cache[k]} ELSE {})
      BY DEF Migration
    <3> QED BY <3>1 DEF OwnStorage, OnlyHas, Anybody, Allowed
  <2>3. OnlyHas(left, Allowed(p))
    BY <2>1, <2>2 DEF OwnStorage, OnlyHas, Allowed, Anybody
  <2>4. /\ cache' = Merge(s, left) /\ owner' = p
        /\ persisted' = [persisted EXCEPT ![p] = left]
        /\ active' = p /\ pending' = left
        /\ UNCHANGED flight
    BY <1>2 DEF Initialize
  <2> HIDE DEF left
  <2>5. OnlyHas(Merge(s, left), Allowed(p))
    BY <2>3, MergeHas
  <2>6. \A q \in Principals : OnlyHas(persisted'[q], Allowed(q))
    <3>1. \A q \in Principals : persisted'[q] = IF q = p THEN left ELSE persisted[q]
      BY <2>4 DEF Types, StorageType
    <3> QED BY <2>3, <3>1 DEF OwnStorage
  <2> QED BY <2>3, <2>4, <2>5, <2>6, PrincipalsAreKnown DEF OwnStorage
<1> QED BY <1>1, <1>2

(* prepareUserSettingsCache shows p what is p's, or nothing. *)
LEMMA PrepareOwn ==
  ASSUME Types, OwnStorage, NEW p \in Principals \cup {None}, Prepare(p)
  PROVE  OwnStorage' /\ active' = p /\ UNCHANGED flight
<1>1. /\ owner' = p /\ active' = p
      /\ UNCHANGED <<persisted, flight>>
  BY DEF Prepare
<1>2. CASE p = None
  <2>1. cache' = Merge(NoSettings, NoUpdates)
    BY <1>2 DEF Prepare
  <2>2. OnlyHas(cache', Anybody)
    BY <2>1, MergeHas, NothingHas
  <2> QED BY <1>1, <1>2, <2>2 DEF OwnStorage
<1>3. CASE p # None
  <2> DEFINE kept == IF owner # p THEN NoSettings ELSE cache
  <2>1. cache' = Merge(kept, persisted[p]) /\ pending' = persisted[p] /\ p \in Principals
    BY <1>3 DEF Prepare
  <2>2. OnlyHas(kept, Allowed(p)) /\ OnlyHas(persisted[p], Allowed(p))
    BY <1>3, <2>1, NothingHas DEF OwnStorage
  <2> HIDE DEF kept
  <2>3. OnlyHas(cache', Allowed(p))
    BY <2>1, <2>2, MergeHas
  <2> QED BY <1>1, <1>3, <2>1, <2>2, <2>3 DEF OwnStorage
<1> QED BY <1>2, <1>3

(* A request that the module makes is of its principal, and by it. *)
LEMMA RequestOwn ==
  ASSUME Types, Own, active # None, NEW u, OnlyHas(u, Allowed(active))
  PROVE  /\ Request(u).by \in {None, Request(u).of}
         /\ OnlyHas(Request(u).updates, Allowed(Request(u).of))
BY DEF Own, OwnSession, Request, Types, ServerType

(* A flush sends what is the principal's. *)
LEMMA FlushOwn ==
  ASSUME Types, Own, NEW t, Flush(t), UNCHANGED <<storageState, active>>
  PROVE  OwnStorage' /\ OwnFlight'
<1>1. CASE flight' = flight
  <2>1. pending' = pending \/ pending' = NoUpdates
    BY DEF Flush
  <2> QED BY <1>1, <2>1, NothingHas DEF Own, OwnStorage, OwnFlight, storageState
<1>2. CASE flight' # flight
  <2>1. /\ enabled /\ flight' = Request(pending) /\ pending' = NoUpdates
        /\ active # None
    BY <1>2 DEF Flush, Types, ModuleType
  <2>2. OnlyHas(pending, Allowed(active))
    BY <2>1 DEF Own, OwnStorage
  <2> QED BY <2>1, <2>2, RequestOwn, NothingHas DEF Own, OwnStorage, OwnFlight, storageState
<1> QED BY <1>1, <1>2

(* A page leaves behind what is of its principal. *)
LEMMA OrphanedOwn ==
  ASSUME OwnOrphans, NEW q \in Flight \cup {NoRequest}, Orphaned(q),
         q # NoRequest => q.by \in {None, q.of} /\ OnlyHas(q.updates, Allowed(q.of))
  PROVE  OwnOrphans'
<1>1. CASE UNCHANGED orphans
  BY <1>1 DEF OwnOrphans
<1>2. CASE ~UNCHANGED orphans
  BY <1>2 DEF OwnOrphans, Orphaned
<1> QED BY <1>1, <1>2

(* The page's scripts are gone: nobody has it, and nothing is on its way.  *)
LEMMA UnloadOwn ==
  ASSUME Unload
  PROVE  OwnArriving' /\ OwnFlight' /\ OwnSession' /\ active' = None
BY DEF Unload, OwnArriving, OwnFlight, OwnSession

(* The server stores what is p's. *)
LEMMA StoredOwn ==
  ASSUME ServerType, OwnDocs, NEW p \in Principals, NEW u, OnlyHas(u, Allowed(p)),
         Stored(p, u)
  PROVE  OwnDocs'
<1>1. \A q \in Principals : doc'[q] = IF q = p THEN Merge(doc[p], u) ELSE doc[q]
  BY DEF Stored, ServerType
<1>2. OnlyHas(Merge(doc[p], u), Allowed(p))
  BY MergeHas DEF OwnDocs
<1> QED BY <1>1, <1>2 DEF OwnDocs

(* The answer of a flush gives nobody anything. *)
LEMMA PatchAnsweredOwn ==
  ASSUME Types, Own, PatchAnswered
  PROVE  Own'
<1> DEFINE u == flight.updates
           a == flight.answer
           live == enabled /\ active = flight.of
           left == IF live /\ PendingAgain(a) THEN Fill(pending, u) ELSE pending
           next == chained /\ enabled /\ left # NoUpdates
<1>1. /\ flight' = IF next THEN Request(left) ELSE NoRequest
      /\ pending' = IF next THEN NoUpdates ELSE left
      /\ unconfirmed' = IF live /\ GivenUp(a) THEN Drop(unconfirmed, u) ELSE unconfirmed
      /\ persisted' = IF live THEN [persisted EXCEPT ![active] = unconfirmed'] ELSE persisted
      /\ flight # NoRequest
      /\ UNCHANGED <<serverState, pageState, cache, owner, active, orphans>>
  BY DEF PatchAnswered
<1>2. active # None => OnlyHas(left, Allowed(active))
  <2>1. CASE live
    <3>1. active # None => OnlyHas(u, Allowed(active)) /\ OnlyHas(pending, Allowed(active))
      BY <1>1, <2>1 DEF Own, OwnFlight, OwnStorage
    <3> QED BY <3>1, MergeHas
  <2>2. CASE ~live
    BY <2>2 DEF Own, OwnStorage
  <2> QED BY <2>1, <2>2
<1> HIDE DEF left
<1>3. OwnFlight'
  <2>1. CASE next
    <3>1. active # None
      BY <2>1 DEF Types, ModuleType
    <3> QED BY <1>1, <1>2, <2>1, <3>1, RequestOwn DEF OwnFlight
  <2>2. CASE ~next
    BY <1>1, <2>2 DEF OwnFlight
  <2> QED BY <2>1, <2>2
<1>4. \A p \in Principals : OnlyHas(persisted'[p], Allowed(p))
  <2>1. CASE live
    <3>1. active \in Principals /\ unconfirmed = persisted[active]
      BY <2>1 DEF Types, ModuleType
    <3>2. \A k \in Keys : unconfirmed'[k] \in {Same, persisted[active][k]}
      BY <1>1, <3>1 DEF Drop
    <3>3. OnlyHas(unconfirmed', Allowed(active))
      BY <3>1, <3>2 DEF Own, OwnStorage, OnlyHas, Allowed, Anybody
    <3>4. \A p \in Principals :
            persisted'[p] = IF p = active THEN unconfirmed' ELSE persisted[p]
      BY <1>1, <2>1, <3>1 DEF Types, StorageType
    <3> QED BY <3>3, <3>4 DEF Own, OwnStorage
  <2>2. CASE ~live
    BY <1>1, <2>2 DEF Own, OwnStorage
  <2> QED BY <2>1, <2>2
<1>5. OwnStorage'
  BY <1>1, <1>2, <1>4, NothingHas DEF Own, OwnStorage
<1> QED BY <1>1, <1>3, <1>5 DEF Own, OwnDocs, OwnOrphans, OwnArriving, OwnSession,
      serverState, pageState

(* Every step leaves to everybody what is theirs. *)
LEMMA NextOwn == Types /\ Own /\ [Next]_vars => Own'
<1> SUFFICES ASSUME Types, Own, [Next]_vars PROVE Own'
  OBVIOUS
<1> USE DEF serverState, pageState, storageState, moduleState
<1>0. /\ ServerType /\ PageType /\ StorageType /\ ModuleType /\ OrphansType
      /\ OwnDocs /\ OwnOrphans /\ OwnArriving /\ OwnStorage /\ OwnFlight /\ OwnSession
  BY DEF Types, Own
<1>p. \A q \in Page : q.principal \in Principals \cup {None}
                      /\ q.settings \in Settings \cup {NoPage}
  BY DEF Page
<1>1. CASE UNCHANGED vars
  BY <1>0, <1>1 DEF vars, Own, OwnDocs, OwnOrphans, OwnArriving, OwnStorage, OwnFlight,
    OwnSession
<1>2. CASE (\E p \in Principals : SignIn(p)) \/ NoticeExpiry
  <2>1. OwnArriving' /\ OwnFlight' /\ OwnSession' /\ active' = None
    BY <1>2, UnloadOwn DEF SignIn, NoticeExpiry
  <2>2. OwnOrphans'
    BY <1>0, <1>2, OrphanedOwn DEF SignIn, NoticeExpiry, OwnFlight, ModuleType
  <2>3. OwnStorage'
    BY <1>0, <1>2, <2>1, NothingHas DEF SignIn, NoticeExpiry, ClearStorage, OwnStorage
  <2> QED BY <1>0, <1>2, <2>1, <2>2, <2>3 DEF SignIn, NoticeExpiry, Own, OwnDocs
<1>3. CASE Render
  <2>1. PICK known \in {session, None} :
          \E settings \in {NoPage} \cup (IF known = None THEN {} ELSE {doc[known]}) :
            arriving' = [principal |-> known, settings |-> settings]
    BY <1>3 DEF Render
  <2>2. session # None /\ session \in Principals
    BY <1>0, <1>3 DEF Render, ServerType
  <2>3. OwnArriving' /\ OwnSession'
    BY <1>0, <1>3, <2>1, <2>2 DEF Render, OwnArriving, OwnSession, OwnDocs
  <2> QED BY <1>0, <1>3, <2>3 DEF Render, Own, OwnDocs, OwnOrphans, OwnStorage, OwnFlight
<1>4. CASE Mount
  <2>1. arriving \in Page /\ shown' = arriving.principal /\ arriving' = NoPage
    BY <1>0, <1>4 DEF Mount, PageType
  <2>2. OwnStorage' /\ active' = arriving.principal /\ UNCHANGED flight
    <3>1. CASE arriving.settings # NoPage
      <4>1. arriving.principal \in Principals /\ arriving.settings \in Settings
        BY <1>0, <1>p, <1>4, <2>1, <3>1, NothingIsNoPage DEF PageType, Mount
      <4>2. Initialize(arriving.principal, arriving.settings)
        BY <1>4, <3>1 DEF Mount
      <4>3. OnlyHas(arriving.settings, Allowed(arriving.principal))
        BY <1>0, <1>4, <3>1 DEF OwnArriving, Mount
      <4> QED BY <1>0, <4>1, <4>2, <4>3, InitializeOwn
    <3>2. CASE arriving.settings = NoPage
      <4>1. Prepare(arriving.principal)
        BY <1>4, <3>2 DEF Mount
      <4> QED BY <1>0, <1>p, <2>1, <4>1, PrepareOwn
    <3> QED BY <3>1, <3>2
  <2>3. OwnSession' /\ OwnArriving' /\ OwnFlight'
    BY <1>0, <1>4, <2>1, <2>2 DEF Mount, OwnSession, OwnArriving, OwnFlight
  <2> QED BY <1>0, <1>4, <2>2, <2>3 DEF Mount, Own, OwnDocs, OwnOrphans
<1>5. CASE QueryRead
  <2>1. /\ session # None /\ session \in Principals
        /\ arriving' = [principal |-> session, settings |-> doc[session]]
    BY <1>0, <1>5 DEF QueryRead, ServerType
  <2>2. OwnArriving' /\ OwnSession'
    BY <1>0, <1>5, <2>1 DEF QueryRead, OwnArriving, OwnSession, OwnDocs
  <2> QED BY <1>0, <1>5, <2>2 DEF QueryRead, Own, OwnDocs, OwnOrphans, OwnStorage, OwnFlight
<1>6. CASE QueryArrives
  <2>1. /\ arriving.settings \in Settings /\ arriving.principal \in Principals
        /\ arriving # NoPage /\ arriving.settings # NoPage
        /\ Initialize(arriving.principal, arriving.settings)
    BY <1>0, <1>6, <1>p, NothingIsNoPage DEF QueryArrives, PageType, Mounted
  <2>2. OwnStorage' /\ active' = arriving.principal /\ UNCHANGED flight
    BY <1>0, <2>1, InitializeOwn DEF OwnArriving
  <2>3. OwnSession' /\ OwnArriving' /\ OwnFlight'
    BY <1>0, <1>6, <2>1, <2>2 DEF QueryArrives, OwnSession, OwnArriving, OwnFlight
  <2> QED BY <1>0, <1>6, <2>2, <2>3 DEF QueryArrives, Own, OwnDocs, OwnOrphans
<1>7. CASE QueryFails
  <2>1. Prepare(shown) /\ shown \in Principals \cup {None} /\ arriving' = NoPage
    BY <1>0, <1>7 DEF QueryFails, PageType
  <2>2. OwnStorage' /\ active' = shown /\ UNCHANGED flight
    BY <1>0, <2>1, PrepareOwn
  <2>3. OwnSession' /\ OwnArriving' /\ OwnFlight'
    BY <1>0, <1>7, <2>1, <2>2 DEF QueryFails, OwnSession, OwnArriving, OwnFlight
  <2> QED BY <1>0, <1>7, <2>2, <2>3 DEF QueryFails, Own, OwnDocs, OwnOrphans
<1>8. ASSUME NEW k \in Keys, NEW v \in Choosable[active], Write(k, v) PROVE Own'
  <2>1. /\ cache' = [cache EXCEPT ![k] = v]
        /\ UNCHANGED <<doc, session, page, arriving, shown, owner, active, flight, orphans>>
    BY <1>8 DEF Write
  <2>2. OnlyHas(cache', IF owner = None THEN Anybody ELSE Allowed(owner))
    <3>1. v \in IF owner = None THEN Anybody ELSE Allowed(owner)
      BY <1>0 DEF OwnStorage, Anybody, Allowed
    <3>2. \A j \in Keys : cache'[j] = IF j = k THEN v ELSE cache[j]
      BY <1>0, <2>1 DEF StorageType, Settings
    <3> QED BY <1>0, <3>1, <3>2 DEF OwnStorage, OnlyHas
  <2>3. CASE active = None
    <3>1. UNCHANGED <<persisted, pending>>
      BY <1>8, <2>3 DEF Write
    <3> QED BY <1>0, <2>1, <2>2, <2>3, <3>1
          DEF Own, OwnDocs, OwnOrphans, OwnArriving, OwnStorage, OwnFlight, OwnSession
  <2>4. CASE active # None
    <3>1. /\ pending' = [pending EXCEPT ![k] = v]
          /\ unconfirmed' = [unconfirmed EXCEPT ![k] = v]
          /\ persisted' = [persisted EXCEPT ![active] = unconfirmed']
          /\ active \in Principals /\ unconfirmed = persisted[active]
      BY <1>0, <1>8, <2>4 DEF Write, ModuleType
    <3>2. v \in Allowed(active)
      BY DEF Allowed
    <3>3. \A j \in Keys : /\ pending'[j] = IF j = k THEN v ELSE pending[j]
                          /\ unconfirmed'[j] = IF j = k THEN v ELSE persisted[active][j]
      BY <1>0, <3>1 DEF ModuleType, Updates
    <3>4. OnlyHas(pending', Allowed(active)) /\ OnlyHas(unconfirmed', Allowed(active))
      BY <1>0, <2>4, <3>1, <3>2, <3>3 DEF OwnStorage, OnlyHas
    <3>5. \A p \in Principals :
            persisted'[p] = IF p = active THEN unconfirmed' ELSE persisted[p]
      BY <1>0, <3>1 DEF StorageType
    <3>6. OwnStorage'
      BY <1>0, <2>1, <2>2, <3>4, <3>5 DEF OwnStorage
    <3> QED BY <1>0, <2>1, <3>6
          DEF Own, OwnDocs, OwnOrphans, OwnArriving, OwnFlight, OwnSession
  <2> QED BY <2>3, <2>4
<1>9. CASE TimerFires \/ SignOut \/ SoftRedirect
  <2>1. (\E t : Flush(t)) /\ UNCHANGED <<storageState, active>>
    BY <1>9 DEF TimerFires, SignOut, SoftRedirect
  <2>2. OwnStorage' /\ OwnFlight'
    BY <1>0, <2>1, FlushOwn
  <2>3. OwnArriving' /\ OwnSession'
    BY <1>0, <1>9 DEF TimerFires, SignOut, SoftRedirect, OwnArriving, OwnSession
  <2> QED BY <1>0, <1>9, <2>2, <2>3
        DEF TimerFires, SignOut, SoftRedirect, Own, OwnDocs, OwnOrphans
<1>10. CASE Leave
  <2> DEFINE q == IF flight = NoRequest /\ enabled /\ pending # NoUpdates
                    THEN Request(pending) ELSE flight
  <2>1. Orphaned(q) /\ Unload /\ UNCHANGED <<doc, storageState>>
    BY <1>10 DEF Leave
  <2>2. /\ q \in Flight \cup {NoRequest}
        /\ q # NoRequest => q.by \in {None, q.of} /\ OnlyHas(q.updates, Allowed(q.of))
    <3>1. CASE flight = NoRequest /\ enabled /\ pending # NoUpdates
      <4>1. active # None /\ active \in Principals /\ OnlyHas(pending, Allowed(active))
        BY <1>0, <3>1 DEF ModuleType, OwnStorage
      <4> QED BY <1>0, <3>1, <4>1, RequestOwn, RequestType DEF ModuleType
    <3>2. CASE ~(flight = NoRequest /\ enabled /\ pending # NoUpdates)
      BY <1>0, <3>2 DEF OwnFlight, ModuleType
    <3> QED BY <3>1, <3>2
  <2> HIDE DEF q
  <2>3. OwnOrphans'
    BY <1>0, <2>1, <2>2, OrphanedOwn
  <2>4. OwnArriving' /\ OwnFlight' /\ OwnSession' /\ active' = None
    BY <2>1, UnloadOwn
  <2> QED BY <1>0, <2>1, <2>3, <2>4 DEF Own, OwnDocs, OwnStorage
<1>11. CASE SignedOut \/ SignOutFails
  <2>1. /\ Disable /\ ClearStorage /\ arriving' = NoPage
        /\ session' = session \/ session' = None
        /\ shown' \in {None, shown} /\ UNCHANGED <<doc, orphans, flight>>
    BY <1>11 DEF SignedOut, SignOutFails, Disable
  <2>2. OwnStorage'
    BY <1>0, <2>1, NothingHas DEF Disable, ClearStorage, OwnStorage
  <2>3. OwnSession'
    BY <1>0, <2>1 DEF Disable, OwnSession
  <2> QED BY <1>0, <2>1, <2>2, <2>3 DEF Own, OwnDocs, OwnOrphans, OwnArriving, OwnFlight
<1>12. CASE PatchStored \/ PatchFails \/ PatchUnauthorized
  <2>1. PICK a : flight' = [flight EXCEPT !.answer = a]
    BY <1>12 DEF PatchStored, PatchFails, PatchUnauthorized, Answer
  <2>2. flight \in Flight /\ flight # NoRequest
    BY <1>0, <1>12 DEF PatchStored, PatchFails, PatchUnauthorized, Waiting, ModuleType
  <2>3. flight'.by = flight.by /\ flight'.of = flight.of /\ flight'.updates = flight.updates
    BY <2>1, <2>2 DEF Flight
  <2>4. OwnFlight'
    BY <1>0, <2>2, <2>3 DEF OwnFlight
  <2>5. OwnDocs'
    <3>1. CASE PatchStored
      <4>1. /\ flight.by \in Principals /\ Stored(flight.by, flight.updates)
            /\ OnlyHas(flight.updates, Allowed(flight.by))
        BY <1>0, <2>2, <3>1 DEF PatchStored, Flight, OwnFlight
      <4> QED BY <1>0, <4>1, StoredOwn
    <3>2. CASE PatchFails \/ PatchUnauthorized
      BY <1>0, <3>2 DEF PatchFails, PatchUnauthorized, OwnDocs
    <3> QED BY <1>12, <3>1, <3>2
  <2>6. session' = session \/ session' = None
    BY <1>12 DEF PatchStored, PatchFails, PatchUnauthorized
  <2>7. UNCHANGED <<pageState, storageState, active, pending, orphans>>
    BY <1>12 DEF PatchStored, PatchFails, PatchUnauthorized, AwayFromServer
  <2> QED BY <1>0, <2>4, <2>5, <2>6, <2>7
        DEF Own, OwnOrphans, OwnArriving, OwnStorage, OwnSession
<1>13. CASE PatchAnswered
  BY <1>13, PatchAnsweredOwn
<1>14. ASSUME NEW q \in orphans, OrphanStored(q) \/ OrphanFails(q) PROVE Own'
  <2>1. OwnDocs'
    <3>1. CASE OrphanStored(q)
      <4>1. q.by \in Principals /\ OnlyHas(q.updates, Allowed(q.by))
        BY <1>0 DEF OrphansType, Orphan, OwnOrphans
      <4> QED BY <1>0, <3>1, <4>1, StoredOwn DEF OrphanStored
    <3>2. CASE OrphanFails(q)
      BY <1>0, <3>2 DEF OrphanFails, OwnDocs
    <3> QED BY <1>14, <3>1, <3>2
  <2>2. /\ orphans' \subseteq orphans /\ (session' = session \/ session' = None)
        /\ UNCHANGED <<pageState, storageState, active, pending, flight>>
    BY <1>14 DEF OrphanStored, OrphanFails, AwayFromServer
  <2> QED BY <1>0, <2>1, <2>2
        DEF Own, OwnOrphans, OwnArriving, OwnStorage, OwnFlight, OwnSession
<1>15. CASE Expire
  BY <1>0, <1>15 DEF Expire, AwayFromServer, Own, OwnDocs, OwnOrphans, OwnArriving,
    OwnStorage, OwnFlight, OwnSession
<1>16. ASSUME NEW p \in Principals, NEW k \in Keys, NEW v \in Elsewhere[p],
              OtherDevice(p, k, v)
       PROVE  Own'
  <2>1. doc' = [doc EXCEPT ![p][k] = v] /\ v \in Allowed(p)
    BY <1>16 DEF OtherDevice, Allowed
  <2>2. \A q \in Principals, j \in Keys :
          doc'[q][j] = IF q = p /\ j = k THEN v ELSE doc[q][j]
    BY <1>0, <2>1 DEF ServerType, Settings
  <2>3. OwnDocs'
    BY <1>0, <2>1, <2>2 DEF OwnDocs, OnlyHas
  <2> QED BY <1>0, <1>16, <2>3 DEF OtherDevice, AwayFromServer, Own, OwnOrphans, OwnArriving,
        OwnStorage, OwnFlight, OwnSession
<1> QED BY <1>1, <1>2, <1>3, <1>4, <1>5, <1>6, <1>7, <1>8, <1>9, <1>10, <1>11, <1>12, <1>13,
        <1>14, <1>15, <1>16 DEF Next

(* At the start nobody has anything. *)
LEMMA InitOwn == Init => Own
<1> SUFFICES ASSUME Init PROVE Own
  OBVIOUS
<1>1. \A p \in Principals : doc[p] = NoSettings /\ persisted[p] = NoUpdates
  BY DEF Init
<1> QED BY <1>1, NothingHas DEF Init, Own, OwnDocs, OwnOrphans, OwnArriving, OwnStorage,
      OwnFlight, OwnSession

(* No document and no page of one principal ever has what another one set  *)
(* on a page that knew whose it was (OwnAccountOnly).                      *)
THEOREM OwnAccountIsKept == Spec => []OwnAccountOnly
<1>1. Own => OwnAccountOnly
  <2> SUFFICES ASSUME Own, NEW p \in Principals, NEW k \in Keys, NEW v \in Values,
                      doc[p][k] = v \/ (Mounted /\ active = p /\ cache[k] = v)
               PROVE  v \in Choosable[p] \cup Choosable[None] \cup Elsewhere[p]
    BY DEF OwnAccountOnly
  <2>1. v \in Allowed(p)
    BY PrincipalsAreKnown DEF Own, OwnDocs, OwnStorage, OnlyHas
  <2>2. v \notin {None, Same}
    BY SentinelsAreNoValues
  <2> QED BY <2>1, <2>2 DEF Allowed, Anybody
<1> QED BY <1>1, InitTypes, NextTypes, InitOwn, NextOwn, PTL DEF Spec
=============================================================================
