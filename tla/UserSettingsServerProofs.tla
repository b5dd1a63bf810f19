---------------------- MODULE UserSettingsServerProofs ----------------------
(***************************************************************************)
(* Proofs about UserSettingsServer: its types, that a migration keeps what *)
(* no request writes, and that the handlers implement SettingsDocument.    *)
(*                                                                         *)
(* Inv says what a request may still write back.  The hash holds values    *)
(* the key has had as long as it is the document or somebody is about to   *)
(* read it for the move; what a request has read for the move was held by  *)
(* the key, and if there is still no namespace all of it was; a request    *)
(* that found the hash empty creates the namespace only if no key had a    *)
(* value.                                                                  *)
(***************************************************************************)
EXTENDS UserSettingsServer, TLAPS

HeldOrNone(k) == held[k] \cup {None}

EffectiveHeld == \A k \in Keys : Effective[k] \in held[k]

RequestOK(r) ==
  /\ pc[r] \in {"store", "patch"} => asked[r] # NoUpdates
  /\ pc[r] \in {"loadOld", "migrate", "clear", "patch"} => supported
  /\ pc[r] = "clear" => namespace
  /\ pc[r] = "loadOld" => \A k \in Keys : fallback[k] \in HeldOrNone(k)
  /\ pc[r] = "migrate" => \A k \in Keys : old[r][k] \in HeldOrNone(k)
  /\ pc[r] = "migrate" /\ ~namespace => \A k \in Keys : old[r][k] \in held[k]
  /\ pc[r] = "patch" /\ ~namespace => \A k \in Keys : None \in held[k]

Inv == TypeOK /\ EffectiveHeld /\ \A r \in Requests : RequestOK(r)

Work == {"resolve", "loadStore", "store", "loadOld", "migrate", "clear", "patch"}

-----------------------------------------------------------------------------
(* The data. *)

(* Merging updates into settings gives settings. *)
LEMMA MergeType ==
  ASSUME NEW s \in Settings, NEW u \in Updates
  PROVE  /\ Merge(s, u) \in Settings
         /\ \A k \in Keys : Merge(s, u)[k] = IF u[k] = Same THEN s[k] ELSE u[k]
BY SentinelsAreNoValues DEF Merge, Settings, Updates

(* The settings that are moved are sent as updates. *)
LEMMA AsUpdatesType ==
  ASSUME NEW s \in Settings
  PROVE  /\ AsUpdates(s) \in Updates
         /\ \A k \in Keys : AsUpdates(s)[k] = IF s[k] = None THEN Same ELSE s[k]
BY SentinelsAreNoValues DEF AsUpdates, Settings, Updates

(* The constant documents and updates are of their types. *)
LEMMA ConstantTypes ==
  /\ NoSettings \in Settings /\ NoUpdates \in Updates
  /\ \A k \in Keys : NoSettings[k] = None /\ NoUpdates[k] = Same
BY DEF NoSettings, NoUpdates, Settings, Updates

(* What a key holds only grows. *)
LEMMA RememberGrows ==
  ASSUME TypeOK, Effective' \in Settings, NEW u \in Updates, Remember(u)
  PROVE  /\ held' \in [Keys -> SUBSET (Values \cup {None})]
         /\ \A k \in Keys : held'[k] = held[k] \cup {Effective'[k]} \cup ({u[k]} \ {Same})
BY DEF TypeOK, Remember, Settings, Updates

-----------------------------------------------------------------------------
(* Inv is inductive. *)

(* Inv holds at the start. *)
LEMMA InitInv == Init => Inv
BY ConstantTypes DEF Init, Inv, TypeOK, EffectiveHeld, RequestOK, Effective, Settings, Labels, HeldOrNone

(* A step of one request that only reads the stores keeps Inv. *)
LEMMA ReadStep ==
  ASSUME Inv, NEW r \in Requests, NEW l \in Labels, Goto(r, l), UNCHANGED Stores,
         asked' \in [Requests -> Updates], old' \in [Requests -> Settings],
         reply' \in [Requests -> Settings], RequestOK(r)',
         \A q \in Requests \ {r} : asked'[q] = asked[q] /\ old'[q] = old[q]
  PROVE  Inv'
<1>1. pc' \in [Requests -> Labels] /\ \A q \in Requests \ {r} : pc'[q] = pc[q]
  BY DEF Goto, Inv, TypeOK
<1>2. TypeOK'
  BY <1>1 DEF Inv, TypeOK, Stores
<1>3. EffectiveHeld'
  BY DEF Inv, EffectiveHeld, Effective, Stores
<1>4. ASSUME NEW q \in Requests \ {r} PROVE RequestOK(q)'
  BY <1>1, <1>4 DEF Inv, RequestOK, HeldOrNone, Stores
<1> QED BY <1>2, <1>3, <1>4 DEF Inv

(* Begin, Resolve, LoadStore, LoadOld, Fail and Reply keep Inv. *)
LEMMA ReadersInv ==
  ASSUME Inv, NEW r \in Requests,
         \/ \E u \in Sendable : Begin(r, u)
         \/ Resolve(r) \/ LoadStore(r) \/ LoadOld(r) \/ Fail(r) \/ Reply(r)
  PROVE  Inv'
<1> USE ConstantTypes
<1>0. TypeOK BY DEF Inv
<1>1. CASE \E u \in Sendable : Begin(r, u)
  <2>1. PICK u \in Sendable : Begin(r, u) BY <1>1
  <2>2. Goto(r, "resolve") /\ "resolve" \in Labels /\ pc'[r] = "resolve"
    BY <2>1, <1>0 DEF Begin, Goto, TypeOK, Labels
  <2>3. asked' \in [Requests -> Updates] /\ \A q \in Requests \ {r} : asked'[q] = asked[q]
    BY <2>1, <1>0, SendableAreUpdates DEF Begin, TypeOK
  <2>4. UNCHANGED <<Stores, old, reply>> BY <2>1 DEF Begin
  <2>5. RequestOK(r)' BY <2>2 DEF RequestOK
  <2> QED BY <2>2, <2>3, <2>4, <2>5, ReadStep, <1>0 DEF TypeOK
<1>2. CASE Resolve(r)
  <2>1. PICK l \in {"loadStore", "loadOld", "ok", "patch"} :
          /\ Goto(r, l)
          /\ l = "loadOld" => ~namespace /\ supported
          /\ l = "patch" => namespace /\ supported /\ ~IsGet(r)
    BY <1>2 DEF Resolve
  <2>2. l \in Labels /\ pc'[r] = l BY <2>1, <1>0 DEF Goto, TypeOK, Labels
  <2>3. reply' \in [Requests -> Settings] BY <1>2, <1>0 DEF Resolve, TypeOK
  <2>4. UNCHANGED <<Stores, asked, old>> BY <1>2 DEF Resolve
  <2>5. RequestOK(r)'
    BY <2>1, <2>2, <2>4 DEF RequestOK, Stores, IsGet, Inv, EffectiveHeld, Effective, HeldOrNone
  <2> QED BY <2>1, <2>2, <2>3, <2>4, <2>5, ReadStep, <1>0 DEF TypeOK
<1>3. CASE LoadStore(r)
  <2>1. PICK l \in {"ok", "store"} : Goto(r, l) /\ (l = "store" => ~IsGet(r))
    BY <1>3 DEF LoadStore
  <2>2. l \in Labels /\ pc'[r] = l BY <2>1, <1>0 DEF Goto, TypeOK, Labels
  <2>3. reply' \in [Requests -> Settings] BY <1>3, <1>0 DEF LoadStore, TypeOK
  <2>4. UNCHANGED <<Stores, asked, old>> BY <1>3 DEF LoadStore
  <2>5. RequestOK(r)' BY <2>1, <2>2, <2>4 DEF RequestOK, IsGet
  <2> QED BY <2>1, <2>2, <2>3, <2>4, <2>5, ReadStep, <1>0 DEF TypeOK
<1>4. CASE LoadOld(r)
  <2>0. /\ pc[r] = "loadOld" /\ UNCHANGED <<Stores, asked, reply>>
        /\ supported /\ \A k \in Keys : fallback[k] \in HeldOrNone(k)
        /\ ~namespace => \A k \in Keys : fallback[k] \in held[k]
    BY <1>4 DEF LoadOld, Inv, RequestOK, EffectiveHeld, Effective
  <2>1. CASE fallback # NoSettings
    <3>1. Goto(r, "migrate") /\ old' = [old EXCEPT ![r] = fallback]
      BY <2>1, <1>4 DEF LoadOld
    <3>2. "migrate" \in Labels /\ pc'[r] = "migrate" /\ old'[r] = fallback
      BY <3>1, <1>0 DEF Goto, TypeOK, Labels
    <3>3. old' \in [Requests -> Settings] /\ \A q \in Requests \ {r} : old'[q] = old[q]
      BY <3>1, <1>0 DEF TypeOK
    <3>4. RequestOK(r)' BY <2>0, <3>2 DEF RequestOK, HeldOrNone, Stores
    <3> QED BY <2>0, <3>1, <3>2, <3>3, <3>4, ReadStep, <1>0 DEF TypeOK
  <2>2. CASE fallback = NoSettings
    <3>1. PICK l \in {"ok", "patch"} : Goto(r, l) /\ (l = "patch" => ~IsGet(r)) /\ UNCHANGED old
      BY <2>2, <1>4 DEF LoadOld
    <3>2. l \in Labels /\ pc'[r] = l BY <3>1, <1>0 DEF Goto, TypeOK, Labels
    <3>3. RequestOK(r)' BY <2>0, <2>2, <3>1, <3>2 DEF RequestOK, Stores, IsGet
    <3> QED BY <2>0, <3>1, <3>2, <3>3, ReadStep, <1>0 DEF TypeOK
  <2> QED BY <2>1, <2>2
<1>5. CASE Fail(r)
  <2>1. "error" \in Labels /\ pc'[r] = "error" BY <1>5, <1>0 DEF Fail, Goto, TypeOK, Labels
  <2>2. RequestOK(r)' BY <2>1 DEF RequestOK
  <2> QED BY <1>5, <2>1, <2>2, ReadStep, <1>0 DEF Fail, TypeOK
<1>6. CASE Reply(r)
  <2>1. "idle" \in Labels /\ pc'[r] = "idle" BY <1>6, <1>0 DEF Reply, Goto, TypeOK, Labels
  <2>2. RequestOK(r)' BY <2>1 DEF RequestOK
  <2>3. /\ asked' \in [Requests -> Updates] /\ old' \in [Requests -> Settings]
        /\ reply' \in [Requests -> Settings]
        /\ \A q \in Requests \ {r} : asked'[q] = asked[q] /\ old'[q] = old[q]
    BY <1>6, <1>0 DEF Reply, TypeOK
  <2> QED BY <1>6, <2>1, <2>2, <2>3, ReadStep DEF Reply
<1> QED BY <1>1, <1>2, <1>3, <1>4, <1>5, <1>6

(* A step of r that writes keeps the other requests' parts of Inv, as long *)
(* as keys only gain values and neither namespace nor endpoint goes away.  *)
LEMMA OthersKeep ==
  ASSUME Inv, NEW r \in Requests, NEW q \in Requests \ {r},
         pc'[q] = pc[q], asked'[q] = asked[q], old'[q] = old[q],
         namespace => namespace', supported => supported',
         \A k \in Keys : held[k] \subseteq held'[k],
         \A k \in Keys : \/ fallback'[k] = fallback[k]
                         \/ fallback'[k] \in held'[k] \cup {None}
  PROVE  RequestOK(q)'
<1>1. RequestOK(q) BY DEF Inv
<1>2. pc[q] = "loadOld" => \A k \in Keys : fallback'[k] \in held'[k] \cup {None}
  BY <1>1 DEF RequestOK, HeldOrNone
<1> QED BY <1>1, <1>2 DEF RequestOK, HeldOrNone

(* A step of r that writes keeps Inv if it keeps the types, what the       *)
(* document shows is held, and r's own part.                               *)
LEMMA WriteStep ==
  ASSUME Inv, NEW r \in Requests, NEW l \in Labels, Goto(r, l),
         UNCHANGED <<supported, asked, old>>,
         namespace' \in BOOLEAN, namespace => namespace', namespace' => supported,
         backend' \in Settings, ~namespace' => backend' = NoSettings,
         fallback' \in Settings, reply' \in [Requests -> Settings],
         held' \in [Keys -> SUBSET (Values \cup {None})],
         \A k \in Keys : held[k] \subseteq held'[k] /\ Effective'[k] \in held'[k],
         \A k \in Keys : \/ fallback'[k] = fallback[k]
                         \/ fallback'[k] \in held'[k] \cup {None},
         RequestOK(r)'
  PROVE  Inv'
<1>1. pc' \in [Requests -> Labels] /\ \A q \in Requests \ {r} : pc'[q] = pc[q]
  BY DEF Goto, Inv, TypeOK
<1>2. TypeOK' BY <1>1 DEF Inv, TypeOK
<1>3. EffectiveHeld' BY DEF EffectiveHeld
<1>4. ASSUME NEW q \in Requests \ {r} PROVE RequestOK(q)'
  BY <1>1, OthersKeep
<1> QED BY <1>2, <1>3, <1>4 DEF Inv

(* PatchStore keeps Inv. *)
LEMMA PatchStoreInv ==
  ASSUME Inv, NEW r \in Requests, PatchStore(r)
  PROVE  Inv'
<1>0. TypeOK /\ pc[r] = "store" BY DEF Inv, PatchStore
<1>1. UNCHANGED <<supported, namespace, backend, asked, old, reply>> BY DEF PatchStore
<1>2. CASE Size(Merge(fallback, asked[r])) > MaxSettings
  <2>1. Goto(r, "error") /\ UNCHANGED Stores BY <1>1, <1>2 DEF PatchStore, Stores
  <2>2. "error" \in Labels /\ pc'[r] = "error" BY <2>1, <1>0 DEF Goto, TypeOK, Labels
  <2>3. RequestOK(r)' BY <2>2 DEF RequestOK
  <2> QED BY <1>0, <1>1, <2>1, <2>2, <2>3, ReadStep DEF TypeOK
<1>3. CASE ~(Size(Merge(fallback, asked[r])) > MaxSettings)
  <2>1. fallback' = Merge(fallback, asked[r]) /\ Remember(asked[r])
    BY <1>3 DEF PatchStore
  <2>2. PICK l \in {"ok", "error"} : Goto(r, l) BY <1>3 DEF PatchStore
  <2>3. l \in Labels /\ pc'[r] = l BY <2>2, <1>0 DEF Goto, TypeOK, Labels
  <2>4. /\ fallback' \in Settings
        /\ \A k \in Keys : fallback'[k] = IF asked[r][k] = Same THEN fallback[k]
                                                            ELSE asked[r][k]
    BY <2>1, <1>0, MergeType DEF TypeOK
  <2>5. Effective' \in Settings BY <2>4, <1>0, <1>1 DEF Effective, TypeOK
  <2>6. /\ held' \in [Keys -> SUBSET (Values \cup {None})]
        /\ \A k \in Keys :
             held'[k] = held[k] \cup {Effective'[k]} \cup ({asked[r][k]} \ {Same})
    BY <2>1, <2>5, <1>0, RememberGrows DEF TypeOK
  <2>7. ASSUME NEW k \in Keys
        PROVE  fallback'[k] = fallback[k] \/ fallback'[k] \in held'[k]
    BY <2>4, <2>6
  <2>8. RequestOK(r)' BY <2>3 DEF RequestOK
  <2>9. \A k \in Keys : held[k] \subseteq held'[k] /\ Effective'[k] \in held'[k]
    BY <2>6
  <2> QED BY <1>0, <1>1, <2>2, <2>3, <2>4, <2>6, <2>7, <2>8, <2>9, WriteStep DEF TypeOK
<1> QED BY <1>2, <1>3

(* Migrate keeps Inv. *)
LEMMA MigrateInv ==
  ASSUME Inv, NEW r \in Requests, Migrate(r)
  PROVE  Inv'
<1>0. TypeOK /\ pc[r] = "migrate" /\ supported BY DEF Inv, Migrate, RequestOK
<1>1. namespace' = TRUE /\ UNCHANGED <<supported, fallback, asked, old>> BY DEF Migrate
<1>2. PICK l \in {"clear", "error"} : Goto(r, l) BY DEF Migrate
<1>3. l \in Labels /\ pc'[r] = l BY <1>2, <1>0 DEF Goto, TypeOK, Labels
<1>4. backend' \in Settings
  BY <1>0, AsUpdatesType, MergeType DEF Migrate, TypeOK
<1>5. Effective' \in Settings BY <1>1, <1>4 DEF Effective
<1>6. /\ held' \in [Keys -> SUBSET (Values \cup {None})]
      /\ \A k \in Keys :
           held'[k] = held[k] \cup {Effective'[k]} \cup ({NoUpdates[k]} \ {Same})
  BY <1>0, <1>5, RememberGrows, ConstantTypes DEF Migrate
<1>7. reply' \in [Requests -> Settings] BY <1>0, <1>4 DEF Migrate, TypeOK
<1>8. RequestOK(r)' BY <1>0, <1>1, <1>3 DEF RequestOK
<1>9. \A k \in Keys : held[k] \subseteq held'[k] /\ Effective'[k] \in held'[k]
  BY <1>6
<1> QED BY <1>0, <1>1, <1>2, <1>3, <1>4, <1>6, <1>7, <1>8, <1>9, WriteStep DEF TypeOK

(* Clear keeps Inv. *)
LEMMA ClearInv ==
  ASSUME Inv, NEW r \in Requests, Clear(r)
  PROVE  Inv'
<1>0. TypeOK /\ pc[r] = "clear" /\ namespace /\ supported
  BY DEF Inv, Clear, RequestOK
<1>1. UNCHANGED <<supported, namespace, backend, asked, old, reply, held>> BY DEF Clear
<1>2. PICK l \in {"error", "ok", "patch"} : Goto(r, l) /\ (l = "patch" => ~IsGet(r))
  BY DEF Clear
<1>3. l \in Labels /\ pc'[r] = l BY <1>2, <1>0 DEF Goto, TypeOK, Labels
<1>4. /\ fallback' \in Settings
      /\ \A k \in Keys : fallback'[k] = IF old[r][k] = None THEN fallback[k] ELSE None
  BY <1>0 DEF Clear, TypeOK, Settings
<1>5. RequestOK(r)' BY <1>0, <1>1, <1>2, <1>3 DEF RequestOK, IsGet
<1>6. \A k \in Keys : held[k] \subseteq held'[k] /\ Effective'[k] \in held'[k]
  BY <1>0, <1>1 DEF Inv, EffectiveHeld, Effective
<1>7. /\ namespace' \in BOOLEAN /\ namespace' => supported
      /\ backend' \in Settings /\ (~namespace' => backend' = NoSettings)
      /\ reply' \in [Requests -> Settings]
      /\ held' \in [Keys -> SUBSET (Values \cup {None})]
  BY <1>0, <1>1 DEF TypeOK
<1>8. \A k \in Keys : fallback'[k] = fallback[k] \/ fallback'[k] \in held'[k] \cup {None}
  BY <1>4
<1> QED BY <1>0, <1>1, <1>2, <1>3, <1>4, <1>5, <1>6, <1>7, <1>8, WriteStep

(* PatchBackend keeps Inv. *)
LEMMA PatchBackendInv ==
  ASSUME Inv, NEW r \in Requests, PatchBackend(r)
  PROVE  Inv'
<1>0. TypeOK /\ pc[r] = "patch" /\ supported BY DEF Inv, PatchBackend, RequestOK
<1>1. namespace' = TRUE /\ UNCHANGED <<supported, fallback, asked, old, reply>>
  BY DEF PatchBackend
<1>2. PICK l \in {"ok", "error"} : Goto(r, l) BY DEF PatchBackend
<1>3. l \in Labels /\ pc'[r] = l BY <1>2, <1>0 DEF Goto, TypeOK, Labels
<1>4. backend' \in Settings BY <1>0, MergeType DEF PatchBackend, TypeOK
<1>5. Effective' \in Settings BY <1>1, <1>4 DEF Effective
<1>6. /\ held' \in [Keys -> SUBSET (Values \cup {None})]
      /\ \A k \in Keys :
           held'[k] = held[k] \cup {Effective'[k]} \cup ({asked[r][k]} \ {Same})
  BY <1>0, <1>5, RememberGrows DEF PatchBackend, TypeOK
<1>7. RequestOK(r)' BY <1>3 DEF RequestOK
<1>8. \A k \in Keys : held[k] \subseteq held'[k] /\ Effective'[k] \in held'[k]
  BY <1>6
<1> QED BY <1>0, <1>1, <1>2, <1>3, <1>4, <1>6, <1>7, <1>8, WriteStep DEF TypeOK

(* Upgrade keeps Inv. *)
LEMMA UpgradeInv ==
  ASSUME Inv, Upgrade
  PROVE  Inv'
<1>1. TypeOK' BY DEF Inv, TypeOK, Upgrade
<1>2. EffectiveHeld' BY DEF Inv, EffectiveHeld, Effective, Upgrade
<1>3. ASSUME NEW q \in Requests PROVE RequestOK(q)'
  BY DEF Inv, RequestOK, HeldOrNone, Upgrade
<1> QED BY <1>1, <1>2, <1>3 DEF Inv

(* Every step keeps Inv. *)
LEMMA NextInv == Inv /\ [Next]_serverVars => Inv'
<1> SUFFICES ASSUME Inv, [Next]_serverVars PROVE Inv' OBVIOUS
<1>1. CASE UNCHANGED serverVars
  <2>1. TypeOK' BY <1>1 DEF Inv, TypeOK, serverVars
  <2>2. EffectiveHeld' BY <1>1 DEF Inv, EffectiveHeld, Effective, serverVars
  <2>3. ASSUME NEW q \in Requests PROVE RequestOK(q)'
    BY <1>1 DEF Inv, RequestOK, HeldOrNone, serverVars
  <2> QED BY <2>1, <2>2, <2>3 DEF Inv
<1>2. CASE Upgrade BY <1>2, UpgradeInv
<1>3. ASSUME NEW r \in Requests, RequestStep(r) PROVE Inv'
  <2>1. CASE PatchStore(r) BY <2>1, PatchStoreInv
  <2>2. CASE Migrate(r) BY <2>2, MigrateInv
  <2>3. CASE Clear(r) BY <2>3, ClearInv
  <2>4. CASE PatchBackend(r) BY <2>4, PatchBackendInv
  <2>5. CASE ~(PatchStore(r) \/ Migrate(r) \/ Clear(r) \/ PatchBackend(r))
    BY <1>3, <2>5, ReadersInv DEF RequestStep
  <2> QED BY <2>1, <2>2, <2>3, <2>4, <2>5
<1> QED BY <1>1, <1>2, <1>3 DEF Next

(* In every reachable state each variable has its type, and the backend    *)
(* holds a namespace of the console only if it has the endpoint.           *)
THEOREM TypeCorrect == Spec => []TypeOK
<1>1. Inv => TypeOK BY DEF Inv
<1> QED BY InitInv, NextInv, <1>1, PTL DEF Spec

-----------------------------------------------------------------------------
(* Keys that no request writes. *)

Unwritten(k) == \A u \in Sendable : u[k] = Same

KeptInv ==
  /\ Inv
  /\ \A r \in Requests : asked[r] \in Sendable \cup {NoUpdates}
  /\ UnwrittenKeysKept

(* A step that writes keeps the document's value of an unwritten key, and  *)
(* what it held.                                                           *)
LEMMA WritersKeep ==
  ASSUME KeptInv, NEW r \in Requests, NEW k \in Keys, Unwritten(k),
         PatchStore(r) \/ Migrate(r) \/ Clear(r) \/ PatchBackend(r)
  PROVE  held'[k] = {Effective'[k]}
<1>0. /\ TypeOK /\ RequestOK(r) /\ Effective[k] \in held[k]
      /\ held[k] = {Effective[k]} /\ asked[r][k] = Same
      /\ asked[r] \in Updates /\ old[r] \in Settings
  BY ConstantTypes DEF KeptInv, Inv, TypeOK, EffectiveHeld, UnwrittenKeysKept, Unwritten
<1>1. CASE PatchStore(r)
  <2>1. UNCHANGED <<namespace, backend>> BY <1>1 DEF PatchStore
  <2>2. CASE UNCHANGED <<fallback, held>> BY <1>0, <2>1, <2>2 DEF Effective
  <2>3. CASE fallback' = Merge(fallback, asked[r]) /\ Remember(asked[r])
    <3>1. fallback'[k] = fallback[k] BY <1>0, <2>3, MergeType DEF TypeOK
    <3>2. held'[k] = held[k] \cup {Effective'[k]} \cup ({asked[r][k]} \ {Same})
      BY <2>3 DEF Remember
    <3> QED BY <1>0, <2>1, <3>1, <3>2 DEF Effective
  <2> QED BY <1>1, <2>2, <2>3 DEF PatchStore
<1>2. CASE Migrate(r)
  <2>1. namespace' = TRUE /\ backend' = Merge(backend, AsUpdates(old[r]))
    BY <1>2 DEF Migrate
  <2>2. backend'[k] = IF old[r][k] = None THEN backend[k] ELSE old[r][k]
    <3>1. /\ AsUpdates(old[r]) \in Updates
          /\ AsUpdates(old[r])[k] = IF old[r][k] = None THEN Same ELSE old[r][k]
      BY <1>0, AsUpdatesType
    <3>2. backend'[k] = IF AsUpdates(old[r])[k] = Same THEN backend[k] ELSE AsUpdates(old[r])[k]
      BY <1>0, <2>1, <3>1, MergeType DEF TypeOK
    <3>3. old[r][k] # Same BY <1>0, SentinelsAreNoValues DEF Settings
    <3> QED BY <3>1, <3>2, <3>3
  <2>3. held'[k] = held[k] \cup {Effective'[k]} \cup ({NoUpdates[k]} \ {Same})
    BY <1>2 DEF Migrate, Remember
  <2>4. CASE namespace
    BY <1>0, <1>2, <2>1, <2>2, <2>3, <2>4, ConstantTypes
       DEF Effective, RequestOK, HeldOrNone, Migrate
  <2>5. CASE ~namespace
    <3>1. old[r][k] = Effective[k] /\ backend[k] = None
      BY <1>0, <1>2, <2>5, ConstantTypes DEF RequestOK, Migrate, TypeOK
    <3> QED BY <1>0, <2>1, <2>2, <2>3, <3>1, ConstantTypes DEF Effective
  <2> QED BY <2>4, <2>5
<1>3. CASE Clear(r) BY <1>0, <1>3 DEF Clear, RequestOK, Effective
<1>4. CASE PatchBackend(r)
  <2>1. namespace' = TRUE /\ backend' = Merge(backend, asked[r])
    BY <1>4 DEF PatchBackend
  <2>2. backend'[k] = backend[k] BY <1>0, <2>1, MergeType DEF TypeOK
  <2>3. held'[k] = held[k] \cup {Effective'[k]} \cup ({asked[r][k]} \ {Same})
    BY <1>4 DEF PatchBackend, Remember
  <2>4. ~namespace => backend[k] = None /\ Effective[k] = None
    BY <1>0, <1>4, ConstantTypes DEF PatchBackend, RequestOK, TypeOK
  <2> QED BY <1>0, <2>1, <2>2, <2>3, <2>4 DEF Effective
<1> QED BY <1>1, <1>2, <1>3, <1>4

(* Every step keeps the unwritten keys. *)
LEMMA KeptStep == KeptInv /\ [Next]_serverVars => KeptInv'
<1> SUFFICES ASSUME KeptInv, [Next]_serverVars PROVE KeptInv' OBVIOUS
<1>0. Inv' /\ TypeOK BY NextInv DEF KeptInv, Inv
<1>1. ASSUME UNCHANGED <<namespace, backend, fallback, held>> PROVE UnwrittenKeysKept'
  BY <1>1 DEF KeptInv, UnwrittenKeysKept, Effective
<1>2. ASSUME UNCHANGED asked
      PROVE  \A q \in Requests : asked'[q] \in Sendable \cup {NoUpdates}
  BY <1>2 DEF KeptInv
<1>3. CASE UNCHANGED serverVars BY <1>0, <1>1, <1>2, <1>3 DEF KeptInv, serverVars
<1>4. CASE Upgrade BY <1>0, <1>1, <1>2, <1>4 DEF KeptInv, Upgrade
<1>5. ASSUME NEW r \in Requests, RequestStep(r) PROVE KeptInv'
  <2>1. CASE PatchStore(r) \/ Migrate(r) \/ Clear(r) \/ PatchBackend(r)
    <3>1. UnwrittenKeysKept'
      BY <2>1, WritersKeep DEF UnwrittenKeysKept, Unwritten
    <3>2. UNCHANGED asked BY <2>1 DEF PatchStore, Migrate, Clear, PatchBackend
    <3> QED BY <1>0, <1>2, <3>1, <3>2 DEF KeptInv
  <2>2. CASE \E u \in Sendable : Begin(r, u)
    <3>1. PICK u \in Sendable : Begin(r, u) BY <2>2
    <3>2. \A q \in Requests : asked'[q] \in Sendable \cup {NoUpdates}
      BY <1>0, <3>1 DEF KeptInv, Begin, TypeOK
    <3> QED BY <1>0, <1>1, <3>1, <3>2 DEF KeptInv, Begin, Stores
  <2>3. CASE Reply(r)
    <3>1. \A q \in Requests : asked'[q] \in Sendable \cup {NoUpdates}
      BY <1>0, <2>3 DEF KeptInv, Reply, TypeOK
    <3> QED BY <1>0, <1>1, <2>3, <3>1 DEF KeptInv, Reply, Stores
  <2>4. CASE Resolve(r) \/ LoadStore(r) \/ LoadOld(r) \/ Fail(r)
    <3>1. UNCHANGED <<asked, namespace, backend, fallback, held>>
      BY <2>4 DEF Resolve, LoadStore, LoadOld, Fail, Stores
    <3> QED BY <1>0, <1>1, <1>2, <3>1 DEF KeptInv
  <2> QED BY <1>5, <2>1, <2>2, <2>3, <2>4 DEF RequestStep
<1> QED BY <1>3, <1>4, <1>5 DEF Next

(* A migration loses and invents nothing: a key that no request writes     *)
(* keeps its value through the upgrade, whatever fails or runs twice.      *)
THEOREM UnwrittenKeysAreKept == Spec => []UnwrittenKeysKept
<1>1. Init => KeptInv
  <2> SUFFICES ASSUME Init PROVE KeptInv OBVIOUS
  <2>1. \A r \in Requests : asked[r] \in Sendable \cup {NoUpdates} BY DEF Init
  <2>2. UnwrittenKeysKept BY DEF Init, UnwrittenKeysKept
  <2> QED BY <2>1, <2>2, InitInv DEF KeptInv
<1>2. KeptInv => UnwrittenKeysKept BY DEF KeptInv
<1> QED BY <1>1, KeptStep, <1>2, PTL DEF Spec

-----------------------------------------------------------------------------
(* The handlers implement SettingsDocument. *)

Calls == [r \in Requests |-> Call(r)]

Looking == {"loadStore", "store", "loadOld", "migrate", "clear"}

CallOf(label) == IF label \in {"idle", "ok", "error"} THEN label ELSE "open"

(* The instance has the data of this module. *)
LEMMA DocData ==
  /\ Doc!Settings = Settings /\ Doc!Updates = Updates
  /\ Doc!NoSettings = NoSettings /\ Doc!NoUpdates = NoUpdates
  /\ \A s, u : Doc!Merge(s, u) = Merge(s, u)
BY DEF Doc!Settings, Doc!Updates, Doc!NoSettings, Doc!NoUpdates, Doc!Merge,
       Settings, Updates, NoSettings, NoUpdates, Merge

(* What a step of r shows of its position.                                 *)
LEMMA CallStep ==
  ASSUME TypeOK, NEW r \in Requests, NEW l \in Labels, Goto(r, l)
  PROVE  /\ Calls' = [Calls EXCEPT ![r] = CallOf(l)]
         /\ Calls[r] = CallOf(pc[r])
         /\ LookedBefore(r)' <=> l \in Looking
         /\ \A q \in Requests \ {r} : LookedBefore(q)' <=> LookedBefore(q)
<1>1. pc'[r] = l /\ \A q \in Requests \ {r} : pc'[q] = pc[q]
  BY DEF TypeOK, Goto
<1>2. Calls' = [q \in Requests |-> CallOf(pc'[q])] /\ Calls = [q \in Requests |-> CallOf(pc[q])]
  BY DEF Calls, Call, CallOf
<1>3. Calls' = [Calls EXCEPT ![r] = CallOf(l)] BY <1>1, <1>2
<1>4. Calls[r] = CallOf(pc[r]) BY <1>2
<1>5. LookedBefore(r)' <=> l \in Looking BY <1>1 DEF LookedBefore, Looking
<1>6. \A q \in Requests \ {r} : LookedBefore(q)' <=> LookedBefore(q)
  BY <1>1 DEF LookedBefore
<1> QED BY <1>3, <1>4, <1>5, <1>6

(* A settled document stays settled, and a step that reads no further back *)
(* settles nothing else.                                                   *)
LEMMA SettledStep ==
  ASSUME TypeOK, TypeOK', NEW r \in Requests, NEW l \in Labels, Goto(r, l),
         namespace => namespace', namespace => l \notin Looking \/ LookedBefore(r)
  PROVE  /\ Settled \in BOOLEAN /\ Settled' \in BOOLEAN
         /\ Settled' \in {Settled, TRUE}
         /\ LookedBefore(r) => ~Settled
         /\ ~namespace => ~Settled
<1>1. Settled \in BOOLEAN /\ Settled' \in BOOLEAN BY DEF Settled, TypeOK
<1>2. Settled => Settled' BY CallStep DEF Settled
<1>3. (LookedBefore(r) => ~Settled) /\ (~namespace => ~Settled) BY DEF Settled
<1> QED BY <1>1, <1>2, <1>3

(* The document with nothing merged into it, and what it then holds.       *)
LEMMA NothingMerged ==
  ASSUME Inv
  PROVE  /\ Effective \in Settings
         /\ Merge(Effective, NoUpdates) = Effective
         /\ [k \in Keys |-> held[k] \cup {Effective[k]}] = held
<1>1. Effective \in Settings BY DEF Inv, TypeOK, Effective
<1>2. Merge(Effective, NoUpdates) = Effective BY <1>1 DEF Merge, NoUpdates, Settings
<1>3. \A k \in Keys : held[k] \cup {Effective[k]} = held[k]
  BY DEF Inv, EffectiveHeld
<1>4. held = [k \in Keys |-> held[k]] BY DEF Inv, TypeOK
<1> QED BY <1>1, <1>2, <1>3, <1>4

(* A step that changes no store and leads nowhere the document could be    *)
(* answered from is unseen, or an error.                                   *)
LEMMA UnseenStep ==
  ASSUME Inv, Inv', NEW r \in Requests, NEW l \in Labels, Goto(r, l),
         Calls[r] = "open", CallOf(l) \in {"open", "error"},
         Effective' = Effective, UNCHANGED <<asked, reply, held>>,
         namespace => namespace', namespace => l \notin Looking \/ LookedBefore(r)
  PROVE  Doc!Refuse(r)
<1>1. TypeOK /\ TypeOK' BY DEF Inv
<1>2. Calls' = [Calls EXCEPT ![r] = CallOf(l)] BY <1>1, CallStep
<1>3. Settled' \in {Settled, TRUE} BY <1>1, SettledStep
<1> QED BY <1>2, <1>3 DEF Doc!Refuse, Doc!Answer, Calls

(* Begin is Invoke. *)
LEMMA BeginRefines ==
  ASSUME Inv, Inv', NEW r \in Requests, NEW u \in Sendable, Begin(r, u)
  PROVE  Doc!Next
<1>0. TypeOK /\ TypeOK' BY DEF Inv
<1>1. /\ pc[r] = "idle" /\ Goto(r, "resolve") /\ "resolve" \in Labels
      /\ UNCHANGED <<Stores, old, reply>> /\ asked' = [asked EXCEPT ![r] = u]
  BY DEF Begin, Labels
<1>2. Calls' = [Calls EXCEPT ![r] = "open"] /\ Calls[r] = "idle"
  BY <1>0, <1>1, CallStep DEF CallOf
<1>3. Settled' = Settled
  <2>1. \A q \in Requests : LookedBefore(q)' <=> LookedBefore(q)
    BY <1>0, <1>1, CallStep DEF Looking, LookedBefore
  <2>2. Settled' <=> Settled BY <1>1, <2>1 DEF Settled, Stores
  <2> QED BY <2>2, <1>0 DEF Settled, TypeOK
<1>4. Effective' = Effective /\ held' = held BY <1>1 DEF Stores, Effective
<1>5. Doc!Invoke(r, u)
  BY <1>1, <1>2, <1>3, <1>4 DEF Doc!Invoke, Calls
<1>6. u \in Doc!Updates BY SendableAreUpdates, DocData
<1> QED BY <1>5, <1>6 DEF Doc!Next

(* Reply is Return. *)
LEMMA ReplyRefines ==
  ASSUME Inv, Inv', NEW r \in Requests, Reply(r)
  PROVE  Doc!Next
<1>0. TypeOK /\ TypeOK' BY DEF Inv
<1>1. /\ pc[r] \in {"ok", "error"} /\ Goto(r, "idle") /\ "idle" \in Labels
      /\ UNCHANGED Stores
      /\ asked' = [asked EXCEPT ![r] = NoUpdates]
      /\ reply' = [reply EXCEPT ![r] = NoSettings]
  BY DEF Reply, Labels
<1>2. Calls' = [Calls EXCEPT ![r] = "idle"] /\ Calls[r] \in {"ok", "error"}
  BY <1>0, <1>1, CallStep DEF CallOf
<1>3. Settled' = Settled
  <2>1. \A q \in Requests : LookedBefore(q)' <=> LookedBefore(q)
    BY <1>0, <1>1, CallStep DEF Looking, LookedBefore
  <2>2. Settled' <=> Settled BY <1>1, <2>1 DEF Settled, Stores
  <2> QED BY <2>2, <1>0 DEF Settled, TypeOK
<1>4. Effective' = Effective /\ held' = held BY <1>1 DEF Stores, Effective
<1>5. Doc!Return(r)
  BY <1>1, <1>2, <1>3, <1>4, DocData DEF Doc!Return, Calls
<1> QED BY <1>5 DEF Doc!Next

(* A read that is answered with the document takes effect there and then.  *)
LEMMA ReadRefines ==
  ASSUME Inv, Inv', NEW r \in Requests, Goto(r, "ok"), Calls[r] = "open",
         IsGet(r), reply' = [reply EXCEPT ![r] = Effective],
         UNCHANGED <<Stores, asked>>
  PROVE  Doc!TakeEffect(r)
<1>0. TypeOK /\ TypeOK' /\ "ok" \in Labels BY DEF Inv, Labels
<1>1. Calls' = [Calls EXCEPT ![r] = "ok"] BY <1>0, CallStep DEF CallOf
<1>2. Settled' \in {Settled, TRUE}
  BY <1>0, SettledStep DEF Stores, Looking
<1>3. Effective' = Effective /\ held' = held BY DEF Stores, Effective
<1>4. /\ Effective \in Doc!SetBack
      /\ Doc!Becomes(Doc!Merge(Effective, asked[r]))
  <2>1. Effective \in Doc!SetBack
    BY NothingMerged, DocData DEF Doc!SetBack, Inv, EffectiveHeld
  <2>2. Doc!Merge(Effective, asked[r]) = Effective
    BY NothingMerged, DocData DEF IsGet
  <2>3. Doc!Becomes(Effective) BY <1>3, NothingMerged DEF Doc!Becomes
  <2> QED BY <2>1, <2>2, <2>3
<1>5. \E s \in (IF Settled THEN {Effective} ELSE Doc!SetBack) :
        /\ Doc!Becomes(Doc!Merge(s, asked[r]))
        /\ asked[r] = Doc!NoUpdates => s = Effective
  BY <1>4
<1>6. asked[r] = Doc!NoUpdates BY DocData DEF IsGet
<1>7. \E outcome \in {"ok", "error"} :
        /\ Doc!Answer(r, outcome)
        /\ reply' = IF asked[r] = Doc!NoUpdates
                      THEN [reply EXCEPT ![r] = Effective] ELSE reply
  BY <1>1, <1>6 DEF Doc!Answer, Calls
<1> QED BY <1>2, <1>5, <1>7 DEF Doc!TakeEffect, Calls

(* Resolve answers a read with the settled or settling document, or goes   *)
(* on unseen.                                                              *)
LEMMA ResolveRefines ==
  ASSUME Inv, Inv', NEW r \in Requests, Resolve(r)
  PROVE  Doc!Next
<1>0. TypeOK /\ TypeOK' /\ pc[r] = "resolve" BY DEF Inv, Resolve
<1>1. UNCHANGED <<Stores, asked, old>> BY DEF Resolve
<1>2. CASE Goto(r, "ok") /\ IsGet(r) /\ namespace /\ reply' = [reply EXCEPT ![r] = backend]
  <2>1. "ok" \in Labels BY DEF Labels
  <2>2. Calls[r] = "open" BY <1>0, <1>2, <2>1, CallStep DEF CallOf
  <2>3. reply' = [reply EXCEPT ![r] = Effective] BY <1>2 DEF Effective
  <2>4. Doc!TakeEffect(r) BY <1>1, <1>2, <2>2, <2>3, ReadRefines
  <2> QED BY <2>4 DEF Doc!Next
<1>3. CASE \E l \in {"loadStore", "loadOld", "patch"} :
             Goto(r, l) /\ (l # "patch" => ~namespace) /\ UNCHANGED reply
  <2>1. PICK l \in {"loadStore", "loadOld", "patch"} :
             Goto(r, l) /\ (l # "patch" => ~namespace) /\ UNCHANGED reply
    BY <1>3
  <2>2. l \in Labels /\ CallOf(l) = "open" BY DEF Labels, CallOf
  <2>3. Calls[r] = "open" BY <1>0, <2>1, <2>2, CallStep DEF CallOf
  <2>4. Effective' = Effective BY <1>1 DEF Stores, Effective
  <2>5. namespace => l \notin Looking BY <2>1 DEF Looking
  <2>6. Doc!Refuse(r)
    BY <1>1, <2>1, <2>2, <2>3, <2>4, <2>5, UnseenStep DEF Stores
  <2> QED BY <2>6 DEF Doc!Next
<1> QED BY <1>0, <1>2, <1>3 DEF Resolve, TypeOK

(* A request that looked before the namespace existed can be answered "ok" *)
(* for nothing.                                                            *)
LEMMA ForfeitStep ==
  ASSUME Inv, Inv', NEW r \in Requests, Goto(r, "ok"), LookedBefore(r),
         NEW s \in Settings, reply' \in {reply, [reply EXCEPT ![r] = s]},
         Effective' = Effective, UNCHANGED asked,
         held' \in {held, Doc!Offered(r)}, namespace => namespace'
  PROVE  Doc!Forfeit(r)
<1>0. TypeOK /\ TypeOK' /\ "ok" \in Labels BY DEF Inv, Labels
<1>1. Calls' = [Calls EXCEPT ![r] = "ok"] BY <1>0, CallStep DEF CallOf
<1>2. Calls[r] = "open" BY <1>0, CallStep DEF CallOf, LookedBefore
<1>3. ~Settled /\ Settled' \in BOOLEAN BY <1>0, SettledStep DEF Looking
<1>4. s \in Doc!Settings BY DocData
<1> QED BY <1>1, <1>2, <1>3, <1>4 DEF Doc!Forfeit, Doc!Answer, Calls

(* LoadStore answers a read, with the document if the hash still is it.    *)
LEMMA LoadStoreRefines ==
  ASSUME Inv, Inv', NEW r \in Requests, LoadStore(r)
  PROVE  Doc!Next
<1>0. TypeOK /\ TypeOK' /\ pc[r] = "loadStore" /\ LookedBefore(r)
  BY DEF Inv, LoadStore, LookedBefore
<1>1. UNCHANGED <<Stores, asked, old>> /\ Effective' = Effective
  BY DEF LoadStore, Stores, Effective
<1>2. CASE IsGet(r)
  <2>1. Goto(r, "ok") /\ reply' = [reply EXCEPT ![r] = fallback] /\ "ok" \in Labels
    BY <1>2 DEF LoadStore, Labels
  <2>2. CASE namespace
    <3>1. Doc!Forfeit(r)
      BY <1>0, <1>1, <2>1, ForfeitStep DEF Stores, TypeOK
    <3> QED BY <3>1 DEF Doc!Next
  <2>3. CASE ~namespace
    <3>1. Calls[r] = "open" BY <1>0, <2>1, CallStep DEF CallOf
    <3>2. Doc!TakeEffect(r)
      BY <1>1, <1>2, <2>1, <2>3, <3>1, ReadRefines DEF Effective
    <3> QED BY <3>2 DEF Doc!Next
  <2> QED BY <2>2, <2>3
<1>3. CASE ~IsGet(r)
  <2>1. Goto(r, "store") /\ UNCHANGED reply /\ "store" \in Labels /\ CallOf("store") = "open"
    BY <1>3 DEF LoadStore, Labels, CallOf
  <2>2. Calls[r] = "open" BY <1>0, <2>1, CallStep DEF CallOf
  <2>3. Doc!Refuse(r) BY <1>0, <1>1, <2>1, <2>2, UnseenStep DEF Stores
  <2> QED BY <2>3 DEF Doc!Next
<1> QED BY <1>2, <1>3

(* PatchStore changes the document if the hash is it, else is forfeited.   *)
LEMMA PatchStoreRefines ==
  ASSUME Inv, Inv', NEW r \in Requests, PatchStore(r)
  PROVE  Doc!Next
<1>0. /\ TypeOK /\ TypeOK' /\ pc[r] = "store" /\ LookedBefore(r) /\ ~IsGet(r)
      /\ UNCHANGED <<supported, namespace, backend, asked, old, reply>>
  BY DEF Inv, PatchStore, LookedBefore, RequestOK, IsGet
<1>1. PICK l \in {"ok", "error"} : Goto(r, l) BY DEF PatchStore
<1>2. /\ l \in Labels /\ CallOf(l) = l /\ Calls[r] = "open" /\ Calls' = [Calls EXCEPT ![r] = l]
      /\ ~Settled /\ Settled' \in {Settled, TRUE} /\ Settled' \in BOOLEAN
  <2>1. l \in Labels /\ CallOf(l) = l BY DEF Labels, CallOf
  <2>2. Calls[r] = "open" /\ Calls' = [Calls EXCEPT ![r] = l]
    BY <1>0, <1>1, <2>1, CallStep DEF CallOf
  <2> QED BY <1>0, <1>1, <2>1, <2>2, SettledStep
<1>3. CASE UNCHANGED <<fallback, held>> /\ Goto(r, "error")
  <2>1. Effective' = Effective BY <1>0, <1>3 DEF Effective
  <2>2. "error" \in Labels /\ CallOf("error") = "error" BY DEF Labels, CallOf
  <2>3. Doc!Refuse(r) BY <1>0, <1>2, <1>3, <2>1, <2>2, UnseenStep
  <2> QED BY <2>3 DEF Doc!Next
<1>4. CASE fallback' = Merge(fallback, asked[r]) /\ Remember(asked[r])
  <2>0. /\ \A k \in Keys : fallback'[k] = IF asked[r][k] = Same THEN fallback[k] ELSE asked[r][k]
        /\ asked[r] # NoUpdates
    BY <1>0, <1>4, MergeType DEF TypeOK, IsGet
  <2>1. CASE namespace
    <3>1. Effective' = Effective BY <1>0, <2>1 DEF Effective
    <3>2. held' = Doc!Offered(r)
      <4>1. \A k \in Keys : held[k] \cup {Effective'[k]} = held[k]
        BY <3>1 DEF Inv, EffectiveHeld
      <4> QED BY <1>4, <4>1 DEF Remember, Doc!Offered
    <3>3. CASE l = "ok"
      <4>1. NoSettings \in Settings BY ConstantTypes
      <4>2. Doc!Forfeit(r) BY <1>0, <1>1, <3>1, <3>2, <3>3, <4>1, ForfeitStep
      <4> QED BY <4>2 DEF Doc!Next
    <3>4. CASE l = "error"
      <4>1. Doc!Refuse(r)
        BY <1>0, <1>2, <3>1, <3>2, <3>4 DEF Doc!Refuse, Doc!Answer, Calls
      <4> QED BY <4>1 DEF Doc!Next
    <3> QED BY <3>3, <3>4
  <2>2. CASE ~namespace
    <3>1. Effective' = Merge(Effective, asked[r]) BY <1>0, <1>4, <2>2 DEF Effective
    <3>2. held' = [k \in Keys |-> held[k] \cup {Effective'[k]}]
      <4>1. \A k \in Keys : held[k] \cup {Effective'[k]} \cup ({asked[r][k]} \ {Same})
                          = held[k] \cup {Effective'[k]}
        BY <1>0, <2>0, <2>2 DEF Effective
      <4> QED BY <1>4, <4>1 DEF Remember
    <3>3. Effective \in Doc!SetBack
      BY NothingMerged, DocData DEF Doc!SetBack
    <3>4. Doc!Becomes(Doc!Merge(Effective, asked[r]))
      BY <3>1, <3>2, DocData DEF Doc!Becomes
    <3>5. Doc!TakeEffect(r)
      BY <1>0, <1>2, <2>0, <3>3, <3>4, DocData DEF Doc!TakeEffect, Doc!Answer, Calls
    <3> QED BY <3>5 DEF Doc!Next
  <2> QED BY <2>1, <2>2
<1> QED BY <1>3, <1>4 DEF PatchStore

(* LoadOld goes on unseen, or answers a read for nothing.                  *)
LEMMA LoadOldRefines ==
  ASSUME Inv, Inv', NEW r \in Requests, LoadOld(r)
  PROVE  Doc!Next
<1>0. /\ TypeOK /\ TypeOK' /\ pc[r] = "loadOld" /\ LookedBefore(r)
      /\ UNCHANGED <<Stores, asked, reply>> /\ Effective' = Effective
  BY DEF Inv, LoadOld, LookedBefore, Stores, Effective
<1>1. PICK l \in {"migrate", "ok", "patch"} : Goto(r, l) BY DEF LoadOld
<1>2. CASE l = "ok"
  <2>1. NoSettings \in Settings BY ConstantTypes
  <2>2. Doc!Forfeit(r) BY <1>0, <1>1, <1>2, <2>1, ForfeitStep DEF Stores
  <2> QED BY <2>2 DEF Doc!Next
<1>3. CASE l # "ok"
  <2>1. l \in Labels /\ CallOf(l) = "open" BY <1>3 DEF Labels, CallOf
  <2>2. Calls[r] = "open" BY <1>0, <1>1, <2>1, CallStep DEF CallOf
  <2>3. Doc!Refuse(r) BY <1>0, <1>1, <2>1, <2>2, UnseenStep DEF Stores
  <2> QED BY <2>3 DEF Doc!Next
<1> QED BY <1>2, <1>3

(* Migrate sets keys back to values they have held.                        *)
LEMMA MigrateRefines ==
  ASSUME Inv, Inv', NEW r \in Requests, Migrate(r)
  PROVE  Doc!Next
<1>0. /\ TypeOK /\ TypeOK' /\ pc[r] = "migrate" /\ LookedBefore(r)
      /\ namespace' = TRUE /\ backend' = Merge(backend, AsUpdates(old[r]))
      /\ UNCHANGED asked
  BY DEF Inv, Migrate, LookedBefore
<1>1. PICK l \in {"clear", "error"} : Goto(r, l) BY DEF Migrate
<1>2. /\ l \in Labels /\ CallOf(l) \in {"open", "error"} /\ Calls[r] = "open"
      /\ Calls' = [Calls EXCEPT ![r] = CallOf(l)] /\ ~Settled /\ Settled' \in BOOLEAN
  <2>1. l \in Labels /\ CallOf(l) \in {"open", "error"} BY DEF Labels, CallOf
  <2>2. Calls[r] = "open" /\ Calls' = [Calls EXCEPT ![r] = CallOf(l)]
    BY <1>0, <1>1, <2>1, CallStep DEF CallOf
  <2> QED BY <1>0, <1>1, <2>1, <2>2, SettledStep
<1>3. Effective' = backend' /\ backend' \in Settings BY <1>0 DEF Effective, TypeOK
<1>4. \A k \in Keys : backend'[k] \in held[k] \cup {Effective[k]}
  <2> TAKE k \in Keys
  <2>1. /\ AsUpdates(old[r]) \in Updates
        /\ AsUpdates(old[r])[k] = IF old[r][k] = None THEN Same ELSE old[r][k]
        /\ old[r][k] # Same
    BY <1>0, AsUpdatesType, SentinelsAreNoValues DEF TypeOK, Settings
  <2>2. backend'[k] = IF old[r][k] = None THEN backend[k] ELSE old[r][k]
    BY <1>0, <2>1, MergeType DEF TypeOK
  <2>3. CASE namespace
    BY <1>0, <2>2, <2>3 DEF Inv, RequestOK, HeldOrNone, Effective
  <2>4. CASE ~namespace
    <3>1. old[r][k] \in held[k] /\ backend[k] = None
      BY <1>0, <2>4, ConstantTypes DEF Inv, RequestOK, TypeOK
    <3> QED BY <2>2, <3>1
  <2> QED BY <2>3, <2>4
<1>5. Effective' \in Doc!SetBack BY <1>3, <1>4, DocData DEF Doc!SetBack
<1>6. Doc!Becomes(Effective')
  <2>1. \A k \in Keys : held[k] \cup {Effective'[k]} \cup ({NoUpdates[k]} \ {Same})
                      = held[k] \cup {Effective'[k]}
    BY ConstantTypes
  <2> QED BY <2>1 DEF Migrate, Remember, Doc!Becomes
<1>7. reply' \in {reply, [reply EXCEPT ![r] = backend']} BY DEF Migrate
<1>8. backend' \in Doc!Settings BY <1>3, DocData
<1>9. Doc!Disturb(r)
  BY <1>0, <1>2, <1>5, <1>6, <1>7, <1>8 DEF Doc!Disturb, Doc!Answer, Calls
<1> QED BY <1>9 DEF Doc!Next

(* Clear goes on unseen, or answers a read for nothing.                    *)
LEMMA ClearRefines ==
  ASSUME Inv, Inv', NEW r \in Requests, Clear(r)
  PROVE  Doc!Next
<1>0. /\ TypeOK /\ TypeOK' /\ pc[r] = "clear" /\ LookedBefore(r) /\ namespace
      /\ UNCHANGED <<supported, namespace, backend, asked, old, reply, held>>
  BY DEF Inv, Clear, LookedBefore, RequestOK
<1>1. PICK l \in {"error", "ok", "patch"} : Goto(r, l) BY DEF Clear
<1>2. Effective' = Effective BY <1>0 DEF Effective
<1>3. CASE l = "ok"
  <2>1. NoSettings \in Settings BY ConstantTypes
  <2>2. Doc!Forfeit(r) BY <1>0, <1>1, <1>2, <1>3, <2>1, ForfeitStep
  <2> QED BY <2>2 DEF Doc!Next
<1>4. CASE l # "ok"
  <2>1. l \in Labels /\ CallOf(l) \in {"open", "error"} BY <1>4 DEF Labels, CallOf
  <2>2. Calls[r] = "open" BY <1>0, <1>1, <2>1, CallStep DEF CallOf
  <2>3. Doc!Refuse(r) BY <1>0, <1>1, <1>2, <2>1, <2>2, UnseenStep
  <2> QED BY <2>3 DEF Doc!Next
<1> QED BY <1>3, <1>4

(* PatchBackend takes effect.                                              *)
LEMMA PatchBackendRefines ==
  ASSUME Inv, Inv', NEW r \in Requests, PatchBackend(r)
  PROVE  Doc!Next
<1>0. /\ TypeOK /\ TypeOK' /\ pc[r] = "patch" /\ asked[r] # NoUpdates
      /\ namespace' = TRUE /\ backend' = Merge(backend, asked[r])
      /\ UNCHANGED <<supported, fallback, asked, old, reply>>
  BY DEF Inv, PatchBackend, RequestOK
<1>1. PICK l \in {"ok", "error"} : Goto(r, l) BY DEF PatchBackend
<1>2. /\ Calls[r] = "open" /\ Calls' = [Calls EXCEPT ![r] = l]
      /\ Settled' \in {Settled, TRUE} /\ (~namespace => ~Settled) /\ Settled \in BOOLEAN
  <2>1. l \in Labels /\ CallOf(l) = l /\ l \notin Looking BY DEF Labels, CallOf, Looking
  <2>2. Calls[r] = "open" /\ Calls' = [Calls EXCEPT ![r] = l]
    BY <1>0, <1>1, <2>1, CallStep DEF CallOf
  <2> QED BY <1>0, <1>1, <2>1, <2>2, SettledStep
<1>3. /\ Effective' = Merge(backend, asked[r]) /\ backend \in Settings
      /\ \A k \in Keys : Effective'[k] = IF asked[r][k] = Same THEN backend[k] ELSE asked[r][k]
  BY <1>0, MergeType DEF Effective, TypeOK
<1>4. held' = [k \in Keys |-> held[k] \cup {Effective'[k]}]
  <2>1. \A k \in Keys : held[k] \cup {Effective'[k]} \cup ({asked[r][k]} \ {Same})
                      = held[k] \cup {Effective'[k]}
    BY <1>3
  <2> QED BY <2>1 DEF PatchBackend, Remember
<1>5. backend \in (IF Settled THEN {Effective} ELSE Doc!SetBack)
  <2>1. CASE namespace
    <3>1. backend = Effective BY <2>1 DEF Effective
    <3>2. Effective \in Doc!SetBack BY NothingMerged, DocData DEF Doc!SetBack
    <3> QED BY <3>1, <3>2
  <2>2. CASE ~namespace
    <3>1. \A k \in Keys : backend[k] = None /\ None \in held[k]
      BY <1>0, <2>2, ConstantTypes DEF TypeOK, Inv, RequestOK
    <3>2. backend \in Doc!SetBack BY <1>3, <3>1, DocData DEF Doc!SetBack
    <3> QED BY <1>2, <2>2, <3>2
  <2> QED BY <2>1, <2>2
<1>6. Doc!Becomes(Doc!Merge(backend, asked[r]))
  BY <1>3, <1>4, DocData DEF Doc!Becomes
<1>7. \E s \in (IF Settled THEN {Effective} ELSE Doc!SetBack) :
        /\ Doc!Becomes(Doc!Merge(s, asked[r]))
        /\ asked[r] = Doc!NoUpdates => s = Effective
  BY <1>0, <1>5, <1>6, DocData
<1>8. \E outcome \in {"ok", "error"} :
        /\ Doc!Answer(r, outcome)
        /\ reply' = IF asked[r] = Doc!NoUpdates
                      THEN [reply EXCEPT ![r] = Effective] ELSE reply
  BY <1>0, <1>2, DocData DEF Doc!Answer, Calls
<1>9. Doc!TakeEffect(r)
  BY <1>0, <1>2, <1>7, <1>8 DEF Doc!TakeEffect, Calls
<1> QED BY <1>9 DEF Doc!Next

(* Fail is an error without effect.                                        *)
LEMMA FailRefines ==
  ASSUME Inv, Inv', NEW r \in Requests, Fail(r)
  PROVE  Doc!Next
<1>0. /\ TypeOK /\ pc[r] \notin {"idle", "ok", "error"} /\ Goto(r, "error")
      /\ UNCHANGED <<Stores, asked, old, reply>>
  BY DEF Inv, Fail
<1>1. "error" \in Labels /\ CallOf("error") = "error" /\ "error" \notin Looking
  BY DEF Labels, CallOf, Looking
<1>2. Calls[r] = "open" BY <1>0, <1>1, CallStep DEF CallOf
<1>3. Effective' = Effective BY <1>0 DEF Stores, Effective
<1>4. Doc!Refuse(r) BY <1>0, <1>1, <1>2, <1>3, UnseenStep DEF Stores
<1> QED BY <1>4 DEF Doc!Next

(* Every step is a step of the document or leaves it alone.                *)
LEMMA NextRefines ==
  ASSUME Inv, Inv', [Next]_serverVars
  PROVE  [Doc!Next]_(Doc!docVars)
<1>1. CASE UNCHANGED serverVars
  BY <1>1 DEF serverVars, Doc!docVars, Effective, Settled, Call, LookedBefore
<1>2. CASE Upgrade
  BY <1>2 DEF Upgrade, Doc!docVars, Effective, Settled, Call, LookedBefore
<1>3. ASSUME NEW r \in Requests, RequestStep(r) PROVE Doc!Next
  <2>1. CASE \E u \in Sendable : Begin(r, u) BY <2>1, BeginRefines
  <2>2. CASE Resolve(r) BY <2>2, ResolveRefines
  <2>3. CASE LoadStore(r) BY <2>3, LoadStoreRefines
  <2>4. CASE PatchStore(r) BY <2>4, PatchStoreRefines
  <2>5. CASE LoadOld(r) BY <2>5, LoadOldRefines
  <2>6. CASE Migrate(r) BY <2>6, MigrateRefines
  <2>7. CASE Clear(r) BY <2>7, ClearRefines
  <2>8. CASE PatchBackend(r) BY <2>8, PatchBackendRefines
  <2>9. CASE Fail(r) BY <2>9, FailRefines
  <2>10. CASE Reply(r) BY <2>10, ReplyRefines
  <2> QED
    BY <1>3, <2>1, <2>2, <2>3, <2>4, <2>5, <2>6, <2>7, <2>8, <2>9, <2>10 DEF RequestStep
<1> QED BY <1>1, <1>2, <1>3 DEF Next

(* The initial states are initial states of the document.                  *)
LEMMA InitRefines == Init => Doc!Init
<1> SUFFICES ASSUME Init PROVE Doc!Init OBVIOUS
<1>1. Effective \in Settings /\ Settled \in BOOLEAN
  BY DEF Init, Effective, Settled
<1>2. [r \in Requests |-> Call(r)] = [r \in Requests |-> "idle"]
  BY DEF Init, Call
<1> QED BY <1>1, <1>2, DocData DEF Init, Doc!Init

(* The handlers of the settings route implement the settings document: a   *)
(* refinement of every behaviour, for any number of requests and keys.     *)
THEOREM ImplementsDocument == Spec => Document
<1>1. Spec => []Inv BY InitInv, NextInv, PTL DEF Spec
<1>2. Inv /\ Inv' /\ [Next]_serverVars => [Doc!Next]_(Doc!docVars)
  BY NextRefines
<1> QED BY InitRefines, <1>1, <1>2, PTL DEF Spec, Document, Doc!Spec

-----------------------------------------------------------------------------
(* What the document itself gives, whoever keeps it *)

(* Once the migration is over it stays over.  From then on a request that  *)
(* is answered well has read the document as it is, or merged its updates  *)
(* into it, in that very step, and only requests' updates change it: no    *)
(* acknowledged update is lost, whatever fails.                            *)
SettledForGood ==
  [][Settled =>
       /\ Settled'
       /\ \A r \in Requests :
            Call(r) = "open" /\ Call(r)' = "ok" =>
              IF IsGet(r) THEN reply'[r] = Effective
              ELSE Effective' = Merge(Effective, asked[r])
       /\ Effective' # Effective =>
            \E r \in Requests :
              Call(r) = "open" /\ Effective' = Merge(Effective, asked[r])
    ]_serverVars

(* A request's place in the document's eyes, before and after a step. *)
LEMMA CallsAre ==
  ASSUME NEW r \in Requests
  PROVE  Calls[r] = Call(r) /\ Calls'[r] = Call(r)'
BY DEF Calls

(* The document is settled for good. *)
THEOREM SettledIsForGood == Spec => SettledForGood
<1> DEFINE Kept ==
      Settled =>
        /\ Settled'
        /\ \A r \in Requests :
             Call(r) = "open" /\ Call(r)' = "ok" =>
               IF IsGet(r) THEN reply'[r] = Effective
               ELSE Effective' = Merge(Effective, asked[r])
        /\ Effective' # Effective =>
             \E r \in Requests :
               Call(r) = "open" /\ Effective' = Merge(Effective, asked[r])
<1>1. TypeOK /\ [Doc!Next]_(Doc!docVars) => Kept
  <2> SUFFICES ASSUME TypeOK, [Doc!Next]_(Doc!docVars), Settled PROVE Kept
    OBVIOUS
  <2> USE CallsAre, DocData DEF IsGet
  <2>1. CASE UNCHANGED Doc!docVars
    <3>1. UNCHANGED <<Effective, Settled, Calls>>
      BY <2>1 DEF Doc!docVars, Calls
    <3> QED BY <3>1
  <2>2. ASSUME NEW r \in Requests,
               \/ \E u \in Doc!Updates : Doc!Invoke(r, u)
               \/ Doc!Refuse(r) \/ Doc!Return(r)
        PROVE  Kept
    BY <2>2 DEF Doc!Invoke, Doc!Refuse, Doc!Return, Doc!Answer, Calls
  <2>3. ASSUME NEW r \in Requests, Doc!Forfeit(r) \/ Doc!Disturb(r)
        PROVE  FALSE
    BY <2>3 DEF Doc!Forfeit, Doc!Disturb
  <2>4. ASSUME NEW r \in Requests, Doc!TakeEffect(r) PROVE Kept
    BY <2>4 DEF Doc!TakeEffect, Doc!Answer, Doc!Becomes, Calls, TypeOK
  <2>5. CASE Doc!Unseen
    <3>1. UNCHANGED <<Effective, Settled, Calls>>
      BY <2>5 DEF Doc!Unseen, Doc!docVars, Calls
    <3> QED BY <3>1
  <2> QED BY <2>1, <2>2, <2>3, <2>4, <2>5 DEF Doc!Next
<1>2. Spec => []TypeOK
  BY TypeCorrect
<1>3. Kept => [Kept]_serverVars
  OBVIOUS
<1> QED BY <1>1, <1>2, <1>3, ImplementsDocument, PTL
        DEF SettledForGood, Document, Doc!Spec
=============================================================================
