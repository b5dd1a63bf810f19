------------------------- MODULE UserSettingsServer -------------------------
(***************************************************************************)
(* The server side of the user settings: the handlers of the settings      *)
(* route and of the protected layout, which read and patch one principal's *)
(* settings (lib/user-settings-server.ts).  The settings live in the       *)
(* backend's principal settings when the backend has that endpoint, in a   *)
(* Valkey hash when it answers 404; the first request that finds the       *)
(* endpoint and no namespace of the console in it moves the hash over.     *)
(*                                                                         *)
(* A request is a process: every await of the handler is a step, so that   *)
(* requests of several tabs, devices and web processes interleave.  The    *)
(* backend gains the endpoint once (Upgrade).                              *)
(***************************************************************************)
EXTENDS SettingsData, FiniteSets, Naturals

CONSTANTS
  Requests,     \* requests for the principal's settings served at a time
  MaxSettings,  \* MAX_USER_SETTINGS: the number of keys the hash may hold
  Sendable      \* the updates the browsers send; NoUpdates stands for a GET

VARIABLES
  supported,  \* does the backend have the principal settings endpoint?
  namespace,  \* does the backend's document hold the console's namespace?
  backend,    \* the preferences in that namespace
  fallback,   \* the principal's hash in the fallback store
  pc,         \* pc[r]: the await request r is at
  asked,      \* asked[r]: its updates, NoUpdates for a GET
  old,        \* old[r]: the fallback settings r has read to move
  reply,      \* reply[r]: the snapshot a GET answers with
  held        \* auxiliary: the values each key has had or was given

serverVars == <<supported, namespace, backend, fallback, pc, asked, old,
                reply, held>>

(* The document the principal has: the backend's as soon as it exists. *)
Effective == IF namespace THEN backend ELSE fallback

(* The requests that looked for the namespace before it existed and may    *)
(* still act on that.                                                      *)
LookedBefore(r) == pc[r] \in {"loadStore", "store", "loadOld", "migrate", "clear"}

Settled == namespace /\ \A r \in Requests : ~LookedBefore(r)

Call(r) ==
  IF pc[r] \in {"idle", "ok", "error"} THEN pc[r] ELSE "open"

Doc == INSTANCE SettingsDocument
         WITH doc <- Effective,
              settled <- Settled,
              call <- [r \in Requests |-> Call(r)]

ASSUME SendableAreUpdates == Sendable \subseteq Updates
ASSUME MaxSettingsIsANumber == MaxSettings \in Nat

IsGet(r) == asked[r] = NoUpdates

Size(s) == Cardinality({k \in Keys : s[k] # None})

(* A key holds what the document shows and what the updates u give it. *)
Remember(u) ==
  held' = [k \in Keys |-> held[k] \cup {Effective'[k]} \cup ({u[k]} \ {Same})]

Goto(r, label) == pc' = [pc EXCEPT ![r] = label]

Stores == <<supported, namespace, backend, fallback, held>>

-----------------------------------------------------------------------------

Init ==
  /\ supported \in BOOLEAN
  /\ namespace \in BOOLEAN
  /\ namespace => supported
  /\ backend \in Settings
  /\ ~namespace => backend = NoSettings
  /\ fallback \in {s \in Settings : Size(s) <= MaxSettings}
  /\ pc = [r \in Requests |-> "idle"]
  /\ asked = [r \in Requests |-> NoUpdates]
  /\ old = [r \in Requests |-> NoSettings]
  /\ reply = [r \in Requests |-> NoSettings]
  /\ held = [k \in Keys |-> {Effective[k]}]

(* The backend is replaced by a version that has the endpoint. *)
Upgrade ==
  /\ ~supported
  /\ supported' = TRUE
  /\ UNCHANGED <<namespace, backend, fallback, pc, asked, old, reply, held>>

(* A GET or PATCH of the settings, or the layout's own read. *)
Begin(r, u) ==
  /\ pc[r] = "idle"
  /\ Goto(r, "resolve")
  /\ asked' = [asked EXCEPT ![r] = u]
  /\ UNCHANGED <<Stores, old, reply>>

(* A resolution that looks for fallback settings whether or not the        *)
(* backend has the namespace.                                              *)
ResolveAlwaysMoving(r) ==
  /\ pc[r] = "resolve"
  /\ Goto(r, IF supported THEN "loadOld" ELSE "loadStore")
  /\ UNCHANGED <<Stores, asked, old, reply>>

(* The backend answers the GET of the principal's settings. *)
Resolve(r) ==
  /\ pc[r] = "resolve"
  /\ IF ~supported THEN Goto(r, "loadStore") /\ UNCHANGED reply
     ELSE IF ~namespace THEN Goto(r, "loadOld") /\ UNCHANGED reply
     ELSE IF IsGet(r) THEN /\ Goto(r, "ok")
                           /\ reply' = [reply EXCEPT ![r] = backend]
     ELSE Goto(r, "patch") /\ UNCHANGED reply
  /\ UNCHANGED <<Stores, asked, old>>

(* 404: the hash is read; a PATCH goes on to write it. *)
LoadStore(r) ==
  /\ pc[r] = "loadStore"
  /\ IF IsGet(r) THEN /\ Goto(r, "ok")
                      /\ reply' = [reply EXCEPT ![r] = fallback]
     ELSE Goto(r, "store") /\ UNCHANGED reply
  /\ UNCHANGED <<Stores, asked, old>>

(* The atomic script on the hash.  The write can succeed although its      *)
(* answer, or the read that follows it, is lost.                           *)
PatchStore(r) ==
  /\ pc[r] = "store"
  /\ UNCHANGED <<supported, namespace, backend, asked, old, reply>>
  /\ IF Size(Merge(fallback, asked[r])) > MaxSettings
       THEN Goto(r, "error") /\ UNCHANGED <<fallback, held>>
       ELSE /\ fallback' = Merge(fallback, asked[r])
            /\ \E label \in {"ok", "error"} : Goto(r, label)
            /\ Remember(asked[r])

(* No namespace: the hash is read to be moved, if there is anything in it. *)
LoadOld(r) ==
  /\ pc[r] = "loadOld"
  /\ IF fallback # NoSettings
       THEN Goto(r, "migrate") /\ old' = [old EXCEPT ![r] = fallback]
       ELSE Goto(r, IF IsGet(r) THEN "ok" ELSE "patch") /\ UNCHANGED old
  /\ UNCHANGED <<Stores, asked, reply>>

(* A migration that stores the namespace and goes on to clear the hash     *)
(* without the settings in it.                                             *)
MigrateNothing(r) ==
  /\ pc[r] = "migrate"
  /\ namespace' = TRUE
  /\ \E label \in {"clear", "error"} : Goto(r, label)
  /\ reply' = IF IsGet(r) THEN [reply EXCEPT ![r] = backend] ELSE reply
  /\ UNCHANGED <<supported, backend, fallback, asked, old>>
  /\ Remember(NoUpdates)

(* The backend merges the moved settings; its answer may be lost. *)
Migrate(r) ==
  /\ pc[r] = "migrate"
  /\ backend' = Merge(backend, AsUpdates(old[r]))
  /\ namespace' = TRUE
  /\ \E label \in {"clear", "error"} : Goto(r, label)
  /\ reply' = IF IsGet(r) THEN [reply EXCEPT ![r] = backend'] ELSE reply
  /\ UNCHANGED <<supported, fallback, asked, old>>
  /\ Remember(NoUpdates)

(* The keys that were moved are deleted from the hash, whatever they hold  *)
(* by now.                                                                 *)
Clear(r) ==
  /\ pc[r] = "clear"
  /\ fallback' = [k \in Keys |-> IF old[r][k] = None THEN fallback[k] ELSE None]
  /\ \E label \in {"error", IF IsGet(r) THEN "ok" ELSE "patch"} : Goto(r, label)
  /\ UNCHANGED <<supported, namespace, backend, asked, old, reply, held>>

(* A PATCH whose body leaves the namespace's marker out. *)
PatchUnmarked(r) ==
  /\ pc[r] = "patch"
  /\ backend' = Merge(backend, asked[r])
  /\ \E label \in {"ok", "error"} : Goto(r, label)
  /\ UNCHANGED <<supported, namespace, fallback, asked, old, reply>>
  /\ Remember(asked[r])

(* The PATCH of the request's own updates; its answer may be lost. *)
PatchBackend(r) ==
  /\ pc[r] = "patch"
  /\ backend' = Merge(backend, asked[r])
  /\ namespace' = TRUE
  /\ \E label \in {"ok", "error"} : Goto(r, label)
  /\ UNCHANGED <<supported, fallback, asked, old, reply>>
  /\ Remember(asked[r])

(* A call to the backend or to the store fails before it has any effect,   *)
(* or the web process stops.                                               *)
Fail(r) ==
  /\ pc[r] \notin {"idle", "ok", "error"}
  /\ Goto(r, "error")
  /\ UNCHANGED <<Stores, asked, old, reply>>

(* The answer reaches the browser. *)
Reply(r) ==
  /\ pc[r] \in {"ok", "error"}
  /\ Goto(r, "idle")
  /\ asked' = [asked EXCEPT ![r] = NoUpdates]
  /\ old' = [old EXCEPT ![r] = NoSettings]
  /\ reply' = [reply EXCEPT ![r] = NoSettings]
  /\ UNCHANGED Stores

RequestStep(r) ==
  \/ \E u \in Sendable : Begin(r, u)
  \/ Resolve(r)
  \/ LoadStore(r)
  \/ PatchStore(r)
  \/ LoadOld(r)
  \/ Migrate(r)
  \/ Clear(r)
  \/ PatchBackend(r)
  \/ Fail(r)
  \/ Reply(r)

Next == Upgrade \/ \E r \in Requests : RequestStep(r)

Spec == Init /\ [][Next]_serverVars

-----------------------------------------------------------------------------

Labels == {"idle", "resolve", "loadStore", "store", "loadOld", "migrate",
           "clear", "patch", "ok", "error"}

(* Every variable has its type, and the backend has no namespace without   *)
(* the endpoint.                                                           *)
TypeOK ==
  /\ supported \in BOOLEAN
  /\ namespace \in BOOLEAN
  /\ namespace => supported
  /\ backend \in Settings
  /\ ~namespace => backend = NoSettings
  /\ fallback \in Settings
  /\ pc \in [Requests -> Labels]
  /\ asked \in [Requests -> Updates]
  /\ old \in [Requests -> Settings]
  /\ reply \in [Requests -> Settings]
  /\ held \in [Keys -> SUBSET (Values \cup {None})]

(* Moving the settings loses none: through the upgrade, two migrations at  *)
(* once, failed calls and a hash cleared late, a key that no request       *)
(* writes keeps the one value it started with.                             *)
UnwrittenKeysKept ==
  \A k \in Keys :
    (\A u \in Sendable : u[k] = Same) => held[k] = {Effective[k]}

(* The handlers implement the settings document: resolveSettingsTransport, *)
(* the two moves of the migration and the two PATCHes, in any              *)
(* interleaving and with any call failing, show the browsers one document  *)
(* that only requests change once the migration is over, and that the      *)
(* migration itself can only set back to values it has held.               *)
Document == Doc!Spec
=============================================================================
