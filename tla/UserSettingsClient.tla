-------------------------- MODULE UserSettingsClient --------------------------
(***************************************************************************)
(* The browser side of the user settings (lib/user-settings-client.ts and  *)
(* its callers): one tab in which the principals of a shared computer take *)
(* turns.  A page of the console shows the settings of the browser's own   *)
(* copy, writes what the user changes to that copy, remembers it as        *)
(* unconfirmed until a snapshot shows it, and sends it in the background,  *)
(* again and again while that fails.                                       *)
(*                                                                         *)
(* A page can be left at any moment; what it has sent by then is an orphan *)
(* that the server may still serve, after whatever the next page sends.    *)
(* The server is the settings document of SettingsDocument after its       *)
(* migration: a PATCH is one step, and its answer can be lost.  Other      *)
(* devices write the document too.                                         *)
(***************************************************************************)
EXTENDS SettingsData, FiniteSets, Naturals

CONSTANTS
  Principals,
  Choosable,  \* Choosable[p]: what p sets; Choosable[None]: what a page
              \* sets that does not know whose it is
  Elsewhere,  \* Elsewhere[p]: what other devices set for p
  MaxOrphans, \* bound: requests of closed pages the server still has to serve
  NoRequest, NoPage

ASSUME PrincipalsAreKnown == None \notin Principals
ASSUME ChoicesAreSettings ==
  /\ Choosable \in [Principals \cup {None} -> SUBSET (Values \cup {None})]
  /\ Elsewhere \in [Principals -> SUBSET (Values \cup {None})]
ASSUME MaxOrphansIsANumber == MaxOrphans \in Nat
VARIABLES
  doc,          \* doc[p]: p's settings on the server
  session,      \* the principal of the browser's session cookie, or None
  page,         \* "console", "leaving" (it signs out), "login" (the scripts
                \* of the console's page live on) or "none"
  arriving,     \* the page rendered, or the snapshot queried, on its way
  shown,        \* the page's principal as far as its render knew it
  query,        \* the page's settings query: "done", "loading" or "error"
  cache,        \* localStorage: the settings the page shows
  owner,        \* localStorage: whose settings these are
  persisted,    \* localStorage: persisted[p]: p's unconfirmed updates
  active,       \* activePrincipalId
  enabled,      \* syncEnabled
  pending,      \* pendingUpdates
  unconfirmed,  \* unconfirmedUpdates
  timer,        \* is flushTimer set?
  flight,       \* flushInFlight: the request and its answer
  chained,      \* does a flush wait for the one in flight?
  degraded,     \* is the status "degraded"?
  orphans,      \* requests whose page is gone
  owed,         \* auxiliary: owed[p][k]: p's last edit of k that the server
                \* has neither stored nor refused and no snapshot has shown
  forbidden     \* auxiliary: was the last flush answered 403?

serverState  == <<doc, session>>
storageState == <<cache, owner, persisted>>
moduleState  == <<active, enabled, pending, unconfirmed, timer, flight,
                  chained, degraded, forbidden>>
pageState    == <<page, arriving, shown, query>>
vars == <<serverState, pageState, storageState, moduleState, orphans, owed>>

Answers == {"none", "stored", "retry", "refused", "forbidden", "expired"}

(* by: the cookie's principal; of: the module's, which the handlers compare *)
(* with the active one when the answer arrives.                            *)
Flight == [by : Principals \cup {None}, of : Principals, updates : Updates,
           answer : Answers]
Orphan == [by : Principals, updates : Updates]
Page   == [principal : Principals \cup {None}, settings : Settings \cup {NoPage}]

ASSUME NothingIsNoRequest == NoRequest \notin Flight
ASSUME NothingIsNoPage == NoPage \notin Page /\ NoPage \notin Settings

-----------------------------------------------------------------------------
(* The data *)

(* The updates u, and those of the failed v that u does not replace. *)
Fill(u, v) == [k \in Keys |-> IF u[k] = Same THEN v[k] ELSE u[k]]

(* The updates u without those that equal v's. *)
Drop(u, v) == [k \in Keys |-> IF u[k] = v[k] THEN Same ELSE u[k]]

(* What is left of u when the settings s confirm what they show. *)
Unresolved(u, s) == [k \in Keys |-> IF u[k] = s[k] THEN Same ELSE u[k]]

(* A mutation of Migration that migrates whatever copy there is. *)
MigrationOfAnyCopy(s) ==
  [k \in Keys |-> IF s[k] = None /\ cache[k] # None THEN cache[k] ELSE Same]

(* A copy without owner migrates: what the snapshot s lacks becomes updates. *)
Migration(s) ==
  [k \in Keys |->
    IF owner = None /\ s[k] = None /\ cache[k] # None THEN cache[k] ELSE Same]

-----------------------------------------------------------------------------
(* What the module's functions do to its own state and the storage *)

(* prepareUserSettingsCache(p); a timer that is set stays set. *)
Prepare(p) ==
  LET kept == IF p = None \/ owner # p THEN NoSettings ELSE cache
      old  == IF p = None THEN NoUpdates ELSE persisted[p]
  IN  /\ cache' = Merge(kept, old)
      /\ owner' = p
      /\ active' = p
      /\ enabled' = FALSE
      /\ pending' = old
      /\ unconfirmed' = old
      /\ UNCHANGED <<persisted, timer, flight, chained, forbidden, owed>>

(* A mutation of Initialize that shows the snapshot as it is. *)
InitializeUnmerged(p, s) ==
  LET left == Unresolved(Fill(persisted[p], Migration(s)), s)
  IN  IF enabled /\ active = p
        THEN UNCHANGED <<storageState, moduleState, owed>>
        ELSE /\ cache' = s
             /\ owner' = p
             /\ persisted' = [persisted EXCEPT ![p] = left]
             /\ active' = p
             /\ enabled' = TRUE
             /\ pending' = left
             /\ unconfirmed' = left
             /\ timer' = (timer \/ left # NoUpdates)
             /\ degraded' = FALSE
             /\ owed' = [owed EXCEPT ![p] = Unresolved(@, s)]
             /\ UNCHANGED <<flight, chained, forbidden>>

(* initializeUserSettings: p's settings are s.  Nothing happens when the   *)
(* module already works for p.                                             *)
Initialize(p, s) ==
  LET left == Unresolved(Fill(persisted[p], Migration(s)), s)
  IN  IF enabled /\ active = p
        THEN UNCHANGED <<storageState, moduleState, owed>>
        ELSE /\ cache' = Merge(s, left)
             /\ owner' = p
             /\ persisted' = [persisted EXCEPT ![p] = left]
             /\ active' = p
             /\ enabled' = TRUE
             /\ pending' = left
             /\ unconfirmed' = left
             /\ timer' = (timer \/ left # NoUpdates)
             /\ degraded' = FALSE
             /\ owed' = [owed EXCEPT ![p] = Unresolved(@, s)]
             /\ UNCHANGED <<flight, chained, forbidden>>

(* clearUserSettingsForLogout stops the module; a flight goes on. *)
Disable ==
  /\ active' = None
  /\ enabled' = FALSE
  /\ pending' = NoUpdates
  /\ unconfirmed' = NoUpdates
  /\ timer' = FALSE
  /\ degraded' = FALSE
  /\ UNCHANGED <<flight, chained, forbidden>>

(* It empties the browser's copy too; what is persisted stays. *)
ClearStorage ==
  /\ cache' = NoSettings
  /\ owner' = None
  /\ UNCHANGED persisted

Request(updates) ==
  [by |-> session, of |-> active, updates |-> updates, answer |-> "none"]

(* flushUserSettings, called by the timer, the page or the sign-out. *)
Flush(timerSet) ==
  IF flight # NoRequest
    THEN /\ chained' = TRUE
         /\ timer' = timerSet
         /\ UNCHANGED <<pending, flight, degraded, forbidden>>
    ELSE IF enabled /\ pending # NoUpdates
    THEN /\ flight' = Request(pending)
         /\ pending' = NoUpdates
         /\ timer' = FALSE
         /\ degraded' = FALSE
         /\ forbidden' = FALSE
         /\ UNCHANGED chained
    ELSE /\ timer' = timerSet
         /\ UNCHANGED <<pending, flight, chained, degraded, forbidden>>

(* The scripts of the page are gone, and with them the module's state. *)
Unload ==
  /\ active' = None
  /\ enabled' = FALSE
  /\ pending' = NoUpdates
  /\ unconfirmed' = NoUpdates
  /\ timer' = FALSE
  /\ flight' = NoRequest
  /\ chained' = FALSE
  /\ degraded' = FALSE
  /\ forbidden' = FALSE
  /\ arriving' = NoPage
  /\ shown' = None
  /\ query' = "done"
  /\ page' = "none"

(* What becomes of the request q of a page that is left: the server may    *)
(* have it still to serve, or never see it.                                *)
Orphaned(q) ==
  IF q = NoRequest \/ q.answer # "none" \/ q.by = None
    THEN UNCHANGED orphans
    ELSE \/ UNCHANGED orphans
         \/ /\ Cardinality(orphans) < MaxOrphans
            /\ orphans' = orphans \cup {[by |-> q.by, updates |-> q.updates]}

-----------------------------------------------------------------------------
(* Pages *)

Init ==
  /\ doc \in [Principals -> {NoSettings}]
  /\ session = None
  /\ page = "none"
  /\ arriving = NoPage
  /\ shown = None
  /\ query = "done"
  /\ cache = NoSettings
  /\ owner = None
  /\ persisted = [p \in Principals |-> NoUpdates]
  /\ active = None
  /\ enabled = FALSE
  /\ pending = NoUpdates
  /\ unconfirmed = NoUpdates
  /\ timer = FALSE
  /\ flight = NoRequest
  /\ chained = FALSE
  /\ degraded = FALSE
  /\ forbidden = FALSE
  /\ orphans = {}
  /\ owed = [p \in Principals |-> NoUpdates]

(* The login form: its answer sets the cookie and loads a page afresh. *)
SignIn(p) ==
  /\ page \in {"none", "login"}
  /\ session = None
  /\ session' = p
  /\ Unload
  /\ Orphaned(flight)
  /\ UNCHANGED <<doc, storageState, owed>>

(* The server renders a page of the console: with the settings, without    *)
(* them, or without knowing the principal.                                 *)
Render ==
  /\ page = "none"
  /\ arriving = NoPage
  /\ session # None
  /\ \E known \in {session, None} :
     \E settings \in {NoPage} \cup (IF known = None THEN {} ELSE {doc[known]}) :
       arriving' = [principal |-> known, settings |-> settings]
  /\ UNCHANGED <<serverState, page, shown, query, storageState, moduleState,
                 orphans, owed>>

Mounted == page \in {"console", "leaving"}

(* The page is mounted: the first render calls initializeUserSettings or   *)
(* prepareUserSettingsCache.                                               *)
Mount ==
  /\ page = "none"
  /\ arriving # NoPage
  /\ page' = "console"
  /\ arriving' = NoPage
  /\ shown' = arriving.principal
  /\ IF arriving.settings # NoPage
       THEN /\ Initialize(arriving.principal, arriving.settings)
            /\ query' = "done"
       ELSE /\ Prepare(arriving.principal)
            /\ degraded' = FALSE
            /\ query' = "loading"
  /\ UNCHANGED <<serverState, orphans>>

(* The server reads the settings the page has queried. *)
QueryRead ==
  /\ Mounted
  /\ query \in {"loading", "error"}
  /\ arriving = NoPage
  /\ session # None
  /\ arriving' = [principal |-> session, settings |-> doc[session]]
  /\ UNCHANGED <<serverState, page, shown, query, storageState, moduleState,
                 orphans, owed>>

QueryArrives ==
  /\ Mounted
  /\ arriving # NoPage
  /\ arriving' = NoPage
  /\ query' = "done"
  /\ Initialize(arriving.principal, arriving.settings)
  /\ UNCHANGED <<serverState, page, shown, orphans>>

(* The query and its retries fail; it is made again every 30 seconds. *)
QueryFails ==
  /\ Mounted
  /\ query = "loading"
  /\ query' = "error"
  /\ arriving' = NoPage
  /\ Prepare(shown)
  /\ degraded' = TRUE
  /\ UNCHANGED <<serverState, page, shown, orphans>>

(* A mutation of Write that persists before it remembers. *)
WritePersistedEarly(k, v) ==
  /\ Mounted
  /\ cache[k] # v
  /\ cache' = [cache EXCEPT ![k] = v]
  /\ IF active = None
       THEN UNCHANGED <<persisted, pending, unconfirmed, timer, degraded, owed>>
       ELSE /\ pending' = [pending EXCEPT ![k] = v]
            /\ unconfirmed' = [unconfirmed EXCEPT ![k] = v]
            /\ persisted' = [persisted EXCEPT ![active] = unconfirmed]
            /\ timer' = (timer \/ enabled)
            /\ degraded' = (degraded /\ ~enabled)
            /\ owed' = [owed EXCEPT ![active][k] = v]
  /\ UNCHANGED <<serverState, pageState, owner, active, enabled, flight,
                 chained, forbidden, orphans>>

(* writeUserSetting and removeUserSetting (v = None). *)
Write(k, v) ==
  /\ Mounted
  /\ cache[k] # v
  /\ cache' = [cache EXCEPT ![k] = v]
  /\ IF active = None
       THEN UNCHANGED <<persisted, pending, unconfirmed, timer, degraded, owed>>
       ELSE /\ pending' = [pending EXCEPT ![k] = v]
            /\ unconfirmed' = [unconfirmed EXCEPT ![k] = v]
            /\ persisted' = [persisted EXCEPT ![active] = unconfirmed']
            /\ timer' = (timer \/ enabled)
            /\ degraded' = (degraded /\ ~enabled)
            /\ owed' = [owed EXCEPT ![active][k] = v]
  /\ UNCHANGED <<serverState, pageState, owner, active, enabled, flight,
                 chained, forbidden, orphans>>

TimerFires ==
  /\ timer
  /\ Flush(FALSE)
  /\ UNCHANGED <<serverState, pageState, storageState, active, enabled,
                 unconfirmed, orphans, owed>>

(* The user closes the page, reloads it or follows a link out of it: what  *)
(* is pending is sent once more unless a request is in flight.             *)
Leave ==
  /\ Mounted
  /\ Unload
  /\ Orphaned(IF flight = NoRequest /\ enabled /\ pending # NoUpdates
                THEN Request(pending) ELSE flight)
  /\ UNCHANGED <<serverState, storageState, owed>>

(* Signing out flushes, and waits for that for 750 ms at most. *)
SignOut ==
  /\ page = "console"
  /\ page' = "leaving"
  /\ Flush(timer)
  /\ UNCHANGED <<serverState, arriving, shown, query, storageState, active,
                 enabled, unconfirmed, orphans, owed>>

(* The session is destroyed and the login form shown, without a new load. *)
SignedOut ==
  /\ page = "leaving"
  /\ session' = None
  /\ page' = "login"
  /\ arriving' = NoPage
  /\ shown' = None
  /\ query' = "done"
  /\ Disable
  /\ ClearStorage
  /\ UNCHANGED <<doc, orphans, owed>>

(* The request to sign out fails: the module is stopped all the same, and  *)
(* the login form leads back to the page, which may query its settings.    *)
SignOutFails ==
  /\ page = "leaving"
  /\ page' = "console"
  /\ arriving' = NoPage
  /\ query' \in {"done", "loading"}
  /\ Disable
  /\ ClearStorage
  /\ UNCHANGED <<serverState, shown, orphans, owed>>

(* A request of the page is answered 401 (the flush's own may be it): the  *)
(* browser's copy is emptied and the login page loaded.                    *)
NoticeExpiry ==
  /\ Mounted
  /\ session = None
  /\ ClearStorage
  /\ Unload
  /\ Orphaned(flight)
  /\ UNCHANGED <<serverState, owed>>

(* A link is answered with a redirect to the login form: the layout is     *)
(* unmounted, which flushes, and the module lives on.                      *)
SoftRedirect ==
  /\ Mounted
  /\ session = None
  /\ page' = "login"
  /\ arriving' = NoPage
  /\ shown' = None
  /\ query' = "done"
  /\ Flush(timer)
  /\ UNCHANGED <<serverState, storageState, active, enabled, unconfirmed,
                 orphans, owed>>

-----------------------------------------------------------------------------
(* The server *)

Waiting == flight # NoRequest /\ flight.answer = "none"

Answer(a) == flight' = [flight EXCEPT !.answer = a]

Stored(p, u) ==
  /\ doc' = [doc EXCEPT ![p] = Merge(@, u)]
  /\ owed' = [owed EXCEPT ![p] = Drop(@, u)]

AwayFromServer == <<pageState, storageState, active, enabled, pending,
                    unconfirmed, timer, chained, degraded, forbidden>>

(* The updates are stored; the answer may be lost. *)
PatchStored ==
  /\ Waiting
  /\ flight.by # None
  /\ Stored(flight.by, flight.updates)
  /\ \E a \in {"stored", "retry"} : Answer(a)
  /\ UNCHANGED <<AwayFromServer, session, orphans>>

(* They are not: 400 or 409, 403, and whatever is tried again. *)
PatchFails ==
  /\ Waiting
  /\ \E a \in {"refused", "forbidden", "retry"} :
       /\ flight.by = None => a = "retry"
       /\ Answer(a)
  /\ UNCHANGED <<AwayFromServer, serverState, orphans, owed>>

(* 401: the session is over, or the backend says so. *)
PatchUnauthorized ==
  /\ Waiting
  /\ session' = None
  /\ Answer("expired")
  /\ UNCHANGED <<AwayFromServer, doc, orphans, owed>>

OrphanStored(q) ==
  /\ orphans' = orphans \ {q}
  /\ Stored(q.by, q.updates)
  /\ UNCHANGED <<AwayFromServer, flight, session>>

(* It is lost or refused; a 401 clears the cookie. *)
OrphanFails(q) ==
  /\ orphans' = orphans \ {q}
  /\ session' \in {session, None}
  /\ UNCHANGED <<AwayFromServer, flight, doc, owed>>

Expire ==
  /\ session # None
  /\ session' = None
  /\ UNCHANGED <<AwayFromServer, flight, doc, orphans, owed>>

OtherDevice(p, k, v) ==
  /\ doc[p][k] # v
  /\ doc' = [doc EXCEPT ![p][k] = v]
  /\ UNCHANGED <<AwayFromServer, flight, session, orphans, owed>>

(* The two answers below, mutated: any failure gives the updates up, and a *)
(* failure that may pass sets no timer.                                    *)
GivenUpOnFailure(a) == a # "stored"
RescheduledOnSuccess(a) == a = "stored"

(* The flush is over with answer a: are its updates given up? *)
GivenUp(a) == a = "refused"

(* Are they pending again, but for those with a newer value? *)
PendingAgain(a) == a \in {"retry", "forbidden", "expired"}

(* Is the timer set for what is pending then? *)
Rescheduled(a) == a \in {"stored", "retry"}

(* The answer of the flush in flight arrives: its handlers, and the flush  *)
(* that waits for it.  A 401 on a page of the console is NoticeExpiry's.   *)
PatchAnswered ==
  /\ flight # NoRequest
  /\ flight.answer # "none"
  /\ flight.answer = "expired" => ~Mounted
  /\ LET u == flight.updates
         a == flight.answer
         live == enabled /\ active = flight.of
         left == IF live /\ PendingAgain(a)
                   THEN Fill(pending, u) ELSE pending
         again == live /\ left # NoUpdates /\ Rescheduled(a)
         next == chained /\ enabled /\ left # NoUpdates
     IN  /\ unconfirmed' = IF live /\ GivenUp(a)
                             THEN Drop(unconfirmed, u) ELSE unconfirmed
         /\ persisted' = IF live THEN [persisted EXCEPT ![active] = unconfirmed']
                         ELSE persisted
         /\ owed' = IF live /\ a = "refused"
                      THEN [owed EXCEPT ![active] = Drop(@, u)] ELSE owed
         /\ chained' = FALSE
         /\ flight' = IF next THEN Request(left) ELSE NoRequest
         /\ pending' = IF next THEN NoUpdates ELSE left
         /\ timer' = (~next /\ (timer \/ again))
         /\ degraded' = (~next /\ IF live THEN a # "stored" ELSE degraded)
         /\ forbidden' = (~next /\ IF live THEN a = "forbidden" ELSE forbidden)
  /\ UNCHANGED <<serverState, pageState, cache, owner, active, enabled, orphans>>

-----------------------------------------------------------------------------

Next ==
  \/ \E p \in Principals : SignIn(p)
  \/ Render
  \/ Mount
  \/ QueryRead
  \/ QueryArrives
  \/ QueryFails
  \/ \E k \in Keys : \E v \in Choosable[active] : Write(k, v)
  \/ TimerFires
  \/ Leave
  \/ SignOut
  \/ SignedOut
  \/ SignOutFails
  \/ NoticeExpiry
  \/ SoftRedirect
  \/ PatchStored
  \/ PatchFails
  \/ PatchUnauthorized
  \/ PatchAnswered
  \/ \E q \in orphans : OrphanStored(q) \/ OrphanFails(q)
  \/ Expire
  \/ \E p \in Principals, k \in Keys : \E v \in Elsewhere[p] : OtherDevice(p, k, v)

Spec == Init /\ [][Next]_vars

-----------------------------------------------------------------------------

(* Every variable has its type; the module works for a principal when it   *)
(* is enabled, and its unconfirmed updates are the persisted ones.         *)
TypeOK ==
  /\ doc \in [Principals -> Settings]
  /\ session \in Principals \cup {None}
  /\ page \in {"console", "leaving", "login", "none"}
  /\ arriving \in Page \cup {NoPage}
  /\ shown \in Principals \cup {None}
  /\ query \in {"done", "loading", "error"}
  /\ cache \in Settings
  /\ owner \in Principals \cup {None}
  /\ persisted \in [Principals -> Updates]
  /\ active \in Principals \cup {None}
  /\ enabled \in BOOLEAN
  /\ enabled => active # None
  /\ pending \in Updates
  /\ unconfirmed \in Updates
  /\ unconfirmed = IF active = None THEN NoUpdates ELSE persisted[active]
  /\ timer \in BOOLEAN
  /\ flight \in Flight \cup {NoRequest}
  /\ chained \in BOOLEAN
  /\ degraded \in BOOLEAN
  /\ orphans \subseteq Orphan
  /\ Cardinality(orphans) <= MaxOrphans
  /\ owed \in [Principals -> Updates]
  /\ forbidden \in BOOLEAN

(* An edit that the server has neither stored nor refused, and no snapshot *)
(* has shown, is kept on the device: through reloads, failed flushes,      *)
(* sign-outs that do not wait for the flush, expired sessions and other    *)
(* principals' turns.                                                      *)
EditsSurvive ==
  \A p \in Principals, k \in Keys :
    owed[p][k] # Same => persisted[p][k] = owed[p][k]

(* A page shows the user's last edit: neither a snapshot read before it    *)
(* nor another principal's copy replaces it.                               *)
EditsShown ==
  Mounted /\ active # None =>
    \A k \in Keys : owed[active][k] # Same => cache[k] = owed[active][k]

(* What a principal sets on a page that knows whose it is stays that       *)
(* principal's: no other one's document or page ever has it.               *)
OwnAccountOnly ==
  \A p \in Principals, k \in Keys, v \in Values :
    doc[p][k] = v \/ (Mounted /\ active = p /\ cache[k] = v) =>
      v \in Choosable[p] \cup Choosable[None] \cup Elsewhere[p]

(* What is pending on a working page has something that will send it: a    *)
(* timer, a request in flight, or the user after an answer of 403.         *)
PendingHasTrigger ==
  Mounted /\ enabled /\ pending # NoUpdates =>
    timer \/ flight # NoRequest \/ forbidden
=============================================================================
