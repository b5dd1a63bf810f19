# TLA+ models of the hubuum console

hubuum-frontend is a Next.js application: a browser console written in React,
and a server ("BFF") that keeps the sessions, forwards API calls to the hubuum
backend, runs bookmarkable reports and stores user settings. The server keeps
its state in Valkey, so several server processes may share it; the browser
keeps state in memory, in cookies and in `localStorage` / `sessionStorage`. The
hubuum backend is another program: it is modelled only through how this code
uses it.

Paths below are relative to the repository root.

## The system and its parts

| Part | State it keeps | Operations | Who it interacts with |
| --- | --- | --- | --- |
| Bookmarkable reports (`src/lib/server-template-report.ts`, `template-report-run-store.ts`, the `reports` routes) | in Valkey, per session, template revision and overrides: the latest task id and a lock with a TTL; per request: deadline, the ids it saw | render, refresh, inspect status, open a stored run | backend export tasks and templates, Valkey, sessions |
| Sessions (`src/lib/auth/*`, login, logout and proxy routes) | in Valkey one record per session id; per process: single-flight maps for loading and validating, a 5 s bootstrap cache; in the browser the cookie | log in, log out, load and touch, validate, proxy a call, destroy on 401 | backend tokens, every other route |
| User settings, server (`user-settings-server.ts`, `-store*.ts`, `-document.ts`) | Valkey hash of fallback settings (at most 250 keys), the backend's settings namespace | read, patch, migrate the fallback to the backend | backend settings endpoint, bootstrap cache |
| User settings, browser (`user-settings-client.ts`, `-transport.ts`, `components/user-settings-sync.tsx`) | pending and unconfirmed updates in memory and `localStorage` | set, flush, retry, initialise from a server snapshot, reset at logout | settings route, other tabs |
| Retry-safe operations (`operation-idempotency.ts`, `idempotency-key.ts`) | leases in memory and `sessionStorage` (64 newest, 30 min) | acquire, complete | backup, import, task, report and remote-target calls |
| Backup and restore workspace (`components/admin-backup-restore-workspace.tsx`, `api/backup-restore.ts`) | staged restore and its capability, poll timers | start, poll, stage, confirm, discard | idempotency, backend tasks |
| Cursor pagination (`use-cursor-pagination.ts`) | cursor history per list in `sessionStorage`, the cursor in the URL | next, previous, reset, browser back | router |
| Task notifications (`task-notifications.ts`, `components/app-shell.tsx`) | last seen statuses, unread count | poll, diff, mark read | tasks API, settings |
| Pinned and recent items (`pinned-items.ts`, `recent-items.ts`) | bounded lists in the settings | pin, unpin, visit | settings |
| Confirm dialog and toasts (`confirm-context.tsx`, `toast-context.tsx`) | one pending question, timers | ask, answer, dismiss | every destructive action |
| Bulk operations in the object, class, collection, user and group tables | selection, progress | delete many with `Promise.all` | proxy route |
| Object editing (`api/object-data-patch.ts`, `object-data-editing.ts`) | draft and the original document | edit, build a JSON patch, save | proxy route |
| Imports, exports, report configuration, template editor | form drafts | validate, submit, poll | idempotency, proxy route |
| Health, environment, correlation, operational events, server timing | none that outlives a request | probe, log, measure | Valkey, backend |
| Tables, CSS, search, relations explorer, charts, themes | view state | display | proxy route |

### Behaviours that are hard to test

* Every server handler is a chain of awaits; handlers of one process interleave
  at them, and handlers of other processes always do.
* Valkey entries expire (sessions, remembered tasks, locks) between two awaits.
* A reply may be lost after its effect: Valkey commands time out after 2 s and
  are retried by the client, backend calls have no timeout at all.
* A session can be destroyed by one request (a 401, a logout) while another is
  loading or touching it.
* The browser applies settings optimistically, retries them, keeps them across
  reloads, and shares storage between tabs.

`PROJECT.json` lists each hazard at its line under `hazards`, with the
properties that would catch it.

### What makes each part correct

* Reports: one generation at a time for one report; who comes later joins it;
  a forced refresh is not answered from before; nothing newer is overwritten or
  forgotten by somebody slow; every request is answered by its deadline.
* Sessions: a destroyed session is never seen again; no process serves a cached
  bootstrap of a destroyed session beyond the cache's age; an answer that clears
  the cookie leaves no session of that request behind; a login that was refused
  leaves none that can be used.
* Settings, server: whatever store answers, the browsers see one document; the
  migration loses nothing that nobody wrote meanwhile.
* Settings, browser: the last value the user chose wins and survives reload,
  logout and a failing network; it never reaches another account.
* Retry-safe operations: a retry starts no second task and a new intent starts
  one, as long as the lease is neither lost nor left behind.
* Object editing: a save changes what the user changed and nothing else.
* Pagination: previous leads back to the page before; a list comes back with its
  own history.
* Notifications: the end of a task is announced once, and not missed.
* Bulk deletion and restore: what is destroyed is what the question was about,
  and the phrase was typed for the backup that is staged.

## Modules

### `TemplateReports`

One action per awaited call of `resolveBookmarkableTemplateReport`,
`tryCachedReport`, `waitForTask` and `getBookmarkableTemplateReportStatus`.
`pc[r]` names the call a request waits for and `mode[r]` the place in the code
the call belongs to: `arriving` (the task found at the start), `waiting` (a
task found while another request has the lock), `holding` (a task found after
taking the lock) and `generating` (the request's own task). `want[r]` is what
was asked, `rev[r]` the template revision read, `initial[r]` is
`initialTaskId`, `task[r]` the id at hand.

`remembered`, `lock` and `ttl` are the three facts Valkey keeps per cache key.
`tasks` and `template` are the backend: tasks succeed, fail, lose their output
or vanish at any moment, and the template is edited at any moment. The three
active task statuses are one, `partially_succeeded` counts as success and
`cancelled` as failure, as in the code.

Time is relative. `Tick` moves every timer together: `left[r]` to the deadline,
`ttl[k]` to the lock's expiry, the age of finished reports, and `lag[r]`, the
time since the request's last answered call. A call and the 50 ms sleep before
it take at most `BackendLag` or `StoreLag`. `Await` and `Loop` are the local
tests of the deadline, and take no time of their own.

Failures are `CallFails` (no effect), the `...ReplyLost` actions (the effect
without the reply; for `SET NX` also the client's own retry, which then finds
the lock taken) and `Crash`. A command that timed out takes effect at once or
never: that it may be executed later still, as in `Sessions`, is left out.

### `ReportRegister`

What the reports promise each other, without lock, clocks and calls: requests
share a register of the latest run of each report, one request at a time has the
right to make a run, and it makes one only if no newer run than the one it found
can be joined. `TemplateReports` maps to it at its end: `remembered` is the
register, the tasks the backend has accepted are the runs made, `Makers` are the
requests in the guarded part of the handler, and `Standings` says of each request,
from the call it awaits, which run it has at hand (`asking`, `made`, `waiting`,
`served`, `failed`). The property is `KeepsRegister`. Expiry and
late deletes map to `Lose` and `Drop`, the deadline and every failure to `GiveUp`;
polls, status requests and what the backend does leave the register alone.

### `ForcedReports`

`TemplateReports` with two history variables: `accepted`, the number of tasks the
backend had accepted when a request arrived, which a finding needs, and `since`,
the time since then, which the theorem about the time of an answer is about.

### `Sessions` and `SessionHistory`

`Sessions` models every route that creates, uses or destroys a session.
`kind[r]` is the handler: `page` is `requireServerSession`, `proxy` the generic
proxy with the routes that treat a 401 alike, `admin` the proxy for
`/api/v0/meta` with its probe, then login, logout, settings and
`/auth/session`. `pc[r]` names the call a request awaits; a handler runs without
interruption from one await to the next, so each await is one action.

`store` is Valkey's record of a session: absent, fresh, or old enough for the
next load to touch it. `wire[p]` is the one connection of a process: commands
are executed and answered in the order they were issued, a command that timed
out after 2 s may still be executed (`by` becomes `Nobody`) or never be.
`hydrating[p][s]` and `validating[p][s]` are the two single-flight maps,
`leader[r]` is the request whose promise `r` awaits, and `Quiet(p)` says that
continuations of resolved promises run before the process handles its next
event. The backend is `token`, one for each session id.

`got[r]` is what the hydration resolved to, `verdict[r]` what the backend said
to the validation, `reply[r]` and `setCookie[r]` the answer. The browser sends
any request with the cookie it has and receives answers in any order.
Failures are `CallFails`, `CommandFails`, `Restart` and the failing halves of
`Revoke`, `SignOut`, `Identify` and `BackendValidates`; `faults` counts them.

`SessionHistory` adds which process has answered the logout of which session
and which requests came later: the two properties about "afterwards" need it.

### `LayoutBootstrap`

`protected-layout-bootstrap.ts`: per process and session the promise of the last
load, pending or settled, for five seconds, in a map of limited size from which
the oldest goes first. `cache[p]` is a function from the sessions that have an
entry, `left` the time the entry has. All entries live equally long, so the order
of the map is that of `left`; among entries of the same tick it is left open,
and any of them may be the oldest. The data loaded is reduced to the version of the
principal's settings, and `Unloaded` for every way of not getting them. The
settings route drops the entry of its own session on its own process, after its
update has been answered. `Destroy` stands for `destroySession`; the routes
around both are in `Sessions`. `past`, `written`, `floor` and `own` record the
history that the two properties on staleness compare with. Page loads and updates
are `Visits`, numbered as they arrive; `stage[v]` is the await a visit is at. That
the shell is mounted anew when the key of the cached settings changes is display
and left out.

### `SettingsDocument` and `UserSettingsServer`

`SettingsData` has the settings as functions from keys to values and the merge
of updates into them. `SettingsDocument` is what the service promises: a request
reads or merges in one step between its call and its answer. Until the document
is *settled* (it is in the store that will keep it, and no request is left that
looked for it before) an acknowledged update may be forfeited and a key set
back, but only to a value of `held[k]`, one that it had or was given.

`UserSettingsServer` has one step per await of `user-settings-server.ts`:
`pc[r]` is the call request `r` awaits. `supported` says whether the backend has
the endpoint (`Upgrade` is the deployment of one that has), `namespace` whether
its document has the console's part, `fallback` is the Valkey hash. The
migration is four awaits: read the hash, read it again as `old[r]`, write it to
the backend, clear it; a patch or another migration may come between any two.
The property `Document` is the refinement: the document is the backend's as soon
as there is one, and the hash before.

### `ServedSettings`

Composes `LayoutBootstrap` and `UserSettingsServer`, which share one fact only: an
update is a new version of what pages are rendered with. A behaviour moves one of
the two, chosen at the start, so that one run checks both; no property is about
the composition.

### `UserSettingsClient`

`user-settings-client.ts` and its callers in one tab, in which the principals of
a shared computer take turns. `cache`, `owner` and `persisted` are
`localStorage`; `active`, `enabled`, `pending`, `unconfirmed`, `timer`,
`flight`, `chained` and `degraded` the module's variables; `page`, `arriving`,
`shown` and `query` the page around it: a console page, one that is signing out
(its flush gets 750 ms), the login page that client navigation leads to with the
module's state alive, or none. A page may be closed or reloaded in every state;
the request it had sent becomes an orphan, which the server may serve after
whatever the next page sends. The server is the settled document, other devices
write it, and a session may expire. All the flushes that wait for one in flight
are one, `chained`: when it ends the first sends what is pending, and the others
find nothing.

`owed[p][k]` is an edit the user still has a claim to: the server has neither
stored nor refused it, and no snapshot has shown it. `EditsSurvive` and
`EditsShown` are about it.

### `OperationLeases` and `SubmittedTasks`

`operation-idempotency.ts` and the calls that acquire a lease, POST with its key
and complete it on a 202. `memory` and `stored` are the two copies of the
leases, `unavailable` the flag that makes a page give up a storage that failed.
`Tick` ages them, `Reload` loses memory and answers, and a reopened dialog may
submit while its first call is in flight. `intent[o]` counts how often the user
has meant `o`, and `open` says whose intent no 202 has confirmed.

`SubmittedTasks` is the promise: an intent makes one task, whatever is retried.
The leases refine it (`KeepsPromise`) except for the operations in `forgotten`:
one whose lease ran out, was evicted from the 64, or was left in a storage that
fails can make a second task, or be answered with an earlier one, and this is the
whole list of such cases. What the documentation promises without exception is
`LaterSubmissionNewTask`, which the run `Leases_completed` finds violated.

### `ObjectEditing`

The draft of an object's data in `object-detail.tsx` and the patches of
`object-data-patch.ts`. `known` is `objectQuery.data`, `origin` remembers what
the draft was made from. `Plan` is `buildObjectDataPatchPlan`: the paths at which
`collect` finds a difference, a test of the old value (for an addition of the
parent) for each of them, and the replacement of the whole document when there
would be more operations than the limit. `FieldPlan` is the inline edit. A
document is one level deep, an array is a value. With a changed name the data go
along whole and unguarded: `guarded` is `FALSE`, and `SaveMerges` excepts it.

### `CursorPagination`, `TaskNotifications`, `BulkDelete`, `RestoreWorkspace`

Four small modules about something that arrives late.

* `use-cursor-pagination.ts`: a click changes the history at once, its
  navigation (`going`) commits later, after other clicks. A commit to another list
  is followed by its two effects, the render of the state they set, and the effect
  that saves it: `phase` says which of these is due. In between the user may click,
  which makes React do what is left first, and the page may be loaded again.
* `task-notifications.ts` with the poll of `app-shell.tsx`: `answer` is a poll's
  answer on its way, `previous` the last one; a task's time stamp may fall on
  either side of the page's start, and only `Window` tasks are polled.
* The deletion of selected objects in `objects-explorer.tsx`: selection and table
  may change while the question is open, requests of a batch fail one by one, a
  second batch may overlap the first. A batch that succeeds clears the selection
  and invalidates its queries in one step.
* The restore half of `admin-backup-restore-workspace.tsx`: several stagings may
  be in flight, since choosing a file enables the button again, and each may be
  answered in any order, also while a question is open. `typedFor` and `asked`
  record what the phrase was typed for and the question asked about.

### `Browser`

Composes the seven modules above. They share no state, as the parts of the page
they model do not; so a behaviour of `Browser` moves one part, chosen at the
start, and the run is one for all of them; nothing is claimed of the composition.

### The proofs and the `MC` modules

`...Proofs` has the theorems about the module of that name; those about
`ObjectEditing` and the four small modules are together in `BrowserProofs`, those
about `ForcedReports` in `TemplateReportsProofs`. Each `MC` module gives the
constants of the module in its name their values for TLC, and the symmetry among
them.

## What the runs check

| Run | Question | Result |
| --- | --- | --- |
| `Reports_safety` | A page view and a refresh of one report at the least lock time `TtlCoversTail` admits, with edits of the template and expiring memory: does one generation run at a time (`ExclusiveGeneration`), does a newcomer submit only when there was nothing to join (`NothingLeftToJoin`), is a forced answer newer (`ForcedRunIsNewer`), is what is served a run of that report (`ServedRunMatches`), is a running task never forgotten (`ActiveRunNotForgotten`), and do the handlers implement `ReportRegister` (`KeepsRegister`)? | holds |
| `Reports_live` | Failures, crashes, tasks that never end, locks that expire under their holder, ageing runs: does every request end (`EveryRequestAnswered`), is an abandoned lock freed (`AbandonedLockFreed`) and only ever by its owner (`LockFreedByOwner`), and is a run that is served of an allowed age (`ServedWithinAge`)? | holds |
| `Reports_outlived` | "Concurrent requests for the same report join one generation" (`README.md`) when a backend call outlasts the lock | violated |
| `Reports_forced` | "`max_age=0` explicitly forces a new run" (`README.md`) when another request submitted a task just before | violated |
| `Sessions_live` | All that ends a session or answers a request on one process, with a failure: `SignedOutOnlyIfRejected`, `ClearedCookieMeansGone`, `RefusedLoginUnusable`, `PendingIsRunning`, `EveryRequestAnswered` | holds |
| `Sessions_final` | Two processes: is a logout final for later requests (`LogoutIsFinal`), can an old validation let a request in (`NoValidationOutlivesSession`), can a touch bring a session back (`NeverResurrected`)? | holds |
| `Sessions_settings` | "A `403 Forbidden` response ... does not sign the user out" (`README.md`) for the settings route | violated |
| `ServedSettings`, pages | How stale a page can be (`StaleNoLongerThanTtl`), whether a session sees its own update (`OwnUpdateServed`), the bound of the cache (`CacheBounded`) | holds |
| `ServedSettings`, service | Two requests through the backend's upgrade, migrations at once, failed calls and a full hash: does the service implement `SettingsDocument` (`Document`), and does a key that nobody writes keep its value (`UnwrittenKeysKept`)? | holds |
| `Browser`, settings | Is an edit kept until the server has it (`EditsSurvive`) and shown (`EditsShown`), does it stay in its account (`OwnAccountOnly`), and is there always something that will send what is pending (`PendingHasTrigger`)? | holds |
| `Browser`, leases | One task for an intent (`OneTaskPerIntent`), a new one for a new intent (`NewIntentNewTask`), and the refinement `KeepsPromise` | holds |
| `Browser`, the others | Does a guarded save merge (`SaveMerges`), does a list come back with its own history (`HistoryComesBack`), is a task's end announced once and in time (`AnnouncedOnce`), is only deleted what a question was about (`DeletesAsAsked`), and does the phrase stand for what is staged (`PhraseIsForStaged`)? | holds |
| `Leases_completed` | "a later intentional submission of the same payload creates a new task" (`docs/idempotent-operations.md`) when the storage refuses the write that removes the lease | violated |
| `Restore_asked` | "Confirmation requires the exact phrase ... and a second danger dialog" (`README.md`) when another staging is answered while the dialog is open | violated |
| `Editing_compose` | "Unrelated concurrent data edits compose" (`README.md`) when the object is loaded again during the edit | violated |

`Reports_live`, `Sessions_live`, `ServedSettings` and `Browser` check `TypeOK` as
well, that of `UserSettingsServer` and of `UserSettingsClient` in the last two;
`ServedSettings` also checks `BootstrapTypeOK`.

The six violations are disagreements between the code and its documentation,
listed with quotations under `findings` in `PROJECT.json`:

* The report lock lives 35 s and is not renewed, and backend calls have no
  timeout. If the submission is answered later than that, a second request
  takes the lock and submits a duplicate. `Reports_safety` and the theorem
  `Exclusive` say what is needed to exclude it: `TtlCoversTail`, a lock that
  covers the wait and the calls that follow the deadline.
* A forced refresh joins a task that another request submitted before the
  refresh arrived, if its id is stored only afterwards. What does hold is
  `ForcedRunIsNewer`: the run differs from the one remembered on arrival.
* The settings route takes every answer of `/iam/me` but a 200 for an expired
  session, and so destroys the session on a 403 or an outage.
* `complete` removes the lease from memory and writes the others to the storage.
  When that write fails, the completed lease stays there, the next page loads it,
  and a later submission of the same payload sends its key: it is answered with
  the earlier task. `NewIntentNewTask` is what holds, with that case excepted.
* `onConfirmRestore` restores what is staged when the question is answered. A
  staging that is answered while the question about another backup is open
  replaces it, and is restored without its phrase having been typed.
  `PhraseIsForStaged` is what holds: up to the question, phrase and staged backup
  belong together; and the theorem `OnlyOvertakenIsNotAsked` says that such a
  staging is the only way to restore what was not asked about.
* `submitCurrentEdits` compares the draft with `objectQuery.data` of the moment,
  and a refetch during an edit changes the one and not the other: the tests are
  then made from the new data and hold, and the draft's older values overwrite
  what somebody else has changed in fields the user never touched. `SaveMerges`
  is what remains: without such a refetch the patch merges.

### What the models admit and no run forbids

Reading and modelling met behaviours that the code does not rule out and no
document promises otherwise. The models contain them, and the properties are
worded so as to leave them out:

* A value that is still unconfirmed is sent again whenever a snapshot differs
  (`user-settings-client.ts:195`), also over a later choice on another device.
  And an edit that a snapshot has confirmed is lost when an older orphan of a
  closed page is served after it.
* A preference chosen on a page that does not know its principal (`/iam/me` was
  not answered) is cleared by the next page that does not know it either
  (`user-settings-sync.tsx:105`), though the page says that it is saved on the
  device.
* A value changed and changed back while the first request is in flight is no
  longer unconfirmed when that request is refused.
* After a partly failed bulk deletion the selection stays, with the deleted
  objects in it: the retry fails on them with 404.
* When the list changes, its key in `sessionStorage` holds the history of the list
  before for the time of a render: a page loaded again in between keeps that, and
  Previous sends the other list's cursor for the new list.
* When a list is entered again by a link its history is still that of the last
  visit, so Previous leads where the user has not been.

### Bounds

* Reports: the hazards are between two requests, in `Reports_safety` a page and a
  refresh, either of which may come first. A third matters where one frees
  what another took while somebody waits, and for a deletion against a
  replacement (`ActiveRunNotForgotten`), which takes one request for each run and
  one that deletes: the theorems have any number of requests. Two tasks let a newer run meet
  an older one; one edit of the template separates two cache keys. Times are in
  ticks: the deadline is one tick, `BackendLag` and `StoreLag` one tick each, and
  `LockTtl` 8 is the least that `TtlCoversTail` allows with them. `Reports_live`
  takes 2, so that locks do expire under a holder, and one failure, since a
  second one meets no handler the first could not meet.
* Sessions: two requests can lead and join, destroy and load; three let a
  logout be answered between two others. One session suffices where no login
  runs; with logins there are two, so that an old cookie meets a new session. One
  process shares maps, two only share Valkey.
* ServedSettings, pages: room for two of three sessions, so that the oldest entry
  is dropped while its load is pending; three visits, so that a page meets what two
  others left; an entry lives two ticks, and two updates make two kinds of stale.
* ServedSettings, service: two requests can both migrate, or one migrate while the
  other writes. Three keys and room for two of them: one that is full, one that is
  written, one that nobody writes.
* Browser, settings: two principals, one with a value of its own, and a page that
  does not know whose it is with another; one orphan meets a later request of the
  same key. Keys do not meet in the code, one suffices.
* Browser, leases: two operations and room for one lease, so that one evicts the
  other; two calls at a time; three keys, so that the late 202 of a reopened
  dialog meets the lease of the next intent; a lease lives one tick. With room for
  one, which lease is the oldest is no question; the proofs have any number.
  `Leases_completed` has room for two, and four ticks, so that neither eviction nor
  expiry is needed for what it finds.
* Browser, editing: one field with two subfields, two values, no value or an
  object: all pairs of shapes; a limit of three operations, so that one change
  is sent as a patch and two as the whole document. A second save finds nothing
  the first could not: after one fails, the state is one that edits lead to.
* Browser, the others: two lists of three pages with two navigations on their
  way and one entry of history, which suffices to tell a list's own history from
  another's; three tasks and a window of two; two objects and two batches; two
  backups, and two stagings in flight, so that a late one meets a newer one.

Values below these leave a case out; `MaxOthers`, `MaxIntents`, `MaxFaults`,
`MaxLogins`, `MaxTasks`, `MaxRevision`, `MaxVersion` and `AgeCap` bound counters only.

### Fairness and deadlock

Reports: calls are answered or fail, and time passes. Nothing is assumed of
tasks, of arriving requests or of failures: a task may run for ever, and the
handler's own deadline must end the request. Sessions: handlers go on when their
call is answered, and Valkey executes and answers what it was sent. This is what
an event loop and a connection with a command timeout give. The browser need
not send, nor any session expire.

The other modules state none: what they promise is safety, or, like
`PendingHasTrigger`, says of every state that the next step is due.

`CHECK_DEADLOCK FALSE` is set for the session runs, for `Browser` and for
`Leases_completed`, `Restore_asked` and `Editing_compose`. Once every request of the instance is answered, all sessions
are gone and no failures are left, the system has nothing to do; and a page on
which the user does nothing more, or whose counters are at their bounds, rests.

## What is proved

The theorems hold for every number of requests, processes, reports, tasks,
keys, principals, documents and failures. They assume the named `ASSUME`s of the
modules, which the runs evaluate.

`TemplateReportsProofs`

* `TypeCorrect`.
* `Exclusive`: two requests never generate for one report at once, provided
  `TtlCoversTail`. By itself the property is not inductive. `HolderInv` adds
  that who is in the guarded part of the handler holds the lock and that its
  remaining time covers what the request may still spend there: the time to the
  deadline and, after it, the longest sequence of calls left (`Tail`), less what
  the present call has used. Each `Tick` takes one off both sides.
* `NothingToJoin`: under the same condition, a request submits a task only if
  every run it could have joined was tried and dropped. `JoinInv` adds what the
  holder has found remembered since it took the lock: all others can only remove
  an id, never set one.
* `ServedIsAsked`: what is served is a finished run of the variant asked for,
  from the revision that was read or a later one. `AnswerInv` says why of each
  place in the handler: the backend numbers runs as it accepts them
  (`Numbered`), what is remembered is filed under its own report (`Filed`), and
  every id a request has at hand came from one of the two (`AskedWell`,
  `WorksWell`).
* `ReusedIsYoung`: while a request loads the output of a run it judged young
  enough, that run grows older no faster than the call's own clock (`AgeInv`).
* `RunningIsRemembered` and `OwnLockIsFreed`, about steps: a request removes only
  the id it has seen ended (`AnswerInv`), and only a lock that is its own.
* `ForcedIsNewer` and `NothingOlderIsRemembered`, under `TtlCoversTail`.
  `NewerInv` compares numbers of runs: what is remembered is never less than
  what a request found on arrival, and who is about to store a run has a greater
  number than everything remembered or found. That last is where the lock is
  needed: two holders could submit in one order and store in the other.
* `RegisterIsImplemented`, under `TtlCoversTail`: every step of the handlers, the
  store and the backend is a step of `ReportRegister` or none. `RegisterInv` is
  `JoinInv`, `NewerInv` and `Placed`, which says where in the handler a request
  can be with what at hand, so that its standing is what the register's step
  leaves.
* `RegisterIsEnough`: the register's promise and the types by themselves give
  `ExclusiveGeneration` and `RememberedNeverRegresses`. So `ReportRegister` says
  no less than the two properties the lock is there for.
* `AnsweredBeforeLong`: a request is under way for less than `WaitTimeout + 3 *
  BackendLag + 5 * StoreLag` ticks, whatever fails, with any `LockTtl` and however
  many runs it joins, tries and drops. `Timely` is the invariant, `Rest` the
  longest sequence of calls from each place to the answer. It assumes what `Tick`
  does, that a call is answered or has failed within its lag: the handler's
  deadline ends its wait, and not the calls that follow. The bound is exact: TLC finds no behaviour that exceeds it and one that reaches it,
  on two requests with one failure; as the run takes long it is not kept.

`SessionsProofs`

* `TypeCorrect`.
* `SharedIsRunning`: whoever joins a pending hydration or validation joins one
  that its request still runs, on the same process and for the same session; a
  promise that is gone is never joined.
* `EndedOnlyIfRejected`: apart from logouts and the settings route, a session
  is deleted only with a dead token, whatever fails and in whatever order
  answers come.
* `GoneStaysGone`: only the create of a login brings a session into Valkey.

Its invariant `IInv` says of every request by itself that it has the session it
works for, leads what it runs, and has a true verdict (`Local`), and of every
connection that commands and waiting requests match one to one (`WireMatched`).
The matching is needed because a failing command is known to its handler only
by its place in the connection. A second invariant, `Known`, has it that every
id in use was issued with a token: without it "not live" would not mean "dead".
For each step it is shown that the requests it touches are in order afterwards,
and that the connections change for one request only (`Rewired`).

* `ClearedIsGone` and `RefusedIsUseless`. A session id is `Over` when its login
  can no longer make its session: no request is about to, and no create for it
  is on its way. `EndInv` says that every id in a cookie, in a command and in a
  request that is not a login is over, so that a session found absent, or
  deleted, is gone for good (`GoneStays`), and that a login makes one session
  only. What a step may do to a request (`Moves`) and to the commands
  (`WireEvolves`) is shown to be enough, then that each step is of that kind.

`SessionHistoryProofs`

* `LogoutIsTheEnd`. A request that comes after the answer of a logout could be
  given the session only by a hydration it joins. `LogoutInv` says that the
  session is gone and that whoever still hydrates it on that process is `Blind`:
  none of its commands has found the session or will. At the moment of the
  answer this follows from `QueueInv`: the logout has taken the hydration out of
  the map before it sent its `DEL`, so a hydration that is in the map now sent
  its commands later, on the same connection, which executes them in order.
* `NoOldVerdict`. `DropInv`: a validation that can be joined on a process that
  destroys a dead session has no positive verdict, and will get none.

What a step may tell a request, and from whom, is stated once (`Follows`) and
shown of every step of `Sessions`; `LogoutInv` and `DropInv` rest on that.

`LayoutBootstrapProofs`

* `BootstrapTypes`, `NeverStaleBeyondTtl`, `OwnUpdatesShown` and
  `CacheStaysBounded`. The invariant bounds from below what a remembered load has
  settled with (`Recent`): by the settings of `CacheTtl - left + 1` ticks ago,
  one more than the age of the entry since an update may come after the read in
  the same tick, and by the session's last answered update on the process. It is
  stated of the entry and not of the page, since a load may settle long after
  pages have joined it. `Bounded` adds that the cache has finitely many entries,
  without which their number means nothing.

`UserSettingsServerProofs`

* `TypeCorrect`, and `UnwrittenKeysAreKept`: what no request writes is the same
  in the hash, in every copy of it that a migration holds, and in the backend
  once there is a namespace.
* `SettledIsForGood`: once the migration is over it stays over, and from then on
  every good answer is the document of that step and no acknowledged update is
  lost. It follows from `ImplementsDocument` and the promise of the document.
* `ImplementsDocument`: every step is one of `SettingsDocument` or none. The
  invariant says of every request at every await what the values it holds are:
  a copy of the hash has held values only, and who may still clear it or
  write it to the backend is one who looked before.

`UserSettingsClientProofs`

* `ClientTypeCorrect`, `EditsAreKept`, `EditsAreShown`, `PendingIsTriggered` and
  `OwnAccountIsKept`. Four invariants, one on top of the other: `Types` (the
  module's copy of the unconfirmed updates is the stored one), `Edits` (what is
  owed is unconfirmed, and so is what is pending or in flight unless it is
  older), `Triggers` (pending updates have a timer or a flight) and `Own` (each
  copy of a value is of the principal it is kept for).

`OperationLeasesProofs`

* `LeasesTypeCorrect`, `OneTaskForOneIntent`, `NewTaskForNewIntent` and the
  refinement `LeasesKeepPromise`, from one invariant: a key has one operation
  and intent (`KeyOwned`), lease and call agree on it (`KnownIntents`), memory
  and storage agree on what is not forgotten (`Mirrors`), an accepted key has
  its task (`AcceptedIsMade`), and an open intent that made a task still has
  that task's lease (`AllKept`). `NewTaskForNewIntent` is about an operation that
  is not forgotten, as its property says.
* `LeasesStayBounded`: neither copy ever has more leases than the limit, whatever
  the storage refuses. While the storage works memory is what is stored, or empty
  (`OneCopy`), so that what is loaded is one of the two and not their union.
* `PromiseIsEnough`: whoever keeps the promise of `SubmittedTasks` makes one task
  for an intent and confirms none that was not made; with the refinement,
  `ConfirmedWasMade` says so of the leases.

`BrowserProofs`

* `KeptHistoryComesBack`, `EndsAreAnnounced`, `DeletedWasConfirmed` and
  `PhraseStandsForStaged`, each with an invariant about what is still on its way:
  the effects of a commit, the poll's answer, the batches, the stagings.
* `OnlyOvertakenIsNotAsked`: a step that starts to restore something else than the
  question was about comes after a staging that was answered while it was open.
* `GuardedSavesMerge`. The step that applies a patch is looked at path by path
  (`MergedAt`): a path that was touched has its test, so it was as in the
  origin and is as in the draft; one that was not, and none of whose ancestors
  was replaced, is left alone. That no parent is replaced by accident is what
  `collect`'s descent guarantees.
* `PlansAreExact`: the patch that `buildObjectDataPatchPlan` makes passes its own
  tests on the document it was made from and turns that into the draft, for any
  two documents. `SavesAreExact`: so does every guarded save that meets that
  document, as a patch, a replacement of the whole or an inline edit.

Only model-checked: the three liveness properties, which depend on fairness and
on enabledness. Every other property of a passing run is one of the theorems.
Proved and not kept in a run, because they follow from what one checks or take
long: `RememberedNeverRegresses` (the refinement `KeepsRegister` gives it),
`AnsweredInTime`, `ConfirmedIsMade`, `SettledForGood`, `LeasesBounded`,
`RestoredUnlessOvertaken` and `SavesLeaveTheDraft`. The six disagreements are shown by a counterexample each.

## Not modelled

What a report renders, how keys, cookies and URLs are built, and the contents of
headers: conversions without state. Of Valkey, eviction under memory pressure
and the loss of acknowledged writes: the code assumes neither. Of the backend,
everything but tokens, tasks, templates, settings and the objects' data.

Most of the source is the display: tables, forms, dialogs and their queries, one
component at a time with no state that two actors share, and the generated API
client. Of the parts that are modelled, these are left out: a second tab of the
browser that writes the same `localStorage` key (`user-settings-client.ts:88`),
a `localStorage` that refuses a write, and settings of the device's scope; a
second question that replaces the first; the other tables' bulk operations,
which repeat that of the objects with other requests; the deeper levels of an
object's data; the unread count. `PROJECT.json` gives the reason for each
component that is not modelled.

## Plan

What is left, in the order of what could go wrong most:

1. A second tab in `UserSettingsClient`: `persisted` written by two modules, each
   from the copy it read. It breaks the equation of the module's copy and the
   stored one on which `Types` rests, so the invariant has to be restated per tab.
2. The creation of a service account and its token: a retry of the token while
   the "open account" link is offered loses the token, which is shown once.
3. The permission editor and the computed fields, whose `If-Match` carries a tag
   fetched when saving and so guards only the time of the request.
4. An abstract life cycle of a session (issued, live, over), refined by
   `Sessions`, which would gather its theorems about what is gone.
5. Pinned and recent items as operators checked against reference definitions;
   the bulk operations of the other tables as instances of `BulkDelete`.
