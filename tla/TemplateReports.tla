-------------------------- MODULE TemplateReports --------------------------
(***************************************************************************)
(* Bookmarkable template reports: src/src/lib/server-template-report.ts    *)
(* over the Valkey run store of template-report-run-store.ts.              *)
(*                                                                         *)
(* A request handler resolves a report through a chain of awaited calls to *)
(* the backend and to Valkey; every await is one action here, so handlers  *)
(* of one or of several server processes interleave at exactly the points  *)
(* where the program yields.  Time is a Tick that moves every timer: the   *)
(* wait deadline of a request, the PX expiry of a lock, the age of a       *)
(* report and the time a request has spent on its pending call.            *)
(***************************************************************************)
EXTENDS Naturals, Integers, FiniteSets

CONSTANTS
    Requests,     \* request handlers; each draws its own lock owner UUID
    Nobody,       \* no lock owner
    Variants,     \* session, template and normalised overrides of a report
    MaxRevision,  \* bound: template revisions
    MaxTasks,     \* bound: export tasks the backend accepts
    Offered,      \* Offered[r]: the kinds of request r may be
    MaxAges,      \* the max_age values requests carry
    WaitTimeout,  \* REPORT_WAIT_TIMEOUT_MS, in ticks
    LockTtl,      \* REPORT_LOCK_TTL_MS, in ticks
    BackendLag,   \* ticks a backend call, with the sleep before it, may take
    StoreLag,     \* ticks a Valkey call, with the sleep before it, may take
    AgeCap,       \* bound: ages above it are not told apart
    MaxFaults     \* bound: failed calls, lost replies and crashes

NoLimit == -1     \* a request without max_age
NoTask == 0       \* no remembered task id

ASSUME RequestsAssumption == Nobody \notin Requests
ASSUME TimesAssumption ==
    /\ WaitTimeout \in Nat
    /\ LockTtl \in Nat
    /\ LockTtl > 0
    /\ BackendLag \in Nat \ {0}
    /\ StoreLag \in Nat \ {0}
ASSUME BoundsAssumption ==
    /\ MaxRevision \in Nat \ {0}
    /\ MaxTasks \in Nat
    /\ AgeCap \in Nat
    /\ MaxFaults \in Nat
    /\ MaxAges \subseteq Nat \union {NoLimit}

Revisions == 1..MaxRevision
TaskIds == 1..MaxTasks
Keys == Variants \X Revisions

VARIABLES
    template,     \* current revision of the saved template (backend)
    tasks,        \* export tasks (backend)
    remembered,   \* report-run:<key>, the latest task id (Valkey)
    lock,         \* report-run:<key>:lock, its owner (Valkey)
    ttl,          \* ticks until the lock expires (Valkey)
    pc,           \* the call a request is waiting for
    mode,         \* which part of the resolution the call belongs to
    want,         \* kind, max_age and variant of a request
    rev,          \* template revision the request read
    initial,      \* initialTaskId
    task,         \* task id the request is working with
    left,         \* ticks until runtime.deadline
    lag,          \* ticks since the request's last answered call
    result,       \* how the request ended
    faults        \* failures so far

backend == <<template, tasks>>
store == <<remembered, lock, ttl>>
asked == <<want, rev, initial>>
vars == <<template, tasks, remembered, lock, ttl, pc, mode, want, rev,
          initial, task, left, lag, result, faults>>

Kinds == {"render", "prepare", "inspect"}
Modes == {"arriving", "holding", "generating", "waiting"}
LocalPcs == {"await", "loop"}
BackendPcs == {"revision", "validate", "poll", "output", "submit",
               "inspectFetch"}
StorePcs == {"lookup", "forget", "lock", "recheck", "remember", "release",
             "peek", "inspect", "inspectForget"}
CallPcs == BackendPcs \union StorePcs
Pcs == {"idle", "done"} \union LocalPcs \union CallPcs
Statuses == {"unused", "active", "ready", "failed", "expired", "gone"}
Results == {"none", "ok", "timeout", "error", "crashed"}

TypeOK ==
    /\ template \in Revisions
    /\ tasks \in [TaskIds -> [status: Statuses, age: 0..AgeCap,
                              rev: Revisions, variant: Variants]]
    /\ remembered \in [Keys -> TaskIds \union {NoTask}]
    /\ lock \in [Keys -> Requests \union {Nobody}]
    /\ ttl \in [Keys -> 0..LockTtl]
    /\ pc \in [Requests -> Pcs]
    /\ mode \in [Requests -> Modes]
    /\ want \in [Requests -> [kind: Kinds, maxAge: MaxAges \union {0},
                              variant: Variants]]
    /\ rev \in [Requests -> Revisions]
    /\ initial \in [Requests -> TaskIds \union {NoTask}]
    /\ task \in [Requests -> TaskIds \union {NoTask}]
    /\ left \in [Requests -> 0..WaitTimeout]
    /\ lag \in [Requests -> 0..(BackendLag + StoreLag)]
    /\ result \in [Requests -> Results]
    /\ faults \in 0..MaxFaults

-----------------------------------------------------------------------------
(* Helpers                                                                 *)

KeyWithoutRevision(r) == <<want[r].variant, 1>>

\* reportCacheKey: session, template, revision and canonical request.
Key(r) == <<want[r].variant, rev[r]>>

\* r is between acquiring the lock and releasing it (the try block).
InLock(r) ==
    \/ pc[r] \in {"recheck", "submit", "remember", "release"}
    \/ /\ pc[r] \in {"validate", "await", "poll", "forget", "output"}
       /\ mode[r] \in {"holding", "generating"}

Busy(r) == pc[r] \notin {"idle", "done"}

\* isActiveTask and isSuccessfulTask.
Active(t) == tasks[t].status = "active"
Successful(t) == tasks[t].status \in {"ready", "expired"}

\* A joined task is tried without an age limit, the one found on arrival
\* with the limit of the request.
LimitOf(r) == IF mode[r] = "arriving" THEN want[r].maxAge ELSE NoLimit

FreshWheneverFinished(t, limit) == TRUE

\* taskIsFresh
Fresh(t, limit) ==
    \/ limit = NoLimit
    \/ /\ limit # 0
       /\ tasks[t].age <= limit

\* The test of tryCachedReport: a task that is gone, failed, without output,
\* expired or too old is not served.
Usable(r, t) ==
    /\ Successful(t)
    /\ tasks[t].status # "expired"
    /\ Fresh(t, LimitOf(r))

GoTo(r, where) == pc' = [pc EXCEPT ![r] = where]
Answered(r) == lag' = [lag EXCEPT ![r] = 0]

DeadlineIgnored(r) == FALSE

\* now() has reached runtime.deadline
DeadlinePassed(r) == left[r] = 0

\* Leave with an outcome; inside the try block, through the finally clause.
Finish(r, outcome) ==
    /\ GoTo(r, IF InLock(r) /\ pc[r] # "release" THEN "release" ELSE "done")
    /\ result' = [result EXCEPT ![r] = outcome]

-----------------------------------------------------------------------------
Init ==
    \E v \in Variants :
        /\ template = 1
        /\ tasks = [t \in TaskIds |-> [status |-> "unused", age |-> 0,
                                       rev |-> 1, variant |-> v]]
        /\ remembered = [k \in Keys |-> NoTask]
        /\ lock = [k \in Keys |-> Nobody]
        /\ ttl = [k \in Keys |-> 0]
        /\ pc = [r \in Requests |-> "idle"]
        /\ mode = [r \in Requests |-> "arriving"]
        /\ want = [r \in Requests |->
                      [kind |-> "render", maxAge |-> 0, variant |-> v]]
        /\ rev = [r \in Requests |-> 1]
        /\ initial = [r \in Requests |-> NoTask]
        /\ task = [r \in Requests |-> NoTask]
        /\ left = [r \in Requests |-> 0]
        /\ lag = [r \in Requests |-> 0]
        /\ result = [r \in Requests |-> "none"]
        /\ faults = 0

-----------------------------------------------------------------------------
(* The backend's side: tasks run, outputs expire, tasks are removed, the   *)
(* saved template is edited.                                               *)

SetStatus(t, from, to) ==
    /\ tasks[t].status \in from
    /\ tasks' = [tasks EXCEPT ![t] = [@ EXCEPT !.status = to, !.age = 0]]
    /\ UNCHANGED <<template, store, pc, mode, asked, task, left, lag, result,
                   faults>>

TaskSucceeds(t) == SetStatus(t, {"active"}, "ready")
TaskFails(t) == SetStatus(t, {"active"}, "failed")
OutputExpires(t) == SetStatus(t, {"ready"}, "expired")
TaskRemoved(t) == SetStatus(t, {"active", "ready", "failed", "expired"}, "gone")

TemplateUpdated ==
    /\ template < MaxRevision
    /\ template' = template + 1
    /\ UNCHANGED <<tasks, store, pc, mode, asked, task, left, lag, result,
                   faults>>

(* The EX expiry of a remembered task id.                                  *)
RememberedExpires(k) ==
    /\ remembered[k] # NoTask
    /\ remembered' = [remembered EXCEPT ![k] = NoTask]
    /\ UNCHANGED <<backend, lock, ttl, pc, mode, asked, task, left, lag,
                   result, faults>>

LockOutlivesItsTime(k) == lock[k]

\* The PX expiry of a lock.
LockAfterTick(k) == IF ttl[k] > 1 THEN lock[k] ELSE Nobody

RemainingUnclamped(r) == left[r] - 1

\* runtime.deadline - now() one tick later; what is past is all the same.
Remaining(r) == IF left[r] > 0 THEN left[r] - 1 ELSE 0

\* How long r may stay where it is.
LagLimit(r) == IF pc[r] \in BackendPcs THEN BackendLag ELSE StoreLag

(* One tick.  Calls answer within their limit; a lock whose time is up is  *)
(* gone.                                                                   *)
Tick ==
    /\ \A r \in Requests : Busy(r) => lag[r] < LagLimit(r)
    /\ lag' = [r \in Requests |-> IF Busy(r) THEN lag[r] + 1 ELSE lag[r]]
    /\ left' = [r \in Requests |-> Remaining(r)]
    /\ ttl' = [k \in Keys |-> IF ttl[k] > 0 THEN ttl[k] - 1 ELSE 0]
    /\ lock' = [k \in Keys |-> LockAfterTick(k)]
    /\ tasks' = [t \in TaskIds |->
                    IF tasks[t].status = "ready" /\ tasks[t].age < AgeCap
                    THEN [tasks[t] EXCEPT !.age = @ + 1] ELSE tasks[t]]
    /\ UNCHANGED <<template, remembered, pc, mode, asked, task, result,
                   faults>>

-----------------------------------------------------------------------------
(* A request arrives.  The report route renders under the max_age of the   *)
(* query, the refresh route prepares with max_age 0, the status route      *)
(* inspects the revision its page was rendered with.                       *)

Arrive(r, ask) ==
    /\ pc[r] = "idle"
    /\ ask.kind \in Offered[r]
    /\ want' = [want EXCEPT ![r] = ask]
    /\ left' = [left EXCEPT ![r] = WaitTimeout]
    /\ UNCHANGED <<backend, store, mode, initial, task, lag, result, faults>>

Render(r, v, age) ==
    /\ Arrive(r, [kind |-> "render", maxAge |-> age, variant |-> v])
    /\ GoTo(r, "revision")
    /\ UNCHANGED rev

Prepare(r, v) ==
    /\ Arrive(r, [kind |-> "prepare", maxAge |-> 0, variant |-> v])
    /\ GoTo(r, "revision")
    /\ UNCHANGED rev

Inspect(r, v) ==
    /\ Arrive(r, [kind |-> "inspect", maxAge |-> 0, variant |-> v])
    /\ GoTo(r, "inspect")
    /\ \E seen \in 1..template : rev' = [rev EXCEPT ![r] = seen]

\* templateRevision
ReadRevision(r) ==
    /\ pc[r] = "revision"
    /\ rev' = [rev EXCEPT ![r] = template]
    /\ GoTo(r, "lookup")
    /\ Answered(r)
    /\ UNCHANGED <<backend, store, mode, want, initial, task, left, result,
                   faults>>

\* A remembered task is tried unless max_age is 0.
TriedOnArrival(r, found) == found # NoTask /\ want[r].maxAge # 0

\* initialTaskId = getTaskId(cacheKey)
Lookup(r) ==
    LET found == remembered[Key(r)] IN
    /\ pc[r] = "lookup"
    /\ initial' = [initial EXCEPT ![r] = found]
    /\ task' = [task EXCEPT ![r] = found]
    /\ mode' = [mode EXCEPT ![r] = "arriving"]
    /\ GoTo(r, IF TriedOnArrival(r, found) THEN "validate" ELSE "loop")
    /\ Answered(r)
    /\ UNCHANGED <<backend, store, want, rev, left, result, faults>>

-----------------------------------------------------------------------------
(* tryCachedReport                                                         *)

\* What tryCachedReport does with a task that is not active.
Judge(r) ==
    IF ~Usable(r, task[r])
    THEN GoTo(r, "forget") /\ UNCHANGED result
    ELSE IF want[r].kind = "render"
         THEN GoTo(r, "output") /\ UNCHANGED result
         ELSE Finish(r, "ok")

\* fetchTask; a task that is gone counts as unusable.
Validate(r) ==
    /\ pc[r] = "validate"
    /\ IF Active(task[r])
       THEN GoTo(r, "await") /\ UNCHANGED result
       ELSE Judge(r)
    /\ Answered(r)
    /\ UNCHANGED <<backend, store, mode, asked, task, left, faults>>

\* A mutation of Await that takes a run which is not ready in time for one
\* that is of no use.
AwaitForgetting(r) ==
    /\ pc[r] = "await"
    /\ IF DeadlinePassed(r)
       THEN GoTo(r, "forget") /\ UNCHANGED result
       ELSE GoTo(r, "poll") /\ UNCHANGED result
    /\ UNCHANGED <<backend, store, mode, asked, task, left, lag, faults>>

\* waitForTask: the deadline is looked at before each sleep.
Await(r) ==
    /\ pc[r] = "await"
    /\ IF DeadlinePassed(r)
       THEN Finish(r, "timeout")
       ELSE GoTo(r, "poll") /\ UNCHANGED result
    /\ UNCHANGED <<backend, store, mode, asked, task, left, lag, faults>>

\* completeTask for the request's own task; prepare does not load the output.
Complete(r) ==
    IF ~Successful(task[r])
    THEN Finish(r, "error")
    ELSE IF want[r].kind = "render"
         THEN GoTo(r, "output") /\ UNCHANGED result
         ELSE Finish(r, "ok")

\* waitForTask: a task that vanishes while waited for is a 404.
Poll(r) ==
    /\ pc[r] = "poll"
    /\ \/ /\ tasks[task[r]].status = "gone"
          /\ Finish(r, "error")
       \/ /\ Active(task[r])
          /\ GoTo(r, "await")
          /\ UNCHANGED result
       \/ /\ tasks[task[r]].status \notin {"gone", "active"}
          /\ IF mode[r] = "generating" THEN Complete(r) ELSE Judge(r)
    /\ Answered(r)
    /\ UNCHANGED <<backend, store, mode, asked, task, left, faults>>

\* deleteTaskId: compare and delete, then on to what follows the attempt.
DeleteIfMatches(k, t) ==
    remembered' = [remembered EXCEPT ![k] = IF @ = t THEN NoTask ELSE @]

AlwaysTriesAgain(r) == "loop"

\* After an attempt inside the lock comes the request's own submission.
AfterAttempt(r) == IF mode[r] = "holding" THEN "submit" ELSE "loop"

Forget(r) ==
    /\ pc[r] = "forget"
    /\ DeleteIfMatches(Key(r), task[r])
    /\ GoTo(r, AfterAttempt(r))
    /\ Answered(r)
    /\ UNCHANGED <<backend, lock, ttl, mode, asked, task, left, result, faults>>

\* fetchRawOutput; a 404 or 410 ends the attempt on a remembered task, and
\* is the answer for the request's own task.
Output(r) ==
    /\ pc[r] = "output"
    /\ IF tasks[task[r]].status = "ready"
       THEN Finish(r, "ok")
       ELSE IF mode[r] = "generating"
            THEN Finish(r, "error")
            ELSE GoTo(r, "forget") /\ UNCHANGED result
    /\ Answered(r)
    /\ UNCHANGED <<backend, store, mode, asked, task, left, faults>>

-----------------------------------------------------------------------------
(* The generation loop of resolveBookmarkableTemplateReport                *)

Loop(r) ==
    /\ pc[r] = "loop"
    /\ IF DeadlinePassed(r)
       THEN Finish(r, "timeout")
       ELSE GoTo(r, "lock") /\ UNCHANGED result
    /\ UNCHANGED <<backend, store, mode, asked, task, left, lag, faults>>

LockAlwaysFree(k) == TRUE

\* SET NX PX: taken only if no live lock is there.
LockFree(k) == lock[k] = Nobody

TakeLock(r, k) ==
    /\ lock' = [lock EXCEPT ![k] = r]
    /\ ttl' = [ttl EXCEPT ![k] = LockTtl]

TryAcquireLock(r) ==
    /\ pc[r] = "lock"
    /\ IF LockFree(Key(r))
       THEN TakeLock(r, Key(r)) /\ GoTo(r, "recheck")
       ELSE UNCHANGED <<lock, ttl>> /\ GoTo(r, "peek")
    /\ Answered(r)
    /\ UNCHANGED <<backend, remembered, mode, asked, task, left, result, faults>>

NothingJoinable(r, found) == FALSE
JoinsWhateverIsThere(r, found) == found # NoTask

\* currentTaskId is one that appeared since the arrival.
Joinable(r, found) == found \notin {NoTask, initial[r]}

Join(r, joining, otherwise) ==
    LET found == remembered[Key(r)] IN
    IF Joinable(r, found)
    THEN /\ task' = [task EXCEPT ![r] = found]
         /\ mode' = [mode EXCEPT ![r] = joining]
         /\ GoTo(r, "validate")
    ELSE GoTo(r, otherwise) /\ UNCHANGED <<task, mode>>

Recheck(r) ==
    /\ pc[r] = "recheck"
    /\ Join(r, "holding", "submit")
    /\ Answered(r)
    /\ UNCHANGED <<backend, store, asked, left, result, faults>>

Peek(r) ==
    /\ pc[r] = "peek"
    /\ Join(r, "waiting", "loop")
    /\ Answered(r)
    /\ UNCHANGED <<backend, store, asked, left, result, faults>>

\* The backend accepts the run, under the template it has now.
NextTask == Cardinality({t \in TaskIds : tasks[t].status # "unused"}) + 1

CreateTask(r) ==
    /\ NextTask \in TaskIds
    /\ tasks' = [tasks EXCEPT ![NextTask] =
                    [status |-> "active", age |-> 0, rev |-> template,
                     variant |-> want[r].variant]]
    /\ UNCHANGED template

Submit(r) ==
    /\ pc[r] = "submit"
    /\ CreateTask(r)
    /\ task' = [task EXCEPT ![r] = NextTask]
    /\ mode' = [mode EXCEPT ![r] = "generating"]
    /\ GoTo(r, "remember")
    /\ Answered(r)
    /\ UNCHANGED <<store, asked, left, result, faults>>

\* The backend refuses the run (here: more than MaxTasks).
SubmitRefused(r) ==
    /\ pc[r] = "submit"
    /\ NextTask \notin TaskIds
    /\ Finish(r, "error")
    /\ Answered(r)
    /\ UNCHANGED <<backend, store, mode, asked, task, left, faults>>

\* setTaskId
Remember(r) ==
    /\ pc[r] = "remember"
    /\ remembered' = [remembered EXCEPT ![Key(r)] = task[r]]
    /\ GoTo(r, "await")
    /\ Answered(r)
    /\ UNCHANGED <<backend, lock, ttl, mode, asked, task, left, result, faults>>

UnlockWhoeverOwns(r, k) ==
    /\ lock' = [lock EXCEPT ![k] = Nobody]
    /\ ttl' = [ttl EXCEPT ![k] = 0]

\* releaseLock: compare and delete.
Unlock(r, k) ==
    IF lock[k] = r
    THEN /\ lock' = [lock EXCEPT ![k] = Nobody]
         /\ ttl' = [ttl EXCEPT ![k] = 0]
    ELSE UNCHANGED <<lock, ttl>>

ReleaseLock(r) ==
    /\ pc[r] = "release"
    /\ Unlock(r, Key(r))
    /\ GoTo(r, "done")
    /\ Answered(r)
    /\ UNCHANGED <<backend, remembered, mode, asked, task, left, result, faults>>

-----------------------------------------------------------------------------
(* getBookmarkableTemplateReportStatus                                     *)

InspectLookup(r) ==
    LET found == remembered[Key(r)] IN
    /\ pc[r] = "inspect"
    /\ task' = [task EXCEPT ![r] = found]
    /\ IF found = NoTask
       THEN Finish(r, "ok")
       ELSE GoTo(r, "inspectFetch") /\ UNCHANGED result
    /\ Answered(r)
    /\ UNCHANGED <<backend, store, mode, asked, left, faults>>

InspectFetch(r) ==
    /\ pc[r] = "inspectFetch"
    /\ IF tasks[task[r]].status = "gone"
       THEN GoTo(r, "inspectForget") /\ UNCHANGED result
       ELSE Finish(r, "ok")
    /\ Answered(r)
    /\ UNCHANGED <<backend, store, mode, asked, task, left, faults>>

InspectForget(r) ==
    /\ pc[r] = "inspectForget"
    /\ DeleteIfMatches(Key(r), task[r])
    /\ Finish(r, "ok")
    /\ Answered(r)
    /\ UNCHANGED <<backend, lock, ttl, mode, asked, task, left, faults>>

-----------------------------------------------------------------------------
(* Failures: a call that fails without effect, a call whose effect happens *)
(* but whose reply is lost, and the loss of the server process.            *)

Fault ==
    /\ faults < MaxFaults
    /\ faults' = faults + 1

CallFails(r) ==
    /\ pc[r] \in CallPcs
    /\ Fault
    /\ Finish(r, "error")
    /\ Answered(r)
    /\ UNCHANGED <<backend, store, mode, asked, task, left>>

\* A lost SET NX reply either surfaces as an error, before the try block, or
\* is retried by the client, which then finds the lock taken.
LockReplyLost(r) ==
    /\ pc[r] = "lock"
    /\ LockFree(Key(r))
    /\ Fault
    /\ TakeLock(r, Key(r))
    /\ \/ Finish(r, "error")
       \/ GoTo(r, "peek") /\ UNCHANGED result
    /\ Answered(r)
    /\ UNCHANGED <<backend, remembered, mode, asked, task, left>>

SubmitReplyLost(r) ==
    /\ pc[r] = "submit"
    /\ Fault
    /\ CreateTask(r)
    /\ Finish(r, "error")
    /\ Answered(r)
    /\ UNCHANGED <<store, mode, asked, task, left>>

StoreReplyLost(r) ==
    /\ Fault
    /\ \/ /\ pc[r] = "remember"
          /\ remembered' = [remembered EXCEPT ![Key(r)] = task[r]]
          /\ UNCHANGED <<lock, ttl>>
       \/ /\ pc[r] \in {"forget", "inspectForget"}
          /\ DeleteIfMatches(Key(r), task[r])
          /\ UNCHANGED <<lock, ttl>>
       \/ /\ pc[r] = "release"
          /\ Unlock(r, Key(r))
          /\ UNCHANGED remembered
    /\ Finish(r, "error")
    /\ Answered(r)
    /\ UNCHANGED <<backend, mode, asked, task, left>>

Crash(r) ==
    /\ Busy(r)
    /\ Fault
    /\ GoTo(r, "done")
    /\ result' = [result EXCEPT ![r] = "crashed"]
    /\ UNCHANGED <<backend, store, mode, asked, task, left, lag>>

-----------------------------------------------------------------------------
Step(r) ==
    \/ ReadRevision(r) \/ Lookup(r)
    \/ Validate(r) \/ Await(r) \/ Poll(r) \/ Forget(r) \/ Output(r)
    \/ Loop(r) \/ TryAcquireLock(r) \/ Recheck(r) \/ Peek(r)
    \/ Submit(r) \/ SubmitRefused(r) \/ Remember(r) \/ ReleaseLock(r)
    \/ InspectLookup(r) \/ InspectFetch(r) \/ InspectForget(r)

Arrival(r) ==
    \E v \in Variants :
        \/ \E age \in MaxAges : Render(r, v, age)
        \/ Prepare(r, v)
        \/ Inspect(r, v)

Failure(r) ==
    \/ CallFails(r) \/ LockReplyLost(r) \/ SubmitReplyLost(r)
    \/ StoreReplyLost(r) \/ Crash(r)

Backend ==
    \/ TemplateUpdated
    \/ \E t \in TaskIds : TaskSucceeds(t) \/ TaskFails(t) \/ OutputExpires(t)
                          \/ TaskRemoved(t)

Next ==
    \/ \E r \in Requests : Arrival(r) \/ Step(r) \/ Failure(r)
    \/ Backend
    \/ \E k \in Keys : RememberedExpires(k)
    \/ Tick

Spec == Init /\ [][Next]_vars

(* Calls answer and time passes; nothing is assumed of the backend's tasks, *)
(* of arrivals or of failures.                                              *)
Fairness ==
    /\ WF_vars(Tick)
    /\ \A r \in Requests : WF_vars(Step(r))

FairSpec == Spec /\ Fairness
-----------------------------------------------------------------------------
(* Safety                                                                  *)

\* Two requests for the same report are never both between acquiring and
\* releasing its lock, as long as the lock's time covers the calls a holder
\* still makes (TtlCoversTail).
ExclusiveGeneration ==
    \A r1, r2 \in Requests :
        InLock(r1) /\ InLock(r2) /\ Key(r1) = Key(r2) => r1 = r2

\* A request never frees a lock that another request holds, even one that
\* finishes after its own lock expired and was taken over.
LockFreedByOwner ==
    [][\A k \in Keys :
          /\ lock[k] # Nobody /\ lock'[k] # lock[k]
          /\ pc' # pc
          => pc[lock[k]] = "release" /\ pc'[lock[k]] = "done"]_vars

\* The five seconds between REPORT_WAIT_TIMEOUT_MS and REPORT_LOCK_TTL_MS
\* cover the calls a holder still makes after its deadline (poll, output,
\* forget, submit, remember, release), and the lock covers the calls of a
\* holder that acquires it at its deadline.
TtlCoversTail ==
    /\ LockTtl >= WaitTimeout + 3 * BackendLag + 3 * StoreLag
    /\ LockTtl > 3 * BackendLag + 4 * StoreLag

\* "Concurrent requests for the same report join one generation through a
\* short Valkey lock instead of submitting duplicate tasks" (README): no two
\* requests wait at the same time for runs of their own of one report.
OneGenerationPerReport ==
    \A r1, r2 \in Requests :
        /\ pc[r1] \in {"await", "poll"} /\ mode[r1] = "generating"
        /\ pc[r2] \in {"await", "poll"} /\ mode[r2] = "generating"
        /\ Key(r1) = Key(r2)
        => r1 = r2

\* When a holder is about to submit, every run remembered since it arrived
\* has been tried and dropped: what is remembered is nothing or the task it
\* found on arrival.  Otherwise a concurrent request is not joined.
NothingLeftToJoin ==
    \A r \in Requests :
        pc[r] = "submit" => remembered[Key(r)] \in {NoTask, initial[r]}

\* A request answered with a report is answered with a successful run of
\* what it asked for, from the template revision it read or a later one.
ServedRunMatches ==
    \A r \in Requests :
        result[r] = "ok" /\ want[r].kind # "inspect" =>
            /\ task[r] # NoTask
            /\ tasks[task[r]].status \in {"ready", "expired", "gone"}
            /\ tasks[task[r]].variant = want[r].variant
            /\ tasks[task[r]].rev >= rev[r]

\* A forced refresh (max_age 0) ends with a run newer than the one that was
\* remembered when it arrived, whichever request generated it.
ForcedRunIsNewer ==
    \A r \in Requests :
        result[r] = "ok" /\ want[r].kind # "inspect" /\ want[r].maxAge = 0
            => task[r] > initial[r]

\* A remembered run is never overwritten by an older one: no late setTaskId
\* undoes a refresh.
RememberedNeverRegresses ==
    [][\A k \in Keys :
          remembered[k] # NoTask /\ remembered'[k] # NoTask
              => remembered'[k] >= remembered[k]]_remembered

\* A request never makes the store forget a run that is still being
\* generated: a late deleteTaskId for an older run leaves it alone.
ActiveRunNotForgotten ==
    [][\A k \in Keys :
          /\ remembered[k] # NoTask
          /\ remembered'[k] = NoTask
          /\ pc' # pc
          => ~Active(remembered[k])]_vars

\* A report reused under a max_age is at most that old, up to the time one
\* call takes, when it is answered.
ServedWithinAge ==
    [][\A r \in Requests :
          /\ result[r] # "ok" /\ result'[r] = "ok"
          /\ want[r].kind # "inspect"
          /\ task[r] = initial[r] /\ want[r].maxAge # NoLimit
          => tasks[task[r]].age <= want[r].maxAge + BackendLag]_vars

-----------------------------------------------------------------------------
(* The register                                                            *)

\* r works with the run task[r].
AtHand(r) ==
    pc[r] \in {"validate", "await", "poll", "forget", "output", "remember"}

\* Where r stands with the register; who only inspects stays away from it.
Outside(r) ==
    want[r].kind = "inspect" \/ pc[r] \in {"idle", "revision", "lookup"}

Phase(r) ==
    IF Outside(r) THEN "away"
    ELSE IF result[r] = "ok" THEN "served"
    ELSE IF result[r] # "none" THEN "failed"
    ELSE IF pc[r] = "remember" THEN "made"
    ELSE IF mode[r] = "generating" THEN "waiting"
    ELSE "asking"

Standing(r) ==
    LET phase == Phase(r) IN
    IF phase \in {"away", "failed"}
    THEN [phase |-> phase]
    ELSE [phase |-> phase, report |-> Key(r), found |-> initial[r],
          run |-> IF AtHand(r) \/ phase = "served" THEN task[r] ELSE NoTask]

Standings == [r \in Requests |-> Standing(r)]

\* Who is between acquiring and releasing the lock of which report.
Makers == {<<r, Key(r)>> : r \in {q \in Requests : InLock(q)}}

\* How many runs the backend has accepted.
Accepted == NextTask - 1

Register == INSTANCE ReportRegister WITH
    Reports <- Keys, made <- Accepted, latest <- remembered, makers <- Makers,
    request <- Standings

\* The handlers, the lock and the store keep what the register promises: one
\* generation of a report at a time, joined by all who come for it, and no
\* run replaced by an older one.
KeepsRegister == Register!Spec

-----------------------------------------------------------------------------
(* Liveness                                                                *)

\* Every request is answered, even if the backend never finishes its task
\* and the holder of the lock has died.
EveryRequestAnswered ==
    \A r \in Requests : (pc[r] = "revision") ~> (pc[r] = "done")

\* A lock left behind by a dead or failed request becomes free again.
AbandonedLockFreed ==
    \A k \in Keys : \A r \in Requests :
        (lock[k] = r /\ pc[r] = "done") ~> (lock[k] # r)
=============================================================================
