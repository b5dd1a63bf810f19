----------------------- MODULE TemplateReportsProofs -----------------------
(***************************************************************************)
(* Proofs about TemplateReports: first about the locks, then about what    *)
(* the requests for a report are answered with and leave remembered, then  *)
(* that all of it implements ReportRegister, and last when a request is    *)
(* answered at the latest.                                                 *)
(***************************************************************************)
EXTENDS ForcedReports, FiniteSetTheorems, TLAPS

\* A request moves to a program point.
LEMMA GoToType ==
    ASSUME TypeOK, NEW r \in Requests, NEW where \in Pcs, GoTo(r, where)
    PROVE  pc' \in [Requests -> Pcs]
BY DEF TypeOK, GoTo

\* A request ends with an outcome.
LEMMA FinishType ==
    ASSUME TypeOK, NEW r \in Requests, NEW outcome \in Results,
           Finish(r, outcome)
    PROVE  /\ pc' \in [Requests -> Pcs]
           /\ result' \in [Requests -> Results]
<1>1. pc' \in [Requests -> Pcs]
  <2>1. "release" \in Pcs /\ "done" \in Pcs
    BY DEF Pcs, CallPcs, StorePcs
  <2> QED BY <2>1, GoToType DEF Finish
<1>2. result' \in [Requests -> Results]
  BY DEF TypeOK, Finish
<1> QED BY <1>1, <1>2

\* An answered call starts the request's clock anew.
LEMMA AnsweredType ==
    ASSUME TypeOK, NEW r \in Requests, Answered(r)
    PROVE  lag' \in [Requests -> 0..(BackendLag + StoreLag)]
BY TimesAssumption DEF TypeOK, Answered

\* A request's report has a key in the store.
LEMMA KeyType ==
    ASSUME TypeOK, NEW r \in Requests
    PROVE  Key(r) \in Keys
BY DEF TypeOK, Key, Keys

\* Taking and giving back a lock.
LEMMA LockType ==
    ASSUME TypeOK, NEW r \in Requests, NEW k \in Keys,
           TakeLock(r, k) \/ Unlock(r, k) \/ UNCHANGED <<lock, ttl>>
    PROVE  /\ lock' \in [Keys -> Requests \union {Nobody}]
           /\ ttl' \in [Keys -> 0..LockTtl]
<1> USE TimesAssumption DEF TypeOK
<1>1. CASE TakeLock(r, k)
  BY <1>1 DEF TakeLock
<1>2. CASE Unlock(r, k) /\ lock[k] = r
  BY <1>2 DEF Unlock
<1>3. CASE Unlock(r, k) /\ lock[k] # r
  BY <1>3 DEF Unlock
<1>4. CASE UNCHANGED <<lock, ttl>>
  BY <1>4
<1> QED BY <1>1, <1>2, <1>3, <1>4

\* Joining the task that is remembered, or going on without it.
LEMMA JoinType ==
    ASSUME TypeOK, NEW r \in Requests, NEW joining \in Modes,
           NEW otherwise \in Pcs, Join(r, joining, otherwise)
    PROVE  /\ pc' \in [Requests -> Pcs]
           /\ mode' \in [Requests -> Modes]
           /\ task' \in [Requests -> TaskIds \union {NoTask}]
<1> DEFINE found == remembered[Key(r)]
<1>1. found \in TaskIds \union {NoTask}
  BY KeyType DEF TypeOK
<1>2. CASE Joinable(r, found)
  <2>1. /\ task' = [task EXCEPT ![r] = found]
        /\ mode' = [mode EXCEPT ![r] = joining]
        /\ GoTo(r, "validate")
    BY <1>2 DEF Join
  <2>2. "validate" \in Pcs
    BY DEF Pcs, CallPcs, BackendPcs
  <2> HIDE DEF found
  <2> QED BY <1>1, <2>1, <2>2, GoToType DEF TypeOK
<1>3. CASE ~Joinable(r, found)
  BY <1>3, GoToType DEF Join, TypeOK
<1> QED BY <1>2, <1>3

\* A request arrives with what it asks for and its deadline.
LEMMA ArriveType ==
    ASSUME TypeOK, NEW r \in Requests, NEW kind \in Kinds,
           NEW age \in MaxAges \union {0}, NEW v \in Variants,
           Arrive(r, [kind |-> kind, maxAge |-> age, variant |-> v])
    PROVE  /\ want' \in [Requests -> [kind: Kinds, maxAge: MaxAges \union {0},
                                      variant: Variants]]
           /\ left' \in [Requests -> 0..WaitTimeout]
<1> DEFINE ask == [kind |-> kind, maxAge |-> age, variant |-> v]
<1>1. ask \in [kind: Kinds, maxAge: MaxAges \union {0}, variant: Variants]
  OBVIOUS
<1>2. /\ want' = [want EXCEPT ![r] = ask]
      /\ left' = [left EXCEPT ![r] = WaitTimeout]
  BY DEF Arrive
<1> HIDE DEF ask
<1> QED BY <1>1, <1>2, TimesAssumption DEF TypeOK

\* Every kind of arrival keeps the types.
LEMMA ArrivalType ==
    ASSUME TypeOK, NEW r \in Requests, Arrival(r)
    PROVE  TypeOK'
<1> USE DEF Kinds, Pcs, CallPcs, BackendPcs, StorePcs
<1>1. ASSUME NEW v \in Variants, NEW age \in MaxAges, Render(r, v, age)
      PROVE  TypeOK'
  <2>1. Arrive(r, [kind |-> "render", maxAge |-> age, variant |-> v])
    BY <1>1 DEF Render
  <2>2. pc' \in [Requests -> Pcs]
    BY <1>1, GoToType DEF Render
  <2>3. UNCHANGED <<backend, store, mode, initial, task, lag, result, faults,
                    rev>>
    BY <1>1, <2>1 DEF Arrive, Render
  <2> QED BY <2>1, <2>2, <2>3, ArriveType DEF TypeOK, backend, store
<1>2. ASSUME NEW v \in Variants, Prepare(r, v) PROVE TypeOK'
  <2>1. Arrive(r, [kind |-> "prepare", maxAge |-> 0, variant |-> v])
    BY <1>2 DEF Prepare
  <2>2. pc' \in [Requests -> Pcs]
    BY <1>2, GoToType DEF Prepare
  <2>3. UNCHANGED <<backend, store, mode, initial, task, lag, result, faults,
                    rev>>
    BY <1>2, <2>1 DEF Arrive, Prepare
  <2> QED BY <2>1, <2>2, <2>3, ArriveType DEF TypeOK, backend, store
<1>3. ASSUME NEW v \in Variants, Inspect(r, v) PROVE TypeOK'
  <2>1. Arrive(r, [kind |-> "inspect", maxAge |-> 0, variant |-> v])
    BY <1>3 DEF Inspect
  <2>2. pc' \in [Requests -> Pcs]
    BY <1>3, GoToType DEF Inspect
  <2>3. UNCHANGED <<backend, store, mode, initial, task, lag, result, faults>>
    BY <2>1 DEF Arrive
  <2>4. rev' \in [Requests -> Revisions]
    BY <1>3, BoundsAssumption DEF Inspect, TypeOK, Revisions
  <2> QED BY <2>1, <2>2, <2>3, <2>4, ArriveType DEF TypeOK, backend, store
<1> QED BY <1>1, <1>2, <1>3 DEF Arrival

\* What a request's call may do: no action of a request outside its arrival
\* touches what it asked for, its deadline or the template.
LEMMA StepType ==
    ASSUME TypeOK, NEW r \in Requests, Step(r)
    PROVE  TypeOK'
<1> USE GoToType, FinishType, AnsweredType
    DEF Pcs, CallPcs, BackendPcs, StorePcs, LocalPcs, Results, backend, store,
        asked
<1>1. CASE ReadRevision(r)
  BY <1>1 DEF ReadRevision, TypeOK
<1>2. CASE Lookup(r)
  BY <1>2, KeyType DEF Lookup, TypeOK, Modes
<1>3. CASE Validate(r)
  BY <1>3 DEF Validate, Judge, TypeOK
<1>4. CASE Await(r)
  BY <1>4 DEF Await, TypeOK
<1>5. CASE Poll(r)
  BY <1>5 DEF Poll, Judge, Complete, TypeOK
<1>6. CASE Forget(r)
  BY <1>6 DEF Forget, DeleteIfMatches, AfterAttempt, TypeOK
<1>7. CASE Output(r)
  BY <1>7 DEF Output, TypeOK
<1>8. CASE Loop(r)
  BY <1>8 DEF Loop, TypeOK
<1>9. CASE TryAcquireLock(r)
  <2>1. TakeLock(r, Key(r)) \/ UNCHANGED <<lock, ttl>>
    BY <1>9 DEF TryAcquireLock
  <2>2. /\ lock' \in [Keys -> Requests \union {Nobody}]
        /\ ttl' \in [Keys -> 0..LockTtl]
    BY <2>1, KeyType, LockType
  <2>3. pc' \in [Requests -> Pcs]
    BY <1>9 DEF TryAcquireLock
  <2> QED BY <1>9, <2>2, <2>3 DEF TryAcquireLock, TypeOK
<1>10. CASE Recheck(r)
  BY <1>10, JoinType DEF Recheck, TypeOK, Modes
<1>11. CASE Peek(r)
  BY <1>11, JoinType DEF Peek, TypeOK, Modes
<1>12. CASE Submit(r)
  BY <1>12, BoundsAssumption
  DEF Submit, CreateTask, TypeOK, Modes, Statuses
<1>13. CASE SubmitRefused(r)
  BY <1>13 DEF SubmitRefused, TypeOK
<1>14. CASE Remember(r)
  BY <1>14 DEF Remember, TypeOK
<1>15. CASE ReleaseLock(r)
  BY <1>15, LockType, KeyType DEF ReleaseLock, TypeOK
<1>16. CASE InspectLookup(r)
  BY <1>16, KeyType DEF InspectLookup, TypeOK
<1>17. CASE InspectFetch(r)
  BY <1>17 DEF InspectFetch, TypeOK
<1>18. CASE InspectForget(r)
  BY <1>18 DEF InspectForget, DeleteIfMatches, TypeOK
<1> QED BY <1>1, <1>2, <1>3, <1>4, <1>5, <1>6, <1>7, <1>8, <1>9, <1>10, <1>11,
           <1>12, <1>13, <1>14, <1>15, <1>16, <1>17, <1>18 DEF Step

\* So do the failures of a request's calls.
LEMMA FailureType ==
    ASSUME TypeOK, NEW r \in Requests, Failure(r)
    PROVE  TypeOK'
<1> USE GoToType, FinishType, AnsweredType, BoundsAssumption
    DEF Pcs, CallPcs, BackendPcs, StorePcs, LocalPcs, Results, backend, store,
        asked, Fault
<1>1. CASE CallFails(r)
  BY <1>1 DEF CallFails, TypeOK
<1>2. CASE LockReplyLost(r)
  <2>1. /\ lock' \in [Keys -> Requests \union {Nobody}]
        /\ ttl' \in [Keys -> 0..LockTtl]
    BY <1>2, KeyType, LockType DEF LockReplyLost
  <2>2. pc' \in [Requests -> Pcs] /\ result' \in [Requests -> Results]
    BY <1>2 DEF LockReplyLost, TypeOK
  <2> QED BY <1>2, <2>1, <2>2 DEF LockReplyLost, TypeOK
<1>3. CASE SubmitReplyLost(r)
  BY <1>3 DEF SubmitReplyLost, CreateTask, TypeOK, Statuses
<1>4. CASE StoreReplyLost(r)
  <2>1. UNCHANGED <<lock, ttl>> \/ Unlock(r, Key(r))
    BY <1>4 DEF StoreReplyLost
  <2>2. /\ lock' \in [Keys -> Requests \union {Nobody}]
        /\ ttl' \in [Keys -> 0..LockTtl]
    BY <2>1, KeyType, LockType
  <2>3. remembered' \in [Keys -> TaskIds \union {NoTask}]
    BY <1>4, KeyType DEF StoreReplyLost, DeleteIfMatches, TypeOK
  <2> QED BY <1>4, <2>2, <2>3 DEF StoreReplyLost, TypeOK
<1>5. CASE Crash(r)
  BY <1>5 DEF Crash, TypeOK
<1> QED BY <1>1, <1>2, <1>3, <1>4, <1>5 DEF Failure

\* And what the backend, the store and time do by themselves.
LEMMA EnvironmentType ==
    ASSUME TypeOK,
           Backend \/ (\E k \in Keys : RememberedExpires(k)) \/ Tick
    PROVE  TypeOK'
<1> USE TimesAssumption, BoundsAssumption
    DEF TypeOK, backend, store, asked, Revisions
<1>1. CASE TemplateUpdated
  BY <1>1 DEF TemplateUpdated
<1>2. ASSUME NEW t \in TaskIds, NEW from \in SUBSET Statuses,
             NEW to \in Statuses, SetStatus(t, from, to)
      PROVE  TypeOK'
  <2> DEFINE changed == [tasks[t] EXCEPT !.status = to, !.age = 0]
  <2>1. changed \in [status: Statuses, age: 0..AgeCap, rev: Revisions,
                     variant: Variants]
    <3>1. tasks[t] \in [status: Statuses, age: 0..AgeCap, rev: Revisions,
                        variant: Variants]
      OBVIOUS
    <3>2. 0 \in 0..AgeCap
      OBVIOUS
    <3> QED BY ONLY <3>1, <3>2, to \in Statuses
  <2>2. tasks' \in [TaskIds -> [status: Statuses, age: 0..AgeCap,
                                rev: Revisions, variant: Variants]]
    <3>1. tasks' = [tasks EXCEPT ![t] = changed]
      BY <1>2 DEF SetStatus
    <3> HIDE DEF changed
    <3> QED BY <2>1, <3>1
  <2> QED BY <1>2, <2>2 DEF SetStatus
<1>3. CASE Backend
  BY <1>1, <1>2, <1>3
  DEF Backend, TaskSucceeds, TaskFails, OutputExpires, TaskRemoved, Statuses
<1>4. ASSUME NEW k \in Keys, RememberedExpires(k) PROVE TypeOK'
  BY <1>4 DEF RememberedExpires
<1>5. CASE Tick
  <2>1. lag' \in [Requests -> 0..(BackendLag + StoreLag)]
    <3>1. ASSUME NEW r \in Requests, Busy(r)
          PROVE  lag[r] + 1 \in 0..(BackendLag + StoreLag)
      <4>1. lag[r] < LagLimit(r)
        BY <1>5, <3>1 DEF Tick
      <4>2. lag[r] \in Nat
        OBVIOUS
      <4> QED BY <4>1, <4>2 DEF LagLimit
    <3>2. lag' = [r \in Requests |-> IF Busy(r) THEN lag[r] + 1 ELSE lag[r]]
      BY <1>5 DEF Tick
    <3> QED BY <3>1, <3>2
  <2>2. left' \in [Requests -> 0..WaitTimeout]
    BY <1>5 DEF Tick, Remaining
  <2>3. /\ ttl' \in [Keys -> 0..LockTtl]
        /\ lock' \in [Keys -> Requests \union {Nobody}]
    BY <1>5 DEF Tick, LockAfterTick
  <2>4. tasks' \in [TaskIds -> [status: Statuses, age: 0..AgeCap,
                                rev: Revisions, variant: Variants]]
    <3>1. ASSUME NEW t \in TaskIds, tasks[t].age < AgeCap
          PROVE  [tasks[t] EXCEPT !.age = @ + 1]
                    \in [status: Statuses, age: 0..AgeCap, rev: Revisions,
                         variant: Variants]
      <4> DEFINE old == tasks[t]
      <4>1. /\ old \in [status: Statuses, age: 0..AgeCap, rev: Revisions,
                        variant: Variants]
            /\ old.age < AgeCap
        BY <3>1
      <4> HIDE DEF old
      <4>2. old.age + 1 \in 0..AgeCap
        BY <4>1, BoundsAssumption
      <4>3. [old EXCEPT !.age = old.age + 1]
                \in [status: Statuses, age: 0..AgeCap, rev: Revisions,
                     variant: Variants]
        BY <4>1, <4>2
      <4> QED BY <4>3 DEF old
    <3> QED BY <1>5, <3>1 DEF Tick
  <2> QED BY <1>5, <2>1, <2>2, <2>3, <2>4 DEF Tick
<1> QED BY <1>3, <1>4, <1>5

\* Every reachable state is well typed.
THEOREM TypeCorrect == Spec => []TypeOK
<1>1. Init => TypeOK
  BY TimesAssumption, BoundsAssumption
  DEF Init, TypeOK, Revisions, Keys, NoTask, Kinds, Modes, Statuses, Results,
      Pcs
<1>2. TypeOK /\ [Next]_vars => TypeOK'
  <2> SUFFICES ASSUME TypeOK, [Next]_vars PROVE TypeOK'
    OBVIOUS
  <2>1. CASE UNCHANGED vars
    BY <2>1 DEF TypeOK, vars
  <2> QED BY <2>1, ArrivalType, StepType, FailureType, EnvironmentType DEF Next
<1> QED BY <1>1, <1>2, PTL DEF Spec
-----------------------------------------------------------------------------
(* Exclusive generation.  The inductive invariant says, of every request   *)
(* between acquiring and releasing its lock, that it still owns the lock   *)
(* and that the lock's remaining time covers the calls that remain.        *)

\* The time the calls from p to the release may take after the deadline.
Tail(p, m) ==
    CASE p \in {"await", "release"}           -> StoreLag
      [] p = "remember"                       -> 2 * StoreLag
      [] p = "submit"                         -> BackendLag + 2 * StoreLag
      [] p = "forget"                         -> BackendLag + 3 * StoreLag
      [] p = "output" /\ m = "generating"     -> BackendLag + StoreLag
      [] p = "output" /\ m # "generating"     -> 2 * BackendLag + 3 * StoreLag
      [] p = "poll" /\ m = "generating"       -> 2 * BackendLag + StoreLag
      [] p = "recheck"                        -> 3 * BackendLag + 4 * StoreLag
      [] OTHER                                -> 3 * BackendLag + 3 * StoreLag

Enough(r) ==
    /\ left[r] > 0 =>
          ttl[Key(r)] >= left[r] + 3 * BackendLag + 3 * StoreLag
    /\ left[r] = 0 => ttl[Key(r)] + lag[r] > Tail(pc[r], mode[r])
    /\ pc[r] = "recheck" => ttl[Key(r)] + lag[r] >= LockTtl
    /\ pc[r] # "poll" \/ left[r] = 0 => lag[r] <= LagLimit(r)

Holder(r) == InLock(r) => lock[Key(r)] = r /\ Enough(r)

HolderInv == TypeOK /\ \A r \in Requests : Holder(r)

\* What the steps of other requests leave alone.
Untouched(r) ==
    /\ pc'[r] = pc[r] /\ mode'[r] = mode[r]
    /\ left'[r] = left[r] /\ lag'[r] = lag[r]
    /\ want'[r] = want[r] /\ rev'[r] = rev[r]
    /\ \A k \in Keys :
          lock[k] = r => lock'[k] = lock[k] /\ ttl'[k] = ttl[k]

\* Two holders of one lock are one request.
LEMMA ExclusiveFromHolder == HolderInv => ExclusiveGeneration
BY RequestsAssumption DEF HolderInv, Holder, ExclusiveGeneration

\* A holder whose lock, deadline and call a step leaves alone stays one.
LEMMA UntouchedHolds ==
    ASSUME TypeOK, NEW r \in Requests, Holder(r), Untouched(r)
    PROVE  Holder(r)'
<1>1. Key(r)' = Key(r) /\ InLock(r)' = InLock(r)
  BY DEF Untouched, Key, InLock
<1>2. LagLimit(r)' = LagLimit(r)
  BY DEF Untouched, LagLimit
<1> QED BY <1>1, <1>2, KeyType DEF Holder, Enough, Untouched

\* A request's own calls touch no other request, and no lock it does not own.
LEMMA OthersUntouched ==
    ASSUME TypeOK, NEW r \in Requests, NEW other \in Requests, other # r,
           Arrival(r) \/ Step(r) \/ Failure(r)
    PROVE  Untouched(other)
<1> USE RequestsAssumption
    DEF TypeOK, Untouched, GoTo, Finish, Answered, backend, store, asked
<1>1. CASE Arrival(r)
  <2>1. /\ want'[other] = want[other] /\ left'[other] = left[other]
        /\ UNCHANGED <<lock, ttl, mode, lag>>
    BY <1>1 DEF Arrival, Render, Prepare, Inspect, Arrive
  <2>2. pc'[other] = pc[other] /\ rev'[other] = rev[other]
    BY <1>1 DEF Arrival, Render, Prepare, Inspect
  <2> QED BY <2>1, <2>2
<1>2. CASE ReadRevision(r) \/ Lookup(r)
  BY <1>2 DEF ReadRevision, Lookup
<1>3. CASE Validate(r) \/ Poll(r)
  BY <1>3 DEF Validate, Poll, Judge, Complete
<1>4. CASE Await(r) \/ Output(r) \/ Loop(r)
  BY <1>4 DEF Await, Output, Loop
<1>5. CASE Forget(r)
  BY <1>5 DEF Forget
<1>6. CASE TryAcquireLock(r)
  BY <1>6, KeyType DEF TryAcquireLock, TakeLock, LockFree
<1>7. CASE Recheck(r) \/ Peek(r)
  BY <1>7 DEF Recheck, Peek, Join
<1>8. CASE Submit(r) \/ SubmitRefused(r) \/ Remember(r)
  BY <1>8 DEF Submit, SubmitRefused, Remember
<1>9. CASE ReleaseLock(r)
  BY <1>9, KeyType DEF ReleaseLock, Unlock
<1>10. CASE InspectLookup(r) \/ InspectFetch(r) \/ InspectForget(r)
  BY <1>10 DEF InspectLookup, InspectFetch, InspectForget
<1>11. CASE CallFails(r) \/ SubmitReplyLost(r) \/ Crash(r)
  BY <1>11 DEF CallFails, SubmitReplyLost, Crash
<1>12. CASE LockReplyLost(r)
  BY <1>12, KeyType DEF LockReplyLost, TakeLock, LockFree
<1>13. CASE StoreReplyLost(r)
  BY <1>13, KeyType DEF StoreReplyLost, Unlock
<1> QED BY <1>1, <1>2, <1>3, <1>4, <1>5, <1>6, <1>7, <1>8, <1>9, <1>10, <1>11,
           <1>12, <1>13 DEF Step, Failure
\* What an answered call changes of the timers and the lock.
CallFrame(r) ==
    /\ lag'[r] = 0
    /\ UNCHANGED <<left, want, rev, lock, ttl>>

\* An answered call of a holder: the lock is kept, and the calls that remain
\* are fewer by at least the time the answered one was allowed.
LEMMA HolderAdvances ==
    ASSUME TypeOK, NEW r \in Requests, Holder(r), InLock(r),
           CallFrame(r), pc[r] # "await", pc'[r] # "recheck",
           Tail(pc[r], mode[r]) >= Tail(pc'[r], mode'[r]) + LagLimit(r)
    PROVE  Holder(r)'
<1>1. Key(r)' = Key(r) /\ Key(r) \in Keys
  BY KeyType DEF Key, CallFrame
<1>2. /\ ttl[Key(r)] \in Nat /\ lag[r] \in Nat /\ left[r] \in Nat
      /\ LagLimit(r) \in Nat /\ LagLimit(r)' \in Nat
  BY <1>1, TimesAssumption DEF TypeOK, LagLimit
<1>3. Tail(pc[r], mode[r]) \in Nat /\ Tail(pc'[r], mode'[r]) \in Nat
  BY TimesAssumption DEF Tail
<1>4. Enough(r)'
  <2>1. left[r] = 0 => ttl[Key(r)] > Tail(pc'[r], mode'[r])
    BY <1>2, <1>3 DEF Holder, Enough
  <2> QED BY <1>1, <1>2, <1>3, <2>1 DEF Holder, Enough, CallFrame
<1> QED BY <1>1, <1>4 DEF Holder, CallFrame

\* A request that is not in the lock afterwards has nothing to cover.
LEMMA OutOfLock ==
    ASSUME NEW r \in Requests, ~InLock(r)'
    PROVE  Holder(r)'
BY DEF Holder

\* An answered call outside the lock does not lead into it, but for the
\* acquisition.
LEMMA StaysOut ==
    ASSUME TypeOK, NEW r \in Requests, ~InLock(r), Step(r) \/ Failure(r),
           ~TryAcquireLock(r)
    PROVE  ~InLock(r)'
<1> USE DEF TypeOK, InLock, GoTo, Finish
<1>1. CASE ReadRevision(r) \/ Lookup(r)
  BY <1>1 DEF ReadRevision, Lookup
<1>2. CASE Validate(r)
  BY <1>2 DEF Validate, Judge
<1>3. CASE Poll(r)
  BY <1>3 DEF Poll, Judge, Complete
<1>4. CASE Await(r) \/ Output(r) \/ Loop(r)
  BY <1>4 DEF Await, Output, Loop
<1>5. CASE Forget(r)
  BY <1>5 DEF Forget, AfterAttempt
<1>6. CASE Peek(r)
  BY <1>6 DEF Peek, Join
<1>7. CASE Recheck(r) \/ Submit(r) \/ SubmitRefused(r) \/ Remember(r)
           \/ ReleaseLock(r)
  BY <1>7 DEF Recheck, Submit, SubmitRefused, Remember, ReleaseLock
<1>8. CASE InspectLookup(r) \/ InspectFetch(r) \/ InspectForget(r)
  BY <1>8 DEF InspectLookup, InspectFetch, InspectForget
<1>9. CASE CallFails(r) \/ SubmitReplyLost(r) \/ Crash(r)
  BY <1>9 DEF CallFails, SubmitReplyLost, Crash
<1>10. CASE LockReplyLost(r) \/ StoreReplyLost(r)
  BY <1>10 DEF LockReplyLost, StoreReplyLost
<1> QED BY <1>1, <1>2, <1>3, <1>4, <1>5, <1>6, <1>7, <1>8, <1>9, <1>10
        DEF Step, Failure

\* The step that enters the lock.
LEMMA AcquireHolds ==
    ASSUME TtlCoversTail, TypeOK, NEW r \in Requests, TryAcquireLock(r)
    PROVE  Holder(r)'
<1> USE TimesAssumption DEF TypeOK
<1>1. CASE ~LockFree(Key(r))
  BY <1>1, OutOfLock DEF TryAcquireLock, GoTo, InLock
<1>2. CASE LockFree(Key(r))
  <2>1. /\ Key(r)' = Key(r) /\ Key(r) \in Keys
        /\ lock'[Key(r)] = r /\ ttl'[Key(r)] = LockTtl
    BY <1>2, KeyType DEF TryAcquireLock, TakeLock, Key, asked
  <2>2. /\ pc'[r] = "recheck" /\ lag'[r] = 0
        /\ left'[r] = left[r] /\ left[r] \in 0..WaitTimeout
    BY <1>2 DEF TryAcquireLock, GoTo, Answered
  <2>3. Tail("recheck", mode'[r]) = 3 * BackendLag + 4 * StoreLag
    BY DEF Tail
  <2>4. LagLimit(r)' >= 0
    BY DEF LagLimit
  <2>5. Enough(r)'
    BY <2>1, <2>2, <2>3, <2>4 DEF Enough, TtlCoversTail
  <2> QED BY <2>1, <2>5 DEF Holder
<1> QED BY <1>1, <1>2

\* Where a holder's call may lead, and what remains of the tail there.
LEMMA HolderCalls ==
    ASSUME TypeOK, NEW r \in Requests, InLock(r), CallFrame(r),
           \/ /\ pc[r] = "recheck"
              /\ \/ pc'[r] = "validate"
                 \/ pc'[r] = "submit"
           \/ /\ pc[r] = "validate"
              /\ pc'[r] \in {"await", "output", "forget", "release"}
           \/ /\ pc[r] = "poll" /\ mode[r] = "generating"
              /\ pc'[r] \in {"await", "output", "release"}
              /\ mode' = mode
           \/ /\ pc[r] = "poll" /\ mode[r] = "holding"
              /\ pc'[r] \in {"await", "output", "forget", "release"}
           \/ /\ pc[r] = "forget"
              /\ pc'[r] \in {"submit", "release"}
           \/ /\ pc[r] = "output" /\ mode[r] = "holding"
              /\ pc'[r] \in {"forget", "release"}
           \/ /\ pc[r] = "output"
              /\ pc'[r] = "release"
           \/ /\ pc[r] = "submit"
              /\ pc'[r] \in {"remember", "release"}
           \/ /\ pc[r] = "remember"
              /\ pc'[r] \in {"await", "release"}
           \/ /\ pc[r] \in CallPcs \ {"release"}
              /\ pc'[r] = "release"
    PROVE  /\ pc[r] # "await" /\ pc'[r] # "recheck"
           /\ Tail(pc[r], mode[r]) >= Tail(pc'[r], mode'[r]) + LagLimit(r)
<1>1. /\ LagLimit(r) = IF pc[r] \in {"validate", "poll", "output", "submit"}
                       THEN BackendLag ELSE StoreLag
  BY DEF LagLimit, InLock, BackendPcs
<1>2. pc[r] \in {"recheck", "validate", "poll", "forget", "output", "submit",
                 "remember"}
  BY DEF InLock, CallPcs, BackendPcs, StorePcs
<1>3. BackendLag \in Nat /\ StoreLag \in Nat
  BY TimesAssumption
<1>4. pc[r] # "await" /\ pc'[r] # "recheck"
  BY <1>2
<1>5. CASE pc[r] = "recheck"
  BY <1>1, <1>3, <1>5 DEF Tail
<1>6. CASE pc[r] = "validate"
  BY <1>1, <1>3, <1>6 DEF Tail
<1>7. CASE pc[r] = "poll"
  BY <1>1, <1>3, <1>7 DEF Tail
<1>8. CASE pc[r] = "forget"
  BY <1>1, <1>3, <1>8 DEF Tail
<1>9. CASE pc[r] = "output"
  BY <1>1, <1>3, <1>9 DEF Tail
<1>10. CASE pc[r] \in {"submit", "remember"}
  BY <1>1, <1>3, <1>10 DEF Tail
<1> QED BY <1>2, <1>4, <1>5, <1>6, <1>7, <1>8, <1>9, <1>10

\* A holder's own step.
LEMMA HolderStep ==
    ASSUME TypeOK, NEW r \in Requests, Holder(r), InLock(r),
           Step(r) \/ Failure(r)
    PROVE  Holder(r)'
<1> USE DEF TypeOK, GoTo, Finish, Answered, backend, store, asked
<1>1. CASE Recheck(r)
  <2>1. CallFrame(r) /\ pc'[r] \in {"validate", "submit"}
    BY <1>1 DEF Recheck, Join, CallFrame
  <2> QED BY <1>1, <2>1, HolderCalls, HolderAdvances DEF Recheck
<1>2. CASE Validate(r)
  <2>1. CallFrame(r) /\ pc'[r] \in {"await", "output", "forget", "release"}
    BY <1>2 DEF Validate, Judge, CallFrame
  <2> QED BY <1>2, <2>1, HolderCalls, HolderAdvances DEF Validate
<1>3. CASE Poll(r)
  <2>1. /\ CallFrame(r) /\ mode' = mode /\ pc[r] = "poll"
        /\ pc'[r] \in {"await", "output", "forget", "release"}
        /\ mode[r] = "generating" => pc'[r] # "forget"
    BY <1>3 DEF Poll, Judge, Complete, CallFrame
  <2>2. mode[r] \in {"holding", "generating"}
    BY <2>1 DEF InLock
  <2> QED BY <2>1, <2>2, HolderCalls, HolderAdvances
<1>4. CASE Forget(r)
  <2>1. CallFrame(r) /\ pc[r] = "forget" /\ pc'[r] \in {"submit", "loop"}
    BY <1>4 DEF Forget, AfterAttempt, CallFrame
  <2>2. CASE pc'[r] = "submit"
    BY <2>1, <2>2, HolderCalls, HolderAdvances
  <2>3. CASE pc'[r] = "loop"
    BY <2>3, OutOfLock DEF InLock
  <2> QED BY <2>1, <2>2, <2>3
<1>5. CASE Output(r)
  <2>1. /\ CallFrame(r) /\ pc[r] = "output"
        /\ pc'[r] \in {"forget", "release"}
        /\ mode[r] = "generating" => pc'[r] = "release"
    BY <1>5 DEF Output, CallFrame
  <2>2. mode[r] \in {"holding", "generating"}
    BY <2>1 DEF InLock
  <2> QED BY <2>1, <2>2, HolderCalls, HolderAdvances
<1>6. CASE Submit(r) \/ SubmitRefused(r)
  <2>1. /\ CallFrame(r) /\ pc[r] = "submit"
        /\ pc'[r] \in {"remember", "release"}
    BY <1>6 DEF Submit, SubmitRefused, CallFrame
  <2> QED BY <2>1, HolderCalls, HolderAdvances
<1>7. CASE Remember(r)
  <2>1. CallFrame(r) /\ pc[r] = "remember" /\ pc'[r] = "await"
    BY <1>7 DEF Remember, CallFrame
  <2> QED BY <2>1, HolderCalls, HolderAdvances
<1>8. CASE Await(r)
  <2>1. /\ lag' = lag /\ left' = left /\ lock' = lock /\ ttl' = ttl
        /\ mode' = mode /\ Key(r)' = Key(r) /\ Key(r) \in Keys
        /\ pc[r] = "await"
    BY <1>8, KeyType DEF Await, Key
  <2>2. \/ left[r] > 0 /\ pc'[r] = "poll"
        \/ left[r] = 0 /\ pc'[r] = "release"
    BY <1>8, TimesAssumption DEF Await, DeadlinePassed
  <2>3. LagLimit(r) = StoreLag /\ Tail(pc[r], mode[r]) = StoreLag
    BY <2>1 DEF LagLimit, Tail, BackendPcs
  <2>4. CASE left[r] > 0
    BY <2>1, <2>2, <2>4 DEF Holder, Enough
  <2>5. CASE left[r] = 0
    <3>1. LagLimit(r)' = StoreLag /\ Tail(pc'[r], mode'[r]) = StoreLag
      BY <2>2, <2>5 DEF LagLimit, Tail, BackendPcs
    <3> QED BY <2>1, <2>2, <2>3, <2>5, <3>1 DEF Holder, Enough
  <2> QED BY <2>2, <2>4, <2>5
<1>9. CASE ReleaseLock(r) \/ Crash(r)
  BY <1>9, OutOfLock DEF ReleaseLock, Crash, InLock
<1>10. CASE (CallFails(r) \/ SubmitReplyLost(r) \/ StoreReplyLost(r))
            /\ pc[r] = "release"
  BY <1>10, OutOfLock DEF CallFails, SubmitReplyLost, StoreReplyLost, InLock
<1>11. CASE (CallFails(r) \/ SubmitReplyLost(r) \/ StoreReplyLost(r))
            /\ pc[r] # "release"
  <2>1. /\ CallFrame(r) /\ pc[r] \in CallPcs \ {"release"}
        /\ pc'[r] = "release"
    <3> USE DEF CallFrame, InLock, CallPcs, BackendPcs, StorePcs
    <3>1. CASE CallFails(r)
      BY <1>11, <3>1 DEF CallFails
    <3>2. CASE SubmitReplyLost(r)
      BY <1>11, <3>2 DEF SubmitReplyLost
    <3>3. CASE StoreReplyLost(r)
      BY <1>11, <3>3 DEF StoreReplyLost
    <3> QED BY <1>11, <3>1, <3>2, <3>3
  <2> QED BY <2>1, HolderCalls, HolderAdvances
<1>12. pc[r] \in {"recheck", "submit", "remember", "release", "validate",
                  "await", "poll", "forget", "output"}
  BY DEF InLock
<1>13. /\ ~ReadRevision(r) /\ ~Lookup(r) /\ ~Loop(r) /\ ~TryAcquireLock(r)
       /\ ~Peek(r) /\ ~InspectLookup(r) /\ ~InspectFetch(r)
       /\ ~InspectForget(r) /\ ~LockReplyLost(r)
  BY <1>12 DEF ReadRevision, Lookup, Loop, TryAcquireLock, Peek, InspectLookup,
               InspectFetch, InspectForget, LockReplyLost
<1> QED BY <1>1, <1>2, <1>3, <1>4, <1>5, <1>6, <1>7, <1>8, <1>9, <1>10, <1>11,
           <1>13 DEF Step, Failure
\* Time passes: while the deadline is ahead, lock and deadline come closer
\* together; afterwards the lock's time shrinks as the call's time grows.
LEMMA HolderTick ==
    ASSUME TtlCoversTail, TypeOK, NEW r \in Requests, Holder(r), Tick
    PROVE  Holder(r)'
<1> USE TimesAssumption
<1>1. /\ UNCHANGED <<pc, mode, want, rev>>
      /\ Key(r)' = Key(r) /\ Key(r) \in Keys
      /\ InLock(r)' = InLock(r) /\ LagLimit(r)' = LagLimit(r)
  BY KeyType DEF Tick, asked, Key, InLock, LagLimit
<1>2. CASE InLock(r)
  <2>1. Busy(r)
    BY <1>2 DEF Busy, InLock
  <2>2. /\ lag[r] < LagLimit(r) /\ lag'[r] = lag[r] + 1
        /\ left'[r] = Remaining(r)
        /\ ttl'[Key(r)] = IF ttl[Key(r)] > 0 THEN ttl[Key(r)] - 1 ELSE 0
        /\ lock'[Key(r)] = LockAfterTick(Key(r))
    BY <1>1, <2>1 DEF Tick
  <2>3. /\ ttl[Key(r)] \in Nat /\ lag[r] \in Nat /\ left[r] \in Nat
        /\ LagLimit(r) \in Nat /\ Tail(pc[r], mode[r]) \in Nat
    BY <1>1 DEF TypeOK, LagLimit, Tail
  <2>4. Tail(pc[r], mode[r]) >= LagLimit(r)
    BY <1>2 DEF Tail, LagLimit, InLock, BackendPcs
  <2>5. pc[r] # "recheck" =>
          Tail(pc[r], mode[r]) <= 3 * BackendLag + 3 * StoreLag
    BY DEF Tail
  <2>6. pc[r] = "recheck" => Tail(pc[r], mode[r]) < LockTtl
    BY DEF Tail, TtlCoversTail
  <2>7. ttl[Key(r)] >= 2
    <3>1. CASE left[r] > 0
      BY <1>2, <2>3, <3>1 DEF Holder, Enough
    <3>2. CASE left[r] = 0
      <4>1. ttl[Key(r)] + lag[r] > Tail(pc[r], mode[r])
        BY <1>2, <3>2 DEF Holder, Enough
      <4> QED BY <2>2, <2>3, <2>4, <4>1
    <3> QED BY <2>3, <3>1, <3>2
  <2>8. lock'[Key(r)] = r
    BY <1>2, <2>2, <2>3, <2>7 DEF LockAfterTick, Holder
  <2>9. Enough(r)'
    <3>1. left'[r] > 0 =>
            ttl'[Key(r)] >= left'[r] + 3 * BackendLag + 3 * StoreLag
      BY <1>2, <2>2, <2>3, <2>7 DEF Holder, Enough, Remaining
    <3>2. pc[r] = "recheck" => ttl'[Key(r)] + lag'[r] >= LockTtl
      BY <1>2, <2>2, <2>3, <2>7 DEF Holder, Enough
    <3>3. left'[r] = 0 => ttl'[Key(r)] + lag'[r] > Tail(pc[r], mode[r])
      BY <1>2, <2>2, <2>3, <2>5, <2>6, <2>7, <3>2
      DEF Holder, Enough, Remaining
    <3> QED BY <1>1, <2>2, <2>3, <3>1, <3>2, <3>3 DEF Enough
  <2> QED BY <1>1, <2>8, <2>9 DEF Holder
<1>3. CASE ~InLock(r)
  BY <1>1, <1>3 DEF Holder
<1> QED BY <1>2, <1>3

\* Every step keeps every holder's lock and the time it has left.
LEMMA HolderNext ==
    ASSUME TtlCoversTail, HolderInv, TypeOK', [Next]_vars, NEW q \in Requests
    PROVE  Holder(q)'
<1> TypeOK /\ Holder(q)
  BY DEF HolderInv
<1>1. ASSUME NEW r \in Requests, Arrival(r) \/ Step(r) \/ Failure(r)
      PROVE  Holder(q)'
  <2>1. CASE q # r
    BY <1>1, <2>1, OthersUntouched, UntouchedHolds
  <2>2. CASE q = r /\ Arrival(r)
    <3>1. pc'[r] \in {"revision", "inspect"}
      BY <2>2 DEF Arrival, Render, Prepare, Inspect, GoTo, TypeOK
    <3>2. ~InLock(r)'
      BY <3>1 DEF InLock
    <3> QED BY <2>2, <3>2, OutOfLock
  <2>3. CASE q = r /\ TryAcquireLock(r)
    BY <2>3, AcquireHolds
  <2>4. CASE q = r /\ (Step(r) \/ Failure(r)) /\ ~InLock(r)
             /\ ~TryAcquireLock(r)
    BY <2>4, StaysOut, OutOfLock
  <2>5. CASE q = r /\ (Step(r) \/ Failure(r)) /\ InLock(r)
    BY <2>5, HolderStep
  <2> QED BY <1>1, <2>1, <2>2, <2>3, <2>4, <2>5
<1>2. CASE Tick
  BY <1>2, HolderTick
<1>3. CASE Backend \/ (\E k \in Keys : RememberedExpires(k)) \/ UNCHANGED vars
  <2>1. UNCHANGED <<lock, ttl, pc, mode, want, rev, left, lag>>
    BY <1>3
    DEF Backend, TemplateUpdated, TaskSucceeds, TaskFails, OutputExpires,
        TaskRemoved, SetStatus, RememberedExpires, vars, store, asked
  <2> QED BY <2>1, UntouchedHolds DEF Untouched
<1> QED BY <1>1, <1>2, <1>3 DEF Next

\* If the lock's time covers the tail of calls after the deadline, then two
\* requests never generate the same report at once, for any number of
\* requests, reports, tasks and failures.
THEOREM Exclusive ==
    ASSUME TtlCoversTail
    PROVE  Spec => []ExclusiveGeneration
<1>1. Init => HolderInv
  <2>1. ASSUME Init PROVE TypeOK /\ \A r \in Requests : pc[r] = "idle"
    BY <2>1, TimesAssumption, BoundsAssumption
    DEF Init, TypeOK, Revisions, Keys, NoTask, Kinds, Modes, Statuses, Results,
        Pcs
  <2> QED BY <2>1 DEF HolderInv, Holder, InLock
<1>2. HolderInv /\ TypeOK' /\ [Next]_vars => HolderInv'
  BY HolderNext DEF HolderInv
<1> QED BY <1>1, <1>2, TypeCorrect, ExclusiveFromHolder, PTL DEF Spec
-----------------------------------------------------------------------------
(* Nothing left to join.  What a holder finds remembered when it rechecks  *)
(* can only be dropped until it submits: no other request remembers a run  *)
(* of that report while the holder is in the lock.                         *)

Trying(r) ==
    /\ pc[r] \in {"validate", "await", "poll", "forget", "output"}
    /\ mode[r] = "holding"

Joined(r) ==
    /\ pc[r] = "submit" => remembered[Key(r)] \in {NoTask, initial[r]}
    /\ Trying(r) => remembered[Key(r)] \in {NoTask, initial[r], task[r]}
    /\ pc[r] = "remember" => mode[r] = "generating"

JoinInv == HolderInv /\ \A r \in Requests : Joined(r)

\* A request only makes the store remember a run of its own report, when it
\* is at setTaskId; all else can only remove what is remembered.
LEMMA StoreChanges ==
    ASSUME TypeOK, NEW r \in Requests, Arrival(r) \/ Step(r) \/ Failure(r),
           NEW k \in Keys, pc[r] # "remember" \/ k # Key(r)
    PROVE  remembered'[k] \in {remembered[k], NoTask}
<1> USE DEF TypeOK, backend, store, asked
<1>1. CASE Arrival(r)
  BY <1>1 DEF Arrival, Render, Prepare, Inspect, Arrive
<1>2. CASE ReadRevision(r) \/ Lookup(r) \/ Validate(r) \/ Await(r) \/ Poll(r)
           \/ Output(r) \/ Loop(r)
  BY <1>2 DEF ReadRevision, Lookup, Validate, Await, Poll, Output, Loop
<1>3. CASE Forget(r) \/ InspectForget(r)
  BY <1>3, KeyType DEF Forget, InspectForget, DeleteIfMatches
<1>4. CASE TryAcquireLock(r) \/ Recheck(r) \/ Peek(r) \/ Submit(r)
           \/ SubmitRefused(r) \/ ReleaseLock(r) \/ InspectLookup(r)
           \/ InspectFetch(r)
  BY <1>4 DEF TryAcquireLock, Recheck, Peek, Submit, SubmitRefused,
              ReleaseLock, InspectLookup, InspectFetch
<1>5. CASE Remember(r)
  BY <1>5 DEF Remember
<1>6. CASE CallFails(r) \/ LockReplyLost(r) \/ SubmitReplyLost(r) \/ Crash(r)
  BY <1>6 DEF CallFails, LockReplyLost, SubmitReplyLost, Crash
<1>7. CASE StoreReplyLost(r)
  BY <1>7, KeyType DEF StoreReplyLost, DeleteIfMatches
<1> QED BY <1>1, <1>2, <1>3, <1>4, <1>5, <1>6, <1>7 DEF Step, Failure

\* What a request's own step leaves of what it compares.
LEMMA OthersKeepAsked ==
    ASSUME TypeOK, NEW r \in Requests, NEW other \in Requests, other # r,
           Arrival(r) \/ Step(r) \/ Failure(r)
    PROVE  initial'[other] = initial[other] /\ task'[other] = task[other]
<1> USE DEF TypeOK, backend, store, asked
<1>1. CASE Arrival(r)
  BY <1>1 DEF Arrival, Render, Prepare, Inspect, Arrive
<1>2. CASE ReadRevision(r) \/ Lookup(r) \/ Validate(r) \/ Await(r) \/ Poll(r)
           \/ Forget(r) \/ Output(r) \/ Loop(r) \/ TryAcquireLock(r)
  BY <1>2 DEF ReadRevision, Lookup, Validate, Await, Poll, Forget, Output,
              Loop, TryAcquireLock
<1>3. CASE Recheck(r) \/ Peek(r)
  BY <1>3 DEF Recheck, Peek, Join
<1>4. CASE Submit(r) \/ SubmitRefused(r) \/ Remember(r) \/ ReleaseLock(r)
           \/ InspectLookup(r) \/ InspectFetch(r) \/ InspectForget(r)
  BY <1>4 DEF Submit, SubmitRefused, Remember, ReleaseLock, InspectLookup,
              InspectFetch, InspectForget
<1>5. CASE Failure(r)
  BY <1>5 DEF Failure, CallFails, LockReplyLost, SubmitReplyLost,
              StoreReplyLost, Crash
<1> QED BY <1>1, <1>2, <1>3, <1>4, <1>5 DEF Step

\* Another request's step.
LEMMA JoinedOthers ==
    ASSUME HolderInv, NEW r \in Requests, NEW other \in Requests, other # r,
           Joined(other), Arrival(r) \/ Step(r) \/ Failure(r)
    PROVE  Joined(other)'
<1>1. TypeOK /\ ExclusiveGeneration
  BY ExclusiveFromHolder DEF HolderInv
<1>2. Untouched(other) /\ initial'[other] = initial[other]
      /\ task'[other] = task[other]
  BY <1>1, OthersUntouched, OthersKeepAsked
<1>3. /\ Key(other)' = Key(other) /\ Key(other) \in Keys
      /\ Trying(other)' = Trying(other) /\ pc'[other] = pc[other]
  BY <1>1, <1>2, KeyType DEF Untouched, Key, Trying
<1>4. CASE pc[other] = "submit" \/ Trying(other)
  <2>1. InLock(other)
    BY <1>4 DEF InLock, Trying
  <2>2. pc[r] = "remember" => Key(r) # Key(other)
    BY <1>1, <2>1 DEF ExclusiveGeneration, InLock
  <2>3. remembered'[Key(other)] \in {remembered[Key(other)], NoTask}
    BY <1>1, <1>3, <2>2, StoreChanges
  <2> QED BY <1>2, <1>3, <2>3 DEF Joined, Untouched
<1>5. CASE ~(pc[other] = "submit" \/ Trying(other))
  BY <1>2, <1>3, <1>5 DEF Joined, Untouched
<1> QED BY <1>4, <1>5

\* A request's own step.
LEMMA JoinedStep ==
    ASSUME TypeOK, NEW r \in Requests, Joined(r),
           Arrival(r) \/ Step(r) \/ Failure(r)
    PROVE  Joined(r)'
<1> USE DEF TypeOK, GoTo, Finish, backend, store, asked, Key
<1>1. CASE Arrival(r)
  BY <1>1
  DEF Arrival, Render, Prepare, Inspect, Arrive, Joined, Trying
<1>2. CASE ReadRevision(r) \/ Lookup(r) \/ Loop(r) \/ Remember(r)
           \/ ReleaseLock(r) \/ SubmitRefused(r) \/ Submit(r)
  BY <1>2 DEF ReadRevision, Lookup, Loop, Remember, ReleaseLock,
              SubmitRefused, Submit, Joined, Trying
<1>3. CASE Validate(r) \/ Await(r) \/ Output(r)
  BY <1>3 DEF Validate, Judge, Await, Output, Joined, Trying
<1>4. CASE Poll(r)
  BY <1>4 DEF Poll, Judge, Complete, Joined, Trying
<1>5. CASE Forget(r)
  <2>1. /\ UNCHANGED <<mode, want, rev, initial, task>> /\ pc[r] = "forget"
        /\ pc'[r] = AfterAttempt(r)
        /\ remembered'[Key(r)] = IF remembered[Key(r)] = task[r]
                                 THEN NoTask ELSE remembered[Key(r)]
    BY <1>5, KeyType DEF Forget, DeleteIfMatches
  <2> QED BY <2>1 DEF AfterAttempt, Joined, Trying
<1>6. CASE TryAcquireLock(r)
  BY <1>6 DEF TryAcquireLock, Joined, Trying
<1>7. CASE Recheck(r) \/ Peek(r)
  <2>1. UNCHANGED <<remembered, want, rev, initial>>
    BY <1>7 DEF Recheck, Peek
  <2>2. CASE Joinable(r, remembered[Key(r)])
    <3>1. /\ pc'[r] = "validate"
          /\ task'[r] = remembered[Key(r)]
      BY <1>7, <2>2 DEF Recheck, Peek, Join
    <3> QED BY <2>1, <3>1 DEF Joined, Trying
  <2>3. CASE ~Joinable(r, remembered[Key(r)])
    <3>1. pc'[r] \in {"submit", "loop"}
      BY <1>7, <2>3 DEF Recheck, Peek, Join
    <3>2. remembered[Key(r)] \in {NoTask, initial[r]}
      BY <2>3 DEF Joinable
    <3> QED BY <2>1, <3>1, <3>2 DEF Joined, Trying
  <2> QED BY <2>2, <2>3
<1>8. CASE InspectLookup(r) \/ InspectFetch(r) \/ InspectForget(r)
  BY <1>8 DEF InspectLookup, InspectFetch, InspectForget, Joined, Trying
<1>9. CASE Failure(r)
  BY <1>9 DEF Failure, CallFails, LockReplyLost, SubmitReplyLost,
              StoreReplyLost, Crash, Joined, Trying
<1> QED BY <1>1, <1>2, <1>3, <1>4, <1>5, <1>6, <1>7, <1>8, <1>9 DEF Step

\* Under the same condition, a request submits a run only when every run
\* remembered since it arrived has been tried and dropped.
THEOREM NothingToJoin ==
    ASSUME TtlCoversTail
    PROVE  Spec => []NothingLeftToJoin
<1>1. Init => \A r \in Requests : Joined(r)
  BY DEF Init, Joined, Trying
<1>2. ASSUME JoinInv, [Next]_vars, NEW q \in Requests PROVE Joined(q)'
  <2> TypeOK /\ HolderInv /\ Joined(q)
    BY <1>2 DEF JoinInv, HolderInv
  <2>1. ASSUME NEW r \in Requests, Arrival(r) \/ Step(r) \/ Failure(r)
        PROVE  Joined(q)'
    BY <2>1, JoinedOthers, JoinedStep
  <2>2. ASSUME NEW k \in Keys, RememberedExpires(k) PROVE Joined(q)'
    BY <2>2, KeyType
    DEF RememberedExpires, asked, Joined, Trying, Key, TypeOK
  <2>3. CASE Tick \/ Backend \/ UNCHANGED vars
    <3>1. UNCHANGED <<remembered, pc, mode, want, rev, initial, task>>
      BY <2>3
      DEF Tick, Backend, TemplateUpdated, TaskSucceeds, TaskFails,
          OutputExpires, TaskRemoved, SetStatus, vars, store, asked
    <3> QED BY <3>1 DEF Joined, Trying, Key
  <2> QED BY <1>2, <2>1, <2>2, <2>3 DEF Next
<1>3. HolderInv /\ TypeOK' /\ [Next]_vars => HolderInv'
  BY HolderNext DEF HolderInv
<1>4. JoinInv /\ TypeOK' /\ [Next]_vars => JoinInv'
  BY <1>2, <1>3 DEF JoinInv
<1>5. Init => HolderInv
  <2>1. ASSUME Init PROVE TypeOK /\ \A r \in Requests : pc[r] = "idle"
    BY <2>1, TimesAssumption, BoundsAssumption
    DEF Init, TypeOK, Revisions, Keys, NoTask, Kinds, Modes, Statuses, Results,
        Pcs
  <2> QED BY <2>1 DEF HolderInv, Holder, InLock
<1>6. JoinInv => NothingLeftToJoin
  BY DEF JoinInv, Joined, NothingLeftToJoin
<1> QED BY <1>1, <1>4, <1>5, <1>6, TypeCorrect, PTL DEF Spec, JoinInv

-----------------------------------------------------------------------------
(* The runs at hand                                                        *)

Used(t) == tasks[t].status # "unused"

\* t is a run of the report k: of its variant, from its revision or a later.
RunOf(t, k) == Used(t) /\ tasks[t].variant = k[1] /\ tasks[t].rev >= k[2]

Ended(t) == tasks[t].status \in {"ready", "expired", "gone"}

\* r has been answered with the run at hand.
Served(r) == result[r] = "ok" /\ want[r].kind # "inspect"

\* The backend numbers the runs as it accepts them.
Numbered == \E n \in 0..MaxTasks : {t \in TaskIds : Used(t)} = 1..n

\* What is remembered for a report is a run of it.
Filed == \A k \in Keys : remembered[k] # NoTask => RunOf(remembered[k], k)

\* What r asked for and found on arrival.
AskedWell(r) ==
    /\ rev[r] <= template
    /\ pc[r] \in {"idle", "revision", "lookup"} => initial[r] = NoTask
    /\ initial[r] # NoTask => Used(initial[r])
    /\ pc[r] \in {"inspect", "inspectFetch", "inspectForget"}
          => want[r].kind = "inspect"
    /\ pc[r] = "inspectFetch" => task[r] # NoTask
    /\ pc[r] = "inspectForget"
          => task[r] # NoTask /\ tasks[task[r]].status = "gone"

\* The run at hand, or the one r was answered with: it is one of the report,
\* and is the one found on arrival only if r may be content with that.
WorksWell(r) ==
    /\ AtHand(r) \/ Served(r) =>
          /\ task[r] # NoTask
          /\ RunOf(task[r], Key(r))
          /\ IF mode[r] = "arriving" THEN want[r].maxAge # 0
                                     ELSE task[r] # initial[r]
    /\ pc[r] \in {"forget", "output"} => ~Active(task[r])
    /\ pc[r] = "output" \/ Served(r) => Ended(task[r])
    /\ pc[r] = "remember" => mode[r] = "generating"
    /\ result[r] # "none" => pc[r] \in {"release", "done"}

AnswerInv ==
    /\ TypeOK /\ Numbered /\ Filed
    /\ \A r \in Requests : AskedWell(r) /\ WorksWell(r)


\* The backend's next run has a number above those of all others.
LEMMA NextIsNew ==
    ASSUME Numbered
    PROVE  /\ NextTask \in Nat \ {0}
           /\ \A t \in TaskIds : Used(t) <=> t < NextTask
<1>1. PICK n \in 0..MaxTasks : {t \in TaskIds : Used(t)} = 1..n
  BY DEF Numbered
<1>2. Cardinality(1..n) = n
  BY FS_Interval, BoundsAssumption
<1>3. NextTask = n + 1
  BY <1>1, <1>2 DEF NextTask, Used
<1>4. \A t \in TaskIds : Used(t) <=> t \in 1..n
  BY <1>1
<1> QED BY <1>3, <1>4, BoundsAssumption DEF TaskIds

\* What no step takes from a run that was accepted.
Kept(t) ==
    Used(t) =>
        /\ Used(t)'
        /\ tasks'[t].variant = tasks[t].variant
        /\ tasks'[t].rev = tasks[t].rev
        /\ ~Active(t) => ~Active(t)'
        /\ Ended(t) => Ended(t)'
        /\ tasks[t].status = "gone" => tasks'[t].status = "gone"

\* Accepting a run keeps the others, and their numbers.
LEMMA CreateKeeps ==
    ASSUME TypeOK, Numbered, NEW r \in Requests, CreateTask(r)
    PROVE  Numbered' /\ \A t \in TaskIds : Kept(t)
<1>1. /\ NextTask \in Nat \ {0} /\ NextTask \in TaskIds
      /\ \A t \in TaskIds : Used(t) <=> t < NextTask
  BY NextIsNew DEF CreateTask
<1>2. tasks' = [tasks EXCEPT ![NextTask] =
                   [status |-> "active", age |-> 0, rev |-> template,
                    variant |-> want[r].variant]]
  BY DEF CreateTask
<1> HIDE DEF NextTask
<1>3. \A t \in TaskIds : t # NextTask => tasks'[t] = tasks[t]
  BY <1>2 DEF TypeOK
<1>4. tasks'[NextTask].status = "active"
  BY <1>1, <1>2 DEF TypeOK
<1>5. ASSUME NEW t \in TaskIds PROVE Kept(t)
  <2>1. Used(t) => t # NextTask
    BY <1>1 DEF TaskIds
  <2>2. Used(t) => tasks'[t] = tasks[t]
    BY <2>1, <1>3
  <2> QED BY <2>2 DEF Kept, Used, Active, Ended
<1>6. \A t \in TaskIds : Used(t)' <=> t \in 1..NextTask
  BY <1>1, <1>3, <1>4 DEF Used, TaskIds
<1>7. NextTask \in 0..MaxTasks /\ 1..NextTask \subseteq TaskIds
  BY <1>1, BoundsAssumption DEF TaskIds
<1>8. {t \in TaskIds : Used(t)'} = 1..NextTask
  BY <1>6, <1>7
<1>9. Numbered'
  BY <1>7, <1>8 DEF Numbered
<1> QED BY <1>5, <1>9

\* Every change of a run's status keeps it.
LEMMA StatusKeeps ==
    ASSUME TypeOK, Numbered, NEW t \in TaskIds, NEW from, NEW to,
           SetStatus(t, from, to),
           "unused" \notin from, "gone" \notin from,
           to \in {"ready", "failed", "expired", "gone"},
           to = "failed" => from = {"active"}
    PROVE  Numbered' /\ \A u \in TaskIds : Kept(u)
<1>1. tasks' = [tasks EXCEPT ![t] = [tasks[t] EXCEPT !.status = to, !.age = 0]]
      /\ tasks[t].status \in from
  BY DEF SetStatus
<1>2. \A u \in TaskIds : u # t => tasks'[u] = tasks[u]
  BY <1>1 DEF TypeOK
<1>3. tasks'[t] = [tasks[t] EXCEPT !.status = to, !.age = 0]
  BY <1>1 DEF TypeOK
<1>4. tasks[t] \in [status: Statuses, age: 0..AgeCap, rev: Revisions,
                    variant: Variants]
  BY DEF TypeOK
<1>5. /\ tasks'[t].status = to /\ tasks'[t].variant = tasks[t].variant
      /\ tasks'[t].rev = tasks[t].rev
  BY <1>3, <1>4
<1>6. \A u \in TaskIds : Kept(u)
  <2>1. Kept(t)
    BY <1>1, <1>5 DEF Kept, Used, Active, Ended
  <2>2. \A u \in TaskIds : u # t => Kept(u)
    BY <1>2 DEF Kept, Used, Active, Ended
  <2> QED BY <2>1, <2>2
<1>7. \A u \in TaskIds : Used(u)' <=> Used(u)
  BY <1>1, <1>2, <1>5 DEF Used
<1>8. Numbered'
  BY <1>7 DEF Numbered
<1> QED BY <1>6, <1>8

\* What keeps the runs as they are.
LEMMA SameTasksKeep ==
    ASSUME Numbered, UNCHANGED tasks
    PROVE  Numbered' /\ \A t \in TaskIds : Kept(t)
BY DEF Numbered, Used, Kept, Active, Ended

\* Time only ages runs.
LEMMA TickKeeps ==
    ASSUME TypeOK, Numbered, Tick
    PROVE  Numbered' /\ \A t \in TaskIds : Kept(t)
<1>1. ASSUME NEW t \in TaskIds
      PROVE  /\ tasks'[t].status = tasks[t].status
             /\ tasks'[t].variant = tasks[t].variant
             /\ tasks'[t].rev = tasks[t].rev
  <2>1. tasks[t] \in [status: Statuses, age: 0..AgeCap, rev: Revisions,
                      variant: Variants]
    BY DEF TypeOK
  <2>2. tasks'[t] = tasks[t] \/ tasks'[t] = [tasks[t] EXCEPT !.age = @ + 1]
    BY DEF Tick
  <2> QED BY <2>1, <2>2
<1>2. \A t \in TaskIds : Kept(t)
  BY <1>1 DEF Kept, Used, Active, Ended
<1>3. {t \in TaskIds : Used(t)'} = {t \in TaskIds : Used(t)}
  BY <1>1 DEF Used
<1>4. Numbered'
  BY <1>3 DEF Numbered
<1> QED BY <1>2, <1>4

\* Only submissions make runs, and no request edits the template.
LEMMA OnlySubmissionsCreate ==
    ASSUME NEW r \in Requests, Arrival(r) \/ Step(r) \/ Failure(r),
           ~(Submit(r) \/ SubmitReplyLost(r))
    PROVE  UNCHANGED <<tasks, template>>
<1> USE DEF backend, store, asked
<1>1. CASE Arrival(r)
  BY <1>1 DEF Arrival, Render, Prepare, Inspect, Arrive
<1>2. CASE ReadRevision(r) \/ Lookup(r) \/ Validate(r) \/ Await(r)
           \/ Poll(r) \/ Forget(r) \/ Output(r) \/ Loop(r)
           \/ TryAcquireLock(r)
  BY <1>2 DEF ReadRevision, Lookup, Validate, Await, Poll, Forget, Output,
              Loop, TryAcquireLock
<1>3. CASE Recheck(r) \/ Peek(r) \/ SubmitRefused(r) \/ Remember(r)
           \/ ReleaseLock(r) \/ InspectLookup(r) \/ InspectFetch(r)
           \/ InspectForget(r)
  BY <1>3 DEF Recheck, Peek, SubmitRefused, Remember, ReleaseLock,
              InspectLookup, InspectFetch, InspectForget
<1>4. CASE Failure(r)
  BY <1>4 DEF Failure, CallFails, LockReplyLost, StoreReplyLost, Crash
<1> QED BY <1>1, <1>2, <1>3, <1>4 DEF Step

\* No request's step takes anything from an accepted run.
LEMMA RequestKeeps ==
    ASSUME TypeOK, Numbered, NEW r \in Requests,
           Arrival(r) \/ Step(r) \/ Failure(r)
    PROVE  Numbered' /\ (\A t \in TaskIds : Kept(t)) /\ template' = template
<1>1. CASE Submit(r) \/ SubmitReplyLost(r)
  <2>1. CreateTask(r)
    BY <1>1 DEF Submit, SubmitReplyLost
  <2>2. template' = template
    BY <2>1 DEF CreateTask
  <2> QED BY <2>1, <2>2, CreateKeeps
<1>2. CASE ~(Submit(r) \/ SubmitReplyLost(r))
  BY <1>2, SameTasksKeep, OnlySubmissionsCreate
<1> QED BY <1>1, <1>2

\* What the system does besides the requests' steps.
Elsewhere == Backend \/ (\E k \in Keys : RememberedExpires(k)) \/ Tick
             \/ UNCHANGED vars

\* Nor does anything else.
LEMMA ElsewhereKeeps ==
    ASSUME TypeOK, Numbered, Elsewhere
    PROVE  Numbered' /\ (\A t \in TaskIds : Kept(t)) /\ template' >= template
<1> USE DEF backend, store, asked
<1>1. template \in Nat
  BY BoundsAssumption DEF TypeOK, Revisions
<1>2. CASE TemplateUpdated
  BY <1>1, <1>2, SameTasksKeep DEF TemplateUpdated
<1>3. ASSUME NEW t \in TaskIds,
             TaskSucceeds(t) \/ TaskFails(t) \/ OutputExpires(t) \/ TaskRemoved(t)
      PROVE  Numbered' /\ (\A u \in TaskIds : Kept(u)) /\ template' >= template
  <2>1. template' = template
    BY <1>3 DEF TaskSucceeds, TaskFails, OutputExpires, TaskRemoved, SetStatus
  <2>2. CASE TaskSucceeds(t)
    BY <1>1, <2>1, <2>2, StatusKeeps DEF TaskSucceeds
  <2>3. CASE TaskFails(t)
    BY <1>1, <2>1, <2>3, StatusKeeps DEF TaskFails
  <2>4. CASE OutputExpires(t)
    BY <1>1, <2>1, <2>4, StatusKeeps DEF OutputExpires
  <2>5. CASE TaskRemoved(t)
    BY <1>1, <2>1, <2>5, StatusKeeps DEF TaskRemoved
  <2> QED BY <1>3, <2>2, <2>3, <2>4, <2>5
<1>4. ASSUME NEW k \in Keys, RememberedExpires(k)
      PROVE  UNCHANGED <<tasks, template>>
  BY <1>4 DEF RememberedExpires
<1>5. CASE Tick
  <2>1. template' = template
    BY <1>5 DEF Tick
  <2> QED BY <1>1, <1>5, <2>1, TickKeeps
<1>6. CASE UNCHANGED vars
  BY <1>1, <1>6, SameTasksKeep DEF vars
<1> QED BY <1>1, <1>2, <1>3, <1>4, <1>5, <1>6, SameTasksKeep
        DEF Elsewhere, Backend

-----------------------------------------------------------------------------
(* What is remembered *)

\* A request only makes the store remember its run, when it is at setTaskId.
LEMMA RememberedWrites ==
    ASSUME TypeOK, NEW r \in Requests, Arrival(r) \/ Step(r) \/ Failure(r),
           NEW k \in Keys
    PROVE  \/ remembered'[k] \in {remembered[k], NoTask}
           \/ pc[r] = "remember" /\ k = Key(r) /\ remembered'[k] = task[r]
<1>1. CASE pc[r] # "remember" \/ k # Key(r)
  BY <1>1, StoreChanges
<1>2. CASE pc[r] = "remember" /\ k = Key(r)
  <2>1. CASE Arrival(r)
    BY <1>2, <2>1 DEF Arrival, Render, Prepare, Inspect, Arrive
  <2>2. CASE Step(r)
    <3>1. Remember(r)
      BY <1>2, <2>2
      DEF Step, ReadRevision, Lookup, Validate, Await, Poll, Forget, Output,
          Loop, TryAcquireLock, Recheck, Peek, Submit, SubmitRefused,
          ReleaseLock, InspectLookup, InspectFetch, InspectForget
    <3> QED BY <1>2, <3>1 DEF Remember, TypeOK
  <2>3. CASE Failure(r)
    BY <1>2, <2>3 DEF Failure, CallFails, LockReplyLost, SubmitReplyLost,
                      StoreReplyLost, Crash, store, TypeOK
  <2> QED BY <2>1, <2>2, <2>3
<1> QED BY <1>1, <1>2

\* What is remembered for a report stays a run of it.
LEMMA FiledKept ==
    ASSUME TypeOK, TypeOK', Filed, \A t \in TaskIds : Kept(t),
           \A k \in Keys :
              \/ remembered'[k] \in {remembered[k], NoTask}
              \/ remembered'[k] \in TaskIds /\ RunOf(remembered'[k], k)
    PROVE  Filed'
<1> SUFFICES ASSUME NEW k \in Keys, remembered'[k] # NoTask
             PROVE  RunOf(remembered[k], k)'
  BY DEF Filed
<1>1. PICK t \in TaskIds : t = remembered'[k] /\ RunOf(t, k)
  BY DEF Filed, TypeOK
<1>2. Kept(t)
  BY <1>1
<1> QED BY <1>1, <1>2 DEF Kept, RunOf, Used

-----------------------------------------------------------------------------
(* The requests *)

\* What is at hand is a run.
LEMMA AtHandIsRun ==
    ASSUME TypeOK, NEW r \in Requests
    PROVE  /\ task[r] # NoTask => task[r] \in TaskIds
           /\ initial[r] # NoTask => initial[r] \in TaskIds
           /\ remembered[Key(r)] # NoTask => remembered[Key(r)] \in TaskIds
           /\ Key(r)[1] = want[r].variant /\ Key(r)[2] = rev[r]
BY KeyType DEF TypeOK, Key

\* A request that makes no step of its own stays as it is.
LEMMA RestingIsWell ==
    ASSUME TypeOK, TypeOK', NEW q \in Requests, AskedWell(q), WorksWell(q),
           \A t \in TaskIds : Kept(t), template' >= template,
           pc'[q] = pc[q], mode'[q] = mode[q], want'[q] = want[q],
           rev'[q] = rev[q], initial'[q] = initial[q], task'[q] = task[q],
           result'[q] = result[q]
    PROVE  AskedWell(q)' /\ WorksWell(q)'
<1>1. /\ task[q] # NoTask => task[q] \in TaskIds /\ Kept(task[q])
      /\ initial[q] # NoTask => initial[q] \in TaskIds /\ Kept(initial[q])
  BY AtHandIsRun
<1>2. /\ AtHand(q)' = AtHand(q) /\ Served(q)' = Served(q) /\ Key(q)' = Key(q)
  BY DEF AtHand, Served, Key
<1>3. rev[q] <= template'
  <2>1. rev[q] \in Nat /\ template \in Nat /\ template' \in Nat
    BY BoundsAssumption DEF TypeOK, Revisions
  <2> QED BY <2>1 DEF AskedWell
<1>4. AskedWell(q)'
  <2>1. pc[q] = "inspectForget" => task[q] # NoTask /\ tasks'[task[q]].status = "gone"
    BY <1>1 DEF AskedWell, Kept, Used
  <2>2. initial[q] # NoTask => tasks'[initial[q]].status # "unused"
    BY <1>1 DEF AskedWell, Kept, Used
  <2> QED BY <1>3, <2>1, <2>2 DEF AskedWell, Used
<1>5. WorksWell(q)'
  <2>1. AtHand(q) \/ Served(q) =>
           /\ task[q] # NoTask
           /\ RunOf(task[q], Key(q))
           /\ tasks'[task[q]].status # "unused"
           /\ tasks'[task[q]].variant = tasks[task[q]].variant
           /\ tasks'[task[q]].rev = tasks[task[q]].rev
    BY <1>1 DEF WorksWell, RunOf, Kept, Used
  <2>2. pc[q] \in {"forget", "output"} => AtHand(q)
    BY DEF AtHand
  <2>3. pc[q] \in {"forget", "output"} => tasks'[task[q]].status # "active"
    BY <1>1, <2>1, <2>2 DEF WorksWell, RunOf, Kept, Used, Active
  <2>4. pc[q] = "output" \/ Served(q)
          => tasks'[task[q]].status \in {"ready", "expired", "gone"}
    BY <1>1, <2>1, <2>2 DEF WorksWell, RunOf, Kept, Used, Ended
  <2> QED BY <1>2, <2>1, <2>3, <2>4 DEF WorksWell, RunOf, Used, Active, Ended
<1> QED BY <1>4, <1>5

\* A request's step answers no other request.
LEMMA OthersKeepResult ==
    ASSUME TypeOK, NEW r \in Requests, NEW other \in Requests, other # r,
           Arrival(r) \/ Step(r) \/ Failure(r)
    PROVE  result'[other] = result[other]
<1> USE DEF TypeOK, Finish
<1>1. CASE Arrival(r)
  BY <1>1 DEF Arrival, Render, Prepare, Inspect, Arrive
<1>2. CASE ReadRevision(r) \/ Lookup(r) \/ Validate(r) \/ Await(r) \/ Poll(r)
           \/ Forget(r) \/ Output(r) \/ Loop(r) \/ TryAcquireLock(r)
  BY <1>2 DEF ReadRevision, Lookup, Validate, Judge, Await, Poll, Complete,
              Forget, Output, Loop, TryAcquireLock
<1>3. CASE Recheck(r) \/ Peek(r) \/ Submit(r) \/ SubmitRefused(r)
           \/ Remember(r) \/ ReleaseLock(r) \/ InspectLookup(r)
           \/ InspectFetch(r) \/ InspectForget(r)
  BY <1>3 DEF Recheck, Peek, Submit, SubmitRefused, Remember, ReleaseLock,
              InspectLookup, InspectFetch, InspectForget
<1>4. CASE Failure(r)
  BY <1>4 DEF Failure, CallFails, LockReplyLost, SubmitReplyLost,
              StoreReplyLost, Crash
<1> QED BY <1>1, <1>2, <1>3, <1>4 DEF Step

\* An arrival.
LEMMA ArrivalIsWell ==
    ASSUME TypeOK, NEW r \in Requests, AskedWell(r), WorksWell(r), Arrival(r)
    PROVE  AskedWell(r)' /\ WorksWell(r)'
<1>1. /\ pc[r] = "idle" /\ UNCHANGED <<template, mode, initial, task, result>>
      /\ UNCHANGED tasks
  BY DEF Arrival, Render, Prepare, Inspect, Arrive, backend
<1>2. result[r] = "none" /\ initial[r] = NoTask
  BY <1>1 DEF AskedWell, WorksWell
<1>3. /\ pc'[r] \in {"revision", "inspect"}
      /\ pc'[r] = "inspect" => want'[r].kind = "inspect"
  BY DEF Arrival, Render, Prepare, Inspect, Arrive, GoTo, TypeOK
<1>4. rev'[r] <= template
  <2>1. rev'[r] = rev[r] \/ rev'[r] \in 1..template
    BY DEF Arrival, Render, Prepare, Inspect, TypeOK
  <2>2. template \in Nat
    BY BoundsAssumption DEF TypeOK, Revisions
  <2> QED BY <2>1, <2>2 DEF AskedWell
<1> QED BY <1>1, <1>2, <1>3, <1>4 DEF AskedWell, WorksWell, AtHand, Served

\* A step of a request that leaves the run at hand and the tasks alone.
LEMMA StepIsWell ==
    ASSUME TypeOK, Filed, NEW r \in Requests, AskedWell(r), WorksWell(r),
           Step(r), ~Submit(r)
    PROVE  AskedWell(r)' /\ WorksWell(r)'
<1> USE DEF TypeOK, GoTo, Finish, backend, store, asked
<1>1. CASE ReadRevision(r)
  <2>1. template <= template
    BY BoundsAssumption DEF Revisions
  <2> QED BY <1>1, <2>1 DEF ReadRevision, AskedWell, WorksWell, AtHand, Served
<1>2. CASE Lookup(r)
  <2> DEFINE found == remembered[Key(r)]
  <2>1. /\ pc[r] = "lookup" /\ UNCHANGED <<template, tasks, want, rev, result>>
        /\ initial'[r] = found /\ task'[r] = found /\ mode'[r] = "arriving"
        /\ pc'[r] = IF TriedOnArrival(r, found) THEN "validate" ELSE "loop"
    BY <1>2 DEF Lookup
  <2>2. found # NoTask => RunOf(found, Key(r))
    BY KeyType DEF Filed
  <2>3. Key(r)' = Key(r)
    BY <2>1 DEF Key
  <2> HIDE DEF found
  <2> QED BY <2>1, <2>2, <2>3
          DEF AskedWell, WorksWell, AtHand, Served, TriedOnArrival, RunOf, Used
<1>3. CASE Recheck(r) \/ Peek(r)
  <2> DEFINE found == remembered[Key(r)]
  <2>1. UNCHANGED <<template, tasks, want, rev, initial, result>>
    BY <1>3 DEF Recheck, Peek
  <2>2. Key(r)' = Key(r)
    BY <2>1 DEF Key
  <2>3. CASE Joinable(r, found)
    <3>1. /\ pc'[r] = "validate" /\ task'[r] = found
          /\ mode'[r] \in {"holding", "waiting"} /\ pc[r] \in {"recheck", "peek"}
      BY <1>3, <2>3 DEF Recheck, Peek, Join
    <3>2. found # NoTask /\ found # initial[r] /\ RunOf(found, Key(r))
      BY <2>3, KeyType DEF Filed, Joinable
    <3> HIDE DEF found
    <3> QED BY <2>1, <2>2, <3>1, <3>2
            DEF AskedWell, WorksWell, AtHand, Served, RunOf, Used
  <2>4. CASE ~Joinable(r, found)
    <3>1. /\ pc'[r] \in {"submit", "loop"} /\ pc[r] \in {"recheck", "peek"}
      BY <1>3, <2>4 DEF Recheck, Peek, Join
    <3> HIDE DEF found
    <3> QED BY <2>1, <3>1 DEF AskedWell, WorksWell, AtHand, Served, Used
  <2> QED BY <2>3, <2>4
<1>4. CASE Loop(r) \/ TryAcquireLock(r) \/ SubmitRefused(r) \/ Forget(r)
  BY <1>4 DEF Loop, TryAcquireLock, SubmitRefused, Forget, AfterAttempt,
              AskedWell, WorksWell, AtHand, Served, Used
<1>5. CASE Validate(r)
  BY <1>5 DEF Validate, Judge, Usable, Successful, AskedWell, WorksWell,
              AtHand, Served, RunOf, Used, Active, Ended, Key
<1>6. CASE Await(r)
  BY <1>6 DEF Await, AskedWell, WorksWell, AtHand, Served, RunOf, Used, Key
<1>7. CASE Poll(r)
  BY <1>7 DEF Poll, Judge, Complete, Usable, Successful, AskedWell, WorksWell,
              AtHand, Served, RunOf, Used, Active, Ended, Key
<1>8. CASE Output(r)
  BY <1>8 DEF Output, AskedWell, WorksWell, AtHand, Served, RunOf, Used,
              Active, Ended, Key
<1>9. CASE Remember(r)
  BY <1>9 DEF Remember, AskedWell, WorksWell, AtHand, Served, RunOf, Used, Key
<1>10. CASE ReleaseLock(r)
  BY <1>10 DEF ReleaseLock, AskedWell, WorksWell, AtHand, Served, RunOf, Used,
               Ended, Key
<1>11. CASE InspectLookup(r) \/ InspectFetch(r) \/ InspectForget(r)
  BY <1>11 DEF InspectLookup, InspectFetch, InspectForget, AskedWell, WorksWell,
               AtHand, Served, Used
<1> QED BY <1>1, <1>2, <1>3, <1>4, <1>5, <1>6, <1>7, <1>8, <1>9, <1>10, <1>11
        DEF Step

\* The submission: the run at hand is the backend's next.
LEMMA SubmitIsWell ==
    ASSUME TypeOK, TypeOK', Numbered, NEW r \in Requests, AskedWell(r),
           WorksWell(r), Submit(r)
    PROVE  AskedWell(r)' /\ WorksWell(r)'
<1>1. /\ pc[r] = "submit" /\ pc'[r] = "remember" /\ mode'[r] = "generating"
      /\ task'[r] = NextTask
      /\ UNCHANGED <<template, want, rev, initial, result>>
  BY DEF Submit, CreateTask, GoTo, TypeOK, asked
<1>2. NextTask \in TaskIds /\ NextTask # NoTask
  BY NextIsNew DEF Submit, CreateTask, NoTask
<1>3. /\ tasks'[NextTask].status = "active"
      /\ tasks'[NextTask].variant = want[r].variant
      /\ tasks'[NextTask].rev = template
  <2> HIDE DEF NextTask
  <2>1. tasks'[NextTask] = [status |-> "active", age |-> 0, rev |-> template,
                            variant |-> want[r].variant]
    BY <1>2 DEF Submit, CreateTask, TypeOK
  <2> QED BY <2>1
<1>4. initial[r] # NoTask => Used(initial[r])' /\ initial[r] # NextTask
  <2>1. initial[r] # NoTask => initial[r] \in TaskIds /\ Used(initial[r])
    BY AtHandIsRun DEF AskedWell
  <2>2. initial[r] # NoTask => initial[r] < NextTask
    BY <2>1, NextIsNew
  <2>3. \A t \in TaskIds : Kept(t)
    BY CreateKeeps DEF Submit
  <2>4. NextTask \in Nat
    BY NextIsNew
  <2> HIDE DEF NextTask
  <2>5. initial[r] # NoTask => initial[r] \in Nat /\ Kept(initial[r])
    BY <2>1, <2>3 DEF TaskIds
  <2>6. initial[r] # NoTask => tasks'[initial[r]].status # "unused"
    BY <1>1, <2>1, <2>5 DEF Kept, Used
  <2> QED BY <1>1, <2>2, <2>4, <2>5, <2>6 DEF Used
<1> HIDE DEF NextTask
<1>5. Key(r)' = Key(r) /\ Key(r)[1] = want[r].variant /\ Key(r)[2] = rev[r]
  BY <1>1 DEF Key
<1>6. AskedWell(r)'
  BY <1>1, <1>4 DEF AskedWell, Used
<1>7. RunOf(task[r], Key(r))'
  <2>1. template >= rev[r]
    <3>1. rev[r] \in Nat /\ template \in Nat
      BY BoundsAssumption DEF TypeOK, Revisions
    <3> QED BY <3>1 DEF AskedWell
  <2> QED BY <1>1, <1>3, <1>5, <2>1 DEF RunOf, Used
<1>8. task'[r] # initial'[r]
  BY <1>1, <1>2, <1>4
<1>9. result[r] = "none"
  BY <1>1 DEF WorksWell
<1> QED BY <1>1, <1>2, <1>6, <1>7, <1>8, <1>9
        DEF WorksWell, AtHand, Served

\* A failure answers nothing.
LEMMA FailureIsWell ==
    ASSUME TypeOK, TypeOK', Numbered, NEW r \in Requests, AskedWell(r),
           WorksWell(r), Failure(r)
    PROVE  AskedWell(r)' /\ WorksWell(r)'
<1>1. UNCHANGED <<template, want, rev, initial, task, mode>>
  BY DEF Failure, CallFails, LockReplyLost, SubmitReplyLost, StoreReplyLost,
         Crash, CreateTask, backend, asked
<1>2. \/ pc'[r] \in {"release", "done"} /\ result'[r] \in {"error", "crashed"}
      \/ pc[r] = "lock" /\ pc'[r] = "peek" /\ result'[r] = result[r]
  BY DEF Failure, CallFails, LockReplyLost, SubmitReplyLost, StoreReplyLost,
         Crash, Finish, GoTo, TypeOK
<1>3. initial[r] # NoTask => Used(initial[r])'
  <2>1. \A t \in TaskIds : Kept(t)
    BY RequestKeeps
  <2>2. initial[r] # NoTask => Used(initial[r]) /\ Kept(initial[r])
    BY <2>1, AtHandIsRun DEF AskedWell
  <2>3. initial[r] # NoTask => tasks'[initial[r]].status # "unused"
    BY <1>1, <2>2 DEF Kept, Used
  <2> QED BY <1>1, <2>3 DEF Used
<1> QED BY <1>1, <1>2, <1>3 DEF AskedWell, WorksWell, AtHand, Served

\* A request's step keeps all requests' runs.
LEMMA RequestIsWell ==
    ASSUME AnswerInv, TypeOK', NEW r \in Requests,
           Arrival(r) \/ Step(r) \/ Failure(r)
    PROVE  AnswerInv'
<1>1. /\ TypeOK /\ Numbered /\ Filed
      /\ \A q \in Requests : AskedWell(q) /\ WorksWell(q)
  BY DEF AnswerInv
<1>2. Numbered' /\ (\A t \in TaskIds : Kept(t)) /\ template' = template
  BY <1>1, RequestKeeps
<1>3. template \in Nat
  BY <1>1, BoundsAssumption DEF TypeOK, Revisions
<1>4. ASSUME NEW q \in Requests PROVE AskedWell(q)' /\ WorksWell(q)'
  <2>1. CASE q # r
    <3>1. /\ Untouched(q) /\ result'[q] = result[q]
          /\ initial'[q] = initial[q] /\ task'[q] = task[q]
      BY <1>1, <2>1, OthersUntouched, OthersKeepAsked, OthersKeepResult
    <3> QED BY <1>1, <1>2, <1>3, <3>1, RestingIsWell DEF Untouched
  <2>2. CASE q = r
    BY <1>1, <2>2, ArrivalIsWell, StepIsWell, SubmitIsWell, FailureIsWell
  <2> QED BY <2>1, <2>2
<1>5. ASSUME NEW k \in Keys
      PROVE  \/ remembered'[k] \in {remembered[k], NoTask}
             \/ remembered'[k] \in TaskIds /\ RunOf(remembered'[k], k)
  <2>1. CASE pc[r] = "remember" /\ k = Key(r) /\ remembered'[k] = task[r]
    <3>1. task[r] # NoTask /\ RunOf(task[r], Key(r))
      BY <1>1, <2>1 DEF WorksWell, AtHand
    <3> QED BY <1>1, <2>1, <3>1, AtHandIsRun
  <2> QED BY <1>1, <2>1, RememberedWrites
<1>6. Filed'
  BY <1>1, <1>2, <1>5, FiledKept
<1> QED BY <1>2, <1>4, <1>6 DEF AnswerInv

\* What is left alone when no request moves.
LEMMA ElsewhereLeaves ==
    ASSUME TypeOK, Elsewhere
    PROVE  /\ UNCHANGED <<pc, mode, want, rev, initial, task, result>>
           /\ \A k \in Keys : remembered'[k] \in {remembered[k], NoTask}
<1> USE DEF backend, store, asked
<1>1. CASE Backend \/ Tick \/ UNCHANGED vars
  BY <1>1 DEF Backend, TemplateUpdated, TaskSucceeds, TaskFails, OutputExpires,
              TaskRemoved, SetStatus, Tick, vars
<1>2. ASSUME NEW k \in Keys, RememberedExpires(k)
      PROVE  /\ UNCHANGED <<pc, mode, want, rev, initial, task, result>>
             /\ \A j \in Keys : remembered'[j] \in {remembered[j], NoTask}
  BY <1>2 DEF RememberedExpires, TypeOK
<1> QED BY <1>1, <1>2 DEF Elsewhere

\* Every step keeps them.
LEMMA AnswerNext ==
    ASSUME AnswerInv, TypeOK', [Next]_vars
    PROVE  AnswerInv'
<1>1. CASE Elsewhere
  <2>1. /\ TypeOK /\ Numbered /\ Filed
        /\ \A q \in Requests : AskedWell(q) /\ WorksWell(q)
    BY DEF AnswerInv
  <2>2. Numbered' /\ (\A t \in TaskIds : Kept(t)) /\ template' >= template
    BY <1>1, <2>1, ElsewhereKeeps
  <2>3. /\ UNCHANGED <<pc, mode, want, rev, initial, task, result>>
        /\ \A k \in Keys : remembered'[k] \in {remembered[k], NoTask}
    BY <1>1, <2>1, ElsewhereLeaves
  <2>4. Filed'
    BY <2>1, <2>2, <2>3, FiledKept
  <2>5. \A q \in Requests : AskedWell(q)' /\ WorksWell(q)'
    BY <2>1, <2>2, <2>3, RestingIsWell
  <2> QED BY <2>2, <2>4, <2>5 DEF AnswerInv
<1> QED BY <1>1, RequestIsWell DEF Next, Elsewhere

\* It holds of the start.
LEMMA AnswerInit ==
    ASSUME Init, TypeOK
    PROVE  AnswerInv
<1>1. \A t \in TaskIds : tasks[t].status = "unused"
  BY DEF Init
<1>2. Numbered
  <2>1. {t \in TaskIds : Used(t)} = 1..0 /\ 0 \in 0..MaxTasks
    BY <1>1, BoundsAssumption DEF Used
  <2> QED BY <2>1 DEF Numbered
<1>3. Filed
  BY DEF Init, Filed
<1>4. ASSUME NEW q \in Requests PROVE AskedWell(q) /\ WorksWell(q)
  <2>1. /\ pc[q] = "idle" /\ initial[q] = NoTask /\ rev[q] = 1 /\ template = 1
        /\ result[q] = "none"
    BY DEF Init
  <2> QED BY <2>1 DEF AskedWell, WorksWell, AtHand, Served
<1> QED BY <1>2, <1>3, <1>4 DEF AnswerInv

\* The invariant about the runs at hand holds of every reachable state.
LEMMA AnswersAreRuns == Spec => []AnswerInv
<1>1. AnswerInv /\ TypeOK' /\ [Next]_vars => AnswerInv'
  BY AnswerNext
<1>2. Init /\ TypeOK => AnswerInv
  BY AnswerInit
<1> QED BY <1>1, <1>2, TypeCorrect, PTL DEF Spec

\* A request that is answered with a report is answered with a successful
\* run of what it asked for, from the revision it read or a later one.
THEOREM ServedIsAsked == Spec => []ServedRunMatches
<1>1. AnswerInv => ServedRunMatches
  <2> SUFFICES ASSUME AnswerInv, NEW r \in Requests, Served(r)
               PROVE  /\ task[r] # NoTask
                      /\ tasks[task[r]].status \in {"ready", "expired", "gone"}
                      /\ tasks[task[r]].variant = want[r].variant
                      /\ tasks[task[r]].rev >= rev[r]
    BY DEF ServedRunMatches, Served
  <2>1. task[r] # NoTask /\ RunOf(task[r], Key(r)) /\ Ended(task[r])
    BY DEF AnswerInv, WorksWell
  <2> QED BY <2>1 DEF RunOf, Ended, Key
<1> QED BY <1>1, AnswersAreRuns, PTL

\* A request removes from the store only the run it found unusable.
LEMMA Removals ==
    ASSUME TypeOK, NEW r \in Requests, Arrival(r) \/ Step(r) \/ Failure(r),
           NEW k \in Keys, remembered[k] # NoTask, remembered'[k] = NoTask
    PROVE  \/ pc[r] \in {"forget", "inspectForget"} /\ remembered[k] = task[r]
           \/ pc[r] = "remember" /\ task[r] = NoTask
<1> USE DEF TypeOK, backend, store, asked
<1>1. CASE Arrival(r)
  BY <1>1 DEF Arrival, Render, Prepare, Inspect, Arrive
<1>2. CASE ReadRevision(r) \/ Lookup(r) \/ Validate(r) \/ Await(r) \/ Poll(r)
           \/ Output(r) \/ Loop(r) \/ TryAcquireLock(r) \/ Recheck(r)
  BY <1>2 DEF ReadRevision, Lookup, Validate, Await, Poll, Output, Loop,
              TryAcquireLock, Recheck
<1>3. CASE Peek(r) \/ Submit(r) \/ SubmitRefused(r) \/ ReleaseLock(r)
           \/ InspectLookup(r) \/ InspectFetch(r)
  BY <1>3 DEF Peek, Submit, SubmitRefused, ReleaseLock, InspectLookup,
              InspectFetch
<1>4. CASE Forget(r) \/ InspectForget(r)
  BY <1>4, KeyType DEF Forget, InspectForget, DeleteIfMatches
<1>5. CASE Remember(r)
  BY <1>5, KeyType DEF Remember
<1>6. CASE CallFails(r) \/ LockReplyLost(r) \/ SubmitReplyLost(r) \/ Crash(r)
  BY <1>6 DEF CallFails, LockReplyLost, SubmitReplyLost, Crash
<1>7. CASE StoreReplyLost(r)
  BY <1>7, KeyType DEF StoreReplyLost, DeleteIfMatches
<1> QED BY <1>1, <1>2, <1>3, <1>4, <1>5, <1>6, <1>7 DEF Step, Failure

\* No request makes the store forget a run that is still being generated,
\* however late its delete is executed.
THEOREM RunningIsRemembered == Spec => ActiveRunNotForgotten
<1>1. ASSUME AnswerInv, [Next]_vars
      PROVE  [\A k \in Keys :
                 /\ remembered[k] # NoTask
                 /\ remembered'[k] = NoTask
                 /\ pc' # pc
                 => ~Active(remembered[k])]_vars
  <2> SUFFICES ASSUME NEW k \in Keys, remembered[k] # NoTask,
                      remembered'[k] = NoTask, pc' # pc
               PROVE  ~Active(remembered[k])
    OBVIOUS
  <2> TypeOK
    BY <1>1 DEF AnswerInv
  <2>1. ~Elsewhere
    BY ElsewhereLeaves
  <2>2. PICK r \in Requests : Arrival(r) \/ Step(r) \/ Failure(r)
    BY <1>1, <2>1 DEF Next, Elsewhere
  <2>3. AskedWell(r) /\ WorksWell(r)
    BY <1>1 DEF AnswerInv
  <2>4. \/ pc[r] \in {"forget", "inspectForget"} /\ remembered[k] = task[r]
        \/ pc[r] = "remember" /\ task[r] = NoTask
    BY <2>2, Removals
  <2> QED BY <2>3, <2>4 DEF AskedWell, WorksWell, AtHand, Active
<1> QED BY <1>1, AnswersAreRuns, PTL DEF Spec, ActiveRunNotForgotten

-----------------------------------------------------------------------------
(* The lock *)

\* A request's step takes a lock that is free, or gives back its own.
LEMMA LockChanges ==
    ASSUME TypeOK, NEW r \in Requests, Arrival(r) \/ Step(r) \/ Failure(r),
           NEW k \in Keys, lock[k] # Nobody, lock'[k] # lock[k]
    PROVE  lock[k] = r /\ pc[r] = "release" /\ pc'[r] = "done"
<1> USE DEF TypeOK, backend, store, asked, Finish, GoTo
<1>1. CASE Arrival(r)
  BY <1>1 DEF Arrival, Render, Prepare, Inspect, Arrive
<1>2. CASE ReadRevision(r) \/ Lookup(r) \/ Validate(r) \/ Await(r) \/ Poll(r)
           \/ Output(r) \/ Loop(r) \/ Forget(r) \/ Recheck(r)
  BY <1>2 DEF ReadRevision, Lookup, Validate, Await, Poll, Output, Loop,
              Forget, Recheck
<1>3. CASE Peek(r) \/ Submit(r) \/ SubmitRefused(r) \/ Remember(r)
           \/ InspectLookup(r) \/ InspectFetch(r) \/ InspectForget(r)
  BY <1>3 DEF Peek, Submit, SubmitRefused, Remember, InspectLookup,
              InspectFetch, InspectForget
<1>4. CASE TryAcquireLock(r)
  BY <1>4, KeyType DEF TryAcquireLock, TakeLock, LockFree
<1>5. CASE ReleaseLock(r)
  BY <1>5, KeyType DEF ReleaseLock, Unlock
<1>6. CASE CallFails(r) \/ SubmitReplyLost(r) \/ Crash(r)
  BY <1>6 DEF CallFails, SubmitReplyLost, Crash
<1>7. CASE LockReplyLost(r)
  BY <1>7, KeyType DEF LockReplyLost, TakeLock, LockFree
<1>8. CASE StoreReplyLost(r)
  BY <1>8, KeyType DEF StoreReplyLost, Unlock
<1> QED BY <1>1, <1>2, <1>3, <1>4, <1>5, <1>6, <1>7, <1>8 DEF Step, Failure

\* Only the holder of a lock frees it, and only when it leaves: a holder that
\* outlived its lock does not free its successor's.
THEOREM OwnLockIsFreed == Spec => LockFreedByOwner
<1>1. ASSUME TypeOK, [Next]_vars
      PROVE  [\A k \in Keys :
                 /\ lock[k] # Nobody /\ lock'[k] # lock[k]
                 /\ pc' # pc
                 => pc[lock[k]] = "release" /\ pc'[lock[k]] = "done"]_vars
  <2> SUFFICES ASSUME NEW k \in Keys, lock[k] # Nobody, lock'[k] # lock[k],
                      pc' # pc
               PROVE  pc[lock[k]] = "release" /\ pc'[lock[k]] = "done"
    OBVIOUS
  <2>1. ~Elsewhere
    BY <1>1, ElsewhereLeaves
  <2>2. PICK r \in Requests : Arrival(r) \/ Step(r) \/ Failure(r)
    BY <1>1, <2>1 DEF Next, Elsewhere
  <2> QED BY <1>1, <2>2, LockChanges
<1> QED BY <1>1, TypeCorrect, PTL DEF Spec, LockFreedByOwner

-----------------------------------------------------------------------------
(* The age of what is served *)

\* While r loads the output of the run found on arrival, that run has grown
\* older by no more than r has waited for it.
YoungEnough(r) ==
    /\ pc[r] = "output" /\ mode[r] = "arriving" /\ want[r].maxAge # NoLimit
    /\ tasks[task[r]].status = "ready"
    => tasks[task[r]].age <= want[r].maxAge + lag[r] /\ lag[r] <= BackendLag

AgeInv == AnswerInv /\ \A r \in Requests : YoungEnough(r)


\* A run that is ready after a step was ready before, or has just ended; only
\* time makes it older.
LEMMA Ageing ==
    ASSUME TypeOK, Numbered, [Next]_vars, NEW t \in TaskIds, Used(t),
           ~Active(t), tasks'[t].status = "ready"
    PROVE  /\ tasks[t].status = "ready"
           /\ tasks'[t].age <= tasks[t].age + 1
           /\ ~Tick => tasks'[t].age = tasks[t].age
<1>1. /\ tasks[t] \in [status: Statuses, age: 0..AgeCap, rev: Revisions,
                       variant: Variants]
      /\ tasks[t].age \in Nat
  <2>1. tasks[t] \in [status: Statuses, age: 0..AgeCap, rev: Revisions,
                      variant: Variants]
    BY DEF TypeOK
  <2> QED BY <2>1, BoundsAssumption
<1>2. CASE tasks'[t] = tasks[t]
  BY <1>1, <1>2
<1>3. CASE Tick
  <2>1. tasks'[t] = tasks[t] \/ tasks'[t] = [tasks[t] EXCEPT !.age = @ + 1]
    BY <1>3 DEF Tick
  <2> QED BY <1>1, <1>3, <2>1
<1>4. ASSUME NEW u \in TaskIds, NEW from, NEW to, SetStatus(u, from, to),
             to # "ready" \/ from = {"active"}
      PROVE  tasks'[t] = tasks[t]
  <2>1. tasks' = [tasks EXCEPT ![u] =
                     [tasks[u] EXCEPT !.status = to, !.age = 0]]
        /\ tasks[u].status \in from
    BY <1>4 DEF SetStatus
  <2>2. CASE u = t
    <3>1. tasks'[t].status = to
      BY <1>1, <2>1, <2>2 DEF TypeOK
    <3> QED BY <1>4, <2>1, <2>2, <3>1 DEF Active
  <2>3. CASE u # t
    BY <2>1, <2>3 DEF TypeOK
  <2> QED BY <2>2, <2>3
<1>5. CASE Backend
  <2>1. CASE TemplateUpdated
    BY <1>2, <2>1 DEF TemplateUpdated
  <2>2. ASSUME NEW u \in TaskIds, TaskSucceeds(u) \/ TaskFails(u)
                                  \/ OutputExpires(u) \/ TaskRemoved(u)
        PROVE  tasks'[t] = tasks[t]
    BY <1>4, <2>2 DEF TaskSucceeds, TaskFails, OutputExpires, TaskRemoved
  <2> QED BY <1>2, <1>5, <2>1, <2>2 DEF Backend
<1>6. ASSUME NEW r \in Requests, Arrival(r) \/ Step(r) \/ Failure(r)
      PROVE  tasks'[t] = tasks[t]
  <2>1. CASE Submit(r) \/ SubmitReplyLost(r)
    <3>1. CreateTask(r)
      BY <2>1 DEF Submit, SubmitReplyLost
    <3>2. t # NextTask
      BY NextIsNew
    <3> HIDE DEF NextTask
    <3> QED BY <3>1, <3>2 DEF CreateTask, TypeOK
  <2>2. CASE ~(Submit(r) \/ SubmitReplyLost(r))
    <3>1. UNCHANGED tasks
      BY <1>6, <2>2, OnlySubmissionsCreate
    <3> QED BY <3>1
  <2> QED BY <2>1, <2>2
<1>7. CASE (\E k \in Keys : RememberedExpires(k)) \/ UNCHANGED vars
  BY <1>2, <1>7 DEF RememberedExpires, vars, backend
<1> QED BY <1>2, <1>3, <1>5, <1>6, <1>7 DEF Next

\* A run found on arrival is judged by the request's own limit.
LEMMA JudgedYoung ==
    ASSUME TypeOK, NEW r \in Requests, task[r] \in TaskIds,
           Usable(r, task[r]), mode[r] = "arriving", want[r].maxAge # NoLimit
    PROVE  tasks[task[r]].age <= want[r].maxAge
BY DEF Usable, Fresh, LimitOf

\* Every step keeps young what is being loaded.
LEMMA AgeNext ==
    ASSUME AgeInv, TypeOK', [Next]_vars, NEW q \in Requests
    PROVE  YoungEnough(q)'
<1> SUFFICES ASSUME pc'[q] = "output", mode'[q] = "arriving",
                    want'[q].maxAge # NoLimit,
                    tasks'[task'[q]].status = "ready"
             PROVE  /\ tasks'[task'[q]].age <= want'[q].maxAge + lag'[q]
                    /\ lag'[q] <= BackendLag
  BY DEF YoungEnough
<1>1. /\ TypeOK /\ Numbered /\ AskedWell(q) /\ WorksWell(q) /\ YoungEnough(q)
  BY DEF AgeInv, AnswerInv
<1>2. /\ lag[q] \in Nat /\ want[q].maxAge \in Int
  <2>1. want[q] \in [kind: Kinds, maxAge: MaxAges \union {0}, variant: Variants]
    BY <1>1 DEF TypeOK
  <2>2. lag[q] \in Nat
    BY <1>1, TimesAssumption DEF TypeOK
  <2>3. want[q].maxAge \in MaxAges \union {0}
    BY <2>1
  <2>4. NoLimit \in Int
    BY DEF NoLimit
  <2>5. MaxAges \union {0} \subseteq Int
    BY <2>4, BoundsAssumption
  <2> QED BY <2>2, <2>3, <2>5
<1>3. CASE /\ pc[q] = "output" /\ mode'[q] = mode[q] /\ want'[q] = want[q]
           /\ task'[q] = task[q]
           /\ (lag'[q] = lag[q] /\ ~Tick) \/ Tick
  <2> DEFINE t == task[q]
  <2>1. t \in TaskIds /\ Used(t) /\ ~Active(t)
    BY <1>1, <1>3, AtHandIsRun DEF WorksWell, AtHand, RunOf
  <2>2. /\ tasks[t].status = "ready" /\ tasks'[t].age <= tasks[t].age + 1
        /\ ~Tick => tasks'[t].age = tasks[t].age
    <3> HIDE DEF t
    <3>1. tasks'[t].status = "ready"
      BY <1>3 DEF t
    <3> QED BY <1>1, <2>1, <3>1, Ageing
  <2>3. tasks[t].age \in Nat /\ tasks'[t].age \in Nat
    <3>1. /\ tasks[t] \in [status: Statuses, age: 0..AgeCap, rev: Revisions,
                           variant: Variants]
          /\ tasks'[t] \in [status: Statuses, age: 0..AgeCap, rev: Revisions,
                            variant: Variants]
      BY <1>1, <2>1 DEF TypeOK
    <3> QED BY <3>1, BoundsAssumption
  <2>4. tasks[t].age <= want[q].maxAge + lag[q] /\ lag[q] <= BackendLag
    BY <1>3, <2>2 DEF YoungEnough, AgeInv
  <2>5. CASE Tick
    <3>1. lag'[q] = lag[q] + 1 /\ lag[q] < BackendLag
      BY <1>3, <2>5 DEF Tick, Busy, LagLimit, BackendPcs
    <3> QED BY <1>2, <1>3, <2>2, <2>3, <2>4, <3>1, TimesAssumption
  <2>6. CASE ~Tick
    BY <1>2, <1>3, <2>2, <2>3, <2>4, <2>6
  <2> QED BY <2>5, <2>6
<1>4. CASE Elsewhere
  <2>1. UNCHANGED <<pc, mode, want, task>>
    BY <1>1, <1>4, ElsewhereLeaves
  <2>2. lag'[q] = lag[q] \/ Tick
    BY <1>4 DEF Elsewhere, Backend, TemplateUpdated, TaskSucceeds, TaskFails,
                OutputExpires, TaskRemoved, SetStatus, RememberedExpires, vars
  <2> QED BY <1>3, <2>1, <2>2
<1>5. ASSUME NEW r \in Requests, Arrival(r) \/ Step(r) \/ Failure(r), r # q,
             ~Tick
      PROVE  /\ tasks'[task'[q]].age <= want'[q].maxAge + lag'[q]
             /\ lag'[q] <= BackendLag
  <2>1. Untouched(q) /\ task'[q] = task[q]
    BY <1>1, <1>5, OthersUntouched, OthersKeepAsked
  <2> QED BY <1>3, <1>5, <2>1 DEF Untouched
<1>6. CASE Arrival(q) \/ Step(q) \/ Failure(q)
  <2>1. /\ Validate(q) \/ Poll(q)
    BY <1>6, <1>1 DEF Arrival, Render, Prepare, Inspect, Step, ReadRevision, Lookup,
       Await, Forget, AfterAttempt, Output, Loop, TryAcquireLock, Recheck, Peek,
       Join, Submit, SubmitRefused, Remember, ReleaseLock, InspectLookup,
       InspectFetch, InspectForget, Failure, CallFails, LockReplyLost,
       SubmitReplyLost, StoreReplyLost, Crash, GoTo, Finish, TypeOK
  <2>2. /\ Usable(q, task[q])
        /\ UNCHANGED <<tasks, want, task, mode>> /\ lag'[q] = 0
        /\ AtHand(q)
    BY <1>1, <2>1 DEF Validate, Poll, Judge, Complete, GoTo, Finish, Answered,
                AtHand, WorksWell, TypeOK, backend, asked
  <2>3. task[q] \in TaskIds
    BY <1>1, <2>2, AtHandIsRun DEF WorksWell
  <2>4. tasks[task[q]].age <= want[q].maxAge
    BY <1>1, <2>2, <2>3, JudgedYoung
  <2> QED BY <1>2, <2>2, <2>4, TimesAssumption
<1> QED BY <1>4, <1>5, <1>6 DEF Next, Elsewhere

\* It holds of every reachable state.
LEMMA OutputsAreYoung == Spec => []AgeInv
<1>1. Init /\ AnswerInv => AgeInv
  BY DEF Init, YoungEnough, AgeInv
<1>2. AgeInv /\ TypeOK' /\ AnswerInv' /\ [Next]_vars => AgeInv'
  BY AgeNext DEF AgeInv
<1> QED BY <1>1, <1>2, TypeCorrect, AnswersAreRuns, PTL DEF Spec

\* A report that is reused under a max_age is at most that old when it is
\* answered, but for the time the last call takes.
THEOREM ReusedIsYoung == Spec => ServedWithinAge
<1>1. ASSUME AgeInv, [Next]_vars
      PROVE  [\A r \in Requests :
                 /\ result[r] # "ok" /\ result'[r] = "ok"
                 /\ want[r].kind # "inspect"
                 /\ task[r] = initial[r] /\ want[r].maxAge # NoLimit
                 => tasks[task[r]].age <= want[r].maxAge + BackendLag]_vars
  <2> SUFFICES ASSUME NEW q \in Requests, result[q] # "ok", result'[q] = "ok",
                      want[q].kind # "inspect", task[q] = initial[q],
                      want[q].maxAge # NoLimit
               PROVE  tasks[task[q]].age <= want[q].maxAge + BackendLag
    OBVIOUS
  <2>1. /\ TypeOK /\ AskedWell(q) /\ WorksWell(q) /\ YoungEnough(q)
    BY <1>1 DEF AgeInv, AnswerInv
  <2>2. ~Elsewhere
    BY <2>1, ElsewhereLeaves
  <2>3. Step(q)
    <3>1. Arrival(q) \/ Step(q) \/ Failure(q)
      BY <1>1, <2>1, <2>2, OthersKeepResult DEF Next, Elsewhere
    <3>2. ~Failure(q)
      BY <2>1 DEF Failure, CallFails, LockReplyLost, SubmitReplyLost,
                  StoreReplyLost, Crash, Finish, TypeOK
    <3>3. ~Arrival(q)
      BY <2>1 DEF Arrival, Render, Prepare, Inspect, Arrive
    <3> QED BY <3>1, <3>2, <3>3
  <2>4. Validate(q) \/ Poll(q) \/ Output(q)
    BY <2>1, <2>3
    DEF AskedWell, Step, ReadRevision, Lookup, Await, Forget, Loop, TryAcquireLock,
        Recheck, Peek, Submit, SubmitRefused, Remember, ReleaseLock,
        InspectLookup, InspectFetch, InspectForget, Finish, TypeOK
  <2>5. AtHand(q) /\ mode[q] = "arriving"
    BY <2>1, <2>4 DEF Validate, Poll, Output, AtHand, WorksWell
  <2>6. task[q] \in TaskIds
    BY <2>1, <2>5, AtHandIsRun DEF WorksWell
  <2>7. /\ tasks[task[q]].age \in Nat /\ lag[q] \in Nat
        /\ want[q].maxAge \in Int /\ BackendLag \in Nat
    <3>1. tasks[task[q]] \in [status: Statuses, age: 0..AgeCap,
                              rev: Revisions, variant: Variants]
      BY <2>1, <2>6 DEF TypeOK
    <3>2. lag[q] \in Nat
      BY <2>1, TimesAssumption DEF TypeOK
    <3>3. want[q].maxAge \in MaxAges \union {0}
      BY <2>1 DEF TypeOK
    <3>4. NoLimit \in Int
      BY DEF NoLimit
    <3>5. MaxAges \union {0} \subseteq Int
      BY <3>4, BoundsAssumption
    <3>6. tasks[task[q]].age \in Nat
      BY <3>1, BoundsAssumption
    <3> QED BY <3>2, <3>3, <3>5, <3>6, TimesAssumption
  <2>8. CASE Validate(q) \/ Poll(q)
    <3>1. Usable(q, task[q])
      <4>1. ~UNCHANGED result
        OBVIOUS
      <4>2. ~Finish(q, "error")
        BY <2>1 DEF Finish, TypeOK
      <4>3. CASE Validate(q)
        BY <4>1, <4>3 DEF Validate, Judge
      <4>4. CASE Poll(q)
        BY <2>5, <4>1, <4>2, <4>4 DEF Poll, Judge
      <4> QED BY <2>8, <4>3, <4>4
    <3>2. tasks[task[q]].age <= want[q].maxAge
      BY <2>1, <2>5, <2>6, <3>1, JudgedYoung
    <3> QED BY <2>7, <3>2
  <2>9. CASE Output(q)
    <3>1. pc[q] = "output" /\ tasks[task[q]].status = "ready"
      BY <2>1, <2>9 DEF Output, Finish, GoTo, TypeOK
    <3>2. tasks[task[q]].age <= want[q].maxAge + lag[q] /\ lag[q] <= BackendLag
      BY <2>1, <2>5, <3>1 DEF YoungEnough
    <3> QED BY <2>7, <3>2
  <2> QED BY <2>4, <2>8, <2>9
<1> QED BY <1>1, OutputsAreYoung, PTL DEF Spec, ServedWithinAge

-----------------------------------------------------------------------------
(* Newer runs *)

\* What is found remembered later than on arrival is newer, and what is about
\* to be remembered is newer than all that was found.
Newer(r) ==
    /\ remembered[Key(r)] # NoTask => remembered[Key(r)] >= initial[r]
    /\ (AtHand(r) \/ Served(r)) /\ mode[r] # "arriving" => task[r] > initial[r]
    /\ pc[r] = "remember" =>
          /\ task[r] > remembered[Key(r)]
          /\ \A s \in Requests : Key(s) = Key(r) => task[r] > initial[s]

NewerInv == HolderInv /\ AnswerInv /\ \A r \in Requests : Newer(r)

\* What a request compares are numbers.
LEMMA RunsAreNumbers ==
    ASSUME TypeOK, NEW r \in Requests
    PROVE  /\ task[r] \in Nat /\ initial[r] \in Nat
           /\ remembered[Key(r)] \in Nat /\ NoTask = 0
<1>1. TaskIds \union {NoTask} \subseteq Nat
  BY DEF TaskIds, NoTask
<1>2. /\ task[r] \in TaskIds \union {NoTask}
      /\ initial[r] \in TaskIds \union {NoTask}
      /\ remembered[Key(r)] \in TaskIds \union {NoTask}
  BY KeyType DEF TypeOK
<1> QED BY <1>1, <1>2 DEF NoTask

\* After its lookup a request asks for the same.
LEMMA AskedStays ==
    ASSUME NEW r \in Requests, Arrival(r) \/ Step(r) \/ Failure(r),
           ~(Lookup(r) \/ Arrival(r) \/ ReadRevision(r))
    PROVE  initial' = initial /\ Key(r)' = Key(r)
<1>1. CASE Step(r)
  <2>1. UNCHANGED <<want, rev, initial>>
    BY <1>1 DEF Step, Validate, Await, Poll, Forget, Output, Loop,
                TryAcquireLock, Recheck, Peek, Submit, SubmitRefused,
                Remember, ReleaseLock, InspectLookup, InspectFetch,
                InspectForget, asked
  <2> QED BY <2>1 DEF Key
<1>2. CASE Failure(r)
  <2>1. UNCHANGED <<want, rev, initial>>
    BY <1>2 DEF Failure, CallFails, LockReplyLost, SubmitReplyLost,
                StoreReplyLost, Crash, asked
  <2> QED BY <2>1 DEF Key
<1> QED BY <1>1, <1>2

\* The others' runs after a step of r.
LEMMA OthersAreNewer ==
    ASSUME NewerInv, TypeOK', NEW r \in Requests,
           Arrival(r) \/ Step(r) \/ Failure(r), NEW q \in Requests, q # r
    PROVE  Newer(q)'
<1>1. /\ TypeOK /\ ExclusiveGeneration
      /\ \A s \in Requests : Newer(s) /\ AskedWell(s) /\ WorksWell(s)
  BY ExclusiveFromHolder DEF NewerInv, AnswerInv, HolderInv
<1>2. /\ Untouched(q) /\ result'[q] = result[q]
      /\ initial'[q] = initial[q] /\ task'[q] = task[q]
  BY <1>1, OthersUntouched, OthersKeepAsked, OthersKeepResult
<1>3. /\ AtHand(q)' = AtHand(q) /\ Served(q)' = Served(q) /\ Key(q)' = Key(q)
      /\ Key(q) \in Keys
  BY <1>1, <1>2, KeyType DEF Untouched, AtHand, Served, Key
<1>4. \/ remembered'[Key(q)] \in {remembered[Key(q)], NoTask}
      \/ pc[r] = "remember" /\ Key(q) = Key(r) /\ remembered'[Key(q)] = task[r]
  BY <1>1, <1>3, RememberedWrites
<1>5. /\ task[q] \in Nat /\ task[r] \in Nat /\ initial[q] \in Nat
      /\ initial[r] \in Nat /\ remembered[Key(q)] \in Nat /\ NoTask = 0
  BY <1>1, RunsAreNumbers
<1>6. remembered'[Key(q)] # NoTask => remembered'[Key(q)] >= initial[q]
  BY <1>1, <1>4, <1>5 DEF Newer
<1>7. (AtHand(q) \/ Served(q)) /\ mode[q] # "arriving" => task[q] > initial[q]
  BY <1>1 DEF Newer
<1>8. ASSUME pc[q] = "remember"
      PROVE  /\ task[q] > remembered'[Key(q)]
             /\ \A s \in Requests : Key(s)' = Key(q) => task[q] > initial'[s]
  <2>1. InLock(q)
    BY <1>8 DEF InLock
  <2>2. ~(pc[r] = "remember" /\ Key(q) = Key(r))
    BY <1>1, <2>1 DEF InLock, ExclusiveGeneration
  <2>3. task[q] > remembered[Key(q)] /\ task[q] > 0
    <3>1. task[q] > remembered[Key(q)]
      BY <1>1, <1>8 DEF Newer
    <3> QED BY <1>5, <3>1
  <2>4. ASSUME NEW s \in Requests, Key(s)' = Key(q), s # r
        PROVE  task[q] > initial'[s]
    <3>1. Untouched(s) /\ initial'[s] = initial[s]
      BY <1>1, <2>4, OthersUntouched, OthersKeepAsked
    <3>2. Key(s)' = Key(s)
      BY <3>1 DEF Untouched, Key
    <3> QED BY <1>1, <1>8, <2>4, <3>1, <3>2 DEF Newer
  <2>5. ASSUME Key(r)' = Key(q) PROVE task[q] > initial'[r]
    <3>1. CASE Lookup(r)
      <4>1. initial'[r] = remembered[Key(r)] /\ Key(r)' = Key(r)
        BY <1>1, <3>1 DEF Lookup, TypeOK, Key
      <4> QED BY <2>3, <2>5, <4>1
    <3>2. CASE Arrival(r) \/ ReadRevision(r)
      <4>1. initial'[r] = initial[r] /\ pc[r] \in {"idle", "revision"}
        BY <3>2 DEF Arrival, Render, Prepare, Inspect, Arrive, ReadRevision
      <4> QED BY <1>1, <1>5, <2>3, <4>1 DEF AskedWell
    <3>3. CASE ~(Lookup(r) \/ Arrival(r) \/ ReadRevision(r))
      <4>1. initial'[r] = initial[r] /\ Key(r)' = Key(r)
        BY <3>3, AskedStays
      <4> QED BY <1>1, <1>8, <2>5, <4>1 DEF Newer
    <3> QED BY <3>1, <3>2, <3>3
  <2>6. task[q] > remembered'[Key(q)]
    BY <1>4, <1>5, <2>2, <2>3
  <2>7. \A s \in Requests : Key(s)' = Key(q) => task[q] > initial'[s]
    BY <2>4, <2>5
  <2> QED BY <2>6, <2>7
<1> QED BY <1>2, <1>3, <1>6, <1>7, <1>8 DEF Newer, Untouched

\* A request comes by a run in three ways only.
LEMMA RunsComeThus ==
    ASSUME TypeOK, NEW r \in Requests, Arrival(r) \/ Step(r) \/ Failure(r),
           AskedWell(r), WorksWell(r)
    PROVE  \/ Lookup(r)
           \/ /\ Recheck(r) \/ Peek(r)
              /\ Joinable(r, remembered[Key(r)])
              /\ task'[r] = remembered[Key(r)]
           \/ Submit(r)
           \/ AtHand(r)' \/ Served(r)' =>
                 /\ AtHand(r) \/ Served(r)
                 /\ task'[r] = task[r] /\ mode'[r] = mode[r]
<1> USE DEF TypeOK, GoTo, Finish, AtHand, Served, backend, store, asked
<1>1. CASE Arrival(r)
  BY <1>1 DEF Arrival, Render, Prepare, Inspect, Arrive, WorksWell
<1>2. CASE ReadRevision(r) \/ Loop(r) \/ Forget(r) \/ TryAcquireLock(r)
           \/ SubmitRefused(r)
  BY <1>2 DEF ReadRevision, Loop, Forget, AfterAttempt, TryAcquireLock,
              SubmitRefused, WorksWell
<1>3. CASE Validate(r) \/ Await(r) \/ Poll(r) \/ Output(r) \/ Remember(r)
           \/ ReleaseLock(r)
  BY <1>3 DEF Validate, Await, Poll, Output, Remember, ReleaseLock
<1>4. CASE InspectLookup(r) \/ InspectFetch(r) \/ InspectForget(r)
  BY <1>4 DEF InspectLookup, InspectFetch, InspectForget, AskedWell
<1>5. CASE Recheck(r) \/ Peek(r)
  <2>1. CASE Joinable(r, remembered[Key(r)])
    BY <1>5, <2>1 DEF Recheck, Peek, Join
  <2>2. CASE ~Joinable(r, remembered[Key(r)])
    BY <1>5, <2>2 DEF Recheck, Peek, Join, WorksWell
  <2> QED BY <2>1, <2>2
<1>6. CASE Failure(r)
  BY <1>6 DEF Failure, CallFails, LockReplyLost, SubmitReplyLost,
              StoreReplyLost, Crash
<1> QED BY <1>1, <1>2, <1>3, <1>4, <1>5, <1>6 DEF Step

\* Only a submission leads to setTaskId.
LEMMA OnlySubmittersRemember ==
    ASSUME TypeOK, NEW r \in Requests, Arrival(r) \/ Step(r) \/ Failure(r),
           ~Submit(r)
    PROVE  pc'[r] # "remember"
<1> USE DEF TypeOK, GoTo, Finish
<1>1. CASE Arrival(r)
  BY <1>1 DEF Arrival, Render, Prepare, Inspect
<1>2. CASE ReadRevision(r) \/ Lookup(r) \/ Loop(r) \/ Forget(r) \/ Await(r)
           \/ TryAcquireLock(r) \/ SubmitRefused(r) \/ Remember(r)
           \/ ReleaseLock(r)
  BY <1>2 DEF ReadRevision, Lookup, Loop, Forget, AfterAttempt, Await,
              TryAcquireLock, SubmitRefused, Remember, ReleaseLock
<1>3. CASE Validate(r) \/ Poll(r) \/ Output(r) \/ Recheck(r) \/ Peek(r)
  BY <1>3 DEF Validate, Poll, Judge, Complete, Output, Recheck, Peek, Join
<1>4. CASE InspectLookup(r) \/ InspectFetch(r) \/ InspectForget(r)
  BY <1>4 DEF InspectLookup, InspectFetch, InspectForget
<1>5. CASE Failure(r)
  BY <1>5 DEF Failure, CallFails, LockReplyLost, SubmitReplyLost,
              StoreReplyLost, Crash
<1> QED BY <1>1, <1>2, <1>3, <1>4, <1>5 DEF Step

\* What is remembered, or was found on arrival, is older than the next run.
LEMMA NextIsNewest ==
    ASSUME AnswerInv, NEW r \in Requests
    PROVE  /\ remembered[Key(r)] < NextTask
           /\ \A s \in Requests : initial[s] < NextTask
<1> TypeOK /\ Numbered /\ Filed /\ \A s \in Requests : AskedWell(s)
  BY DEF AnswerInv
<1>1. NextTask > 0 /\ NextTask \in Nat
  BY NextIsNew
<1>2. \A t \in TaskIds : Used(t) => t < NextTask
  BY NextIsNew
<1> HIDE DEF NextTask
<1>3. remembered[Key(r)] # NoTask => remembered[Key(r)] < NextTask
  BY <1>2, KeyType, AtHandIsRun DEF Filed, RunOf
<1>4. ASSUME NEW s \in Requests PROVE initial[s] < NextTask
  <2>1. initial[s] # NoTask => initial[s] < NextTask
    BY <1>2, AtHandIsRun DEF AskedWell
  <2> QED BY <1>1, <2>1 DEF NoTask
<1> QED BY <1>1, <1>3, <1>4 DEF NoTask

\* A step of r leaves r's runs in order.
LEMMA OwnIsNewer ==
    ASSUME NewerInv, TypeOK', AnswerInv', NEW r \in Requests,
           Arrival(r) \/ Step(r) \/ Failure(r)
    PROVE  Newer(r)'
<1>1. /\ TypeOK /\ Newer(r)
      /\ \A s \in Requests : AskedWell(s) /\ WorksWell(s)
  BY DEF NewerInv, AnswerInv
<1>2. /\ task[r] \in Nat /\ initial[r] \in Nat
      /\ remembered[Key(r)] \in Nat /\ NoTask = 0
  BY <1>1, RunsAreNumbers
<1>3. AskedWell(r)' /\ WorksWell(r)'
  BY DEF AnswerInv
<1>4. CASE Arrival(r) \/ ReadRevision(r)
  <2>1. pc'[r] \in {"revision", "inspect", "lookup"} /\ initial'[r] = NoTask
        /\ remembered'[Key(r)'] \in Nat
    <3>1. pc'[r] \in {"revision", "inspect", "lookup"}
      BY <1>1, <1>4
      DEF Arrival, Render, Prepare, Inspect, Arrive, ReadRevision, GoTo, TypeOK
    <3>2. initial'[r] = initial[r] /\ initial[r] = NoTask
      BY <1>1, <1>4 DEF Arrival, Render, Prepare, Inspect, Arrive,
                        ReadRevision, asked, AskedWell
    <3>3. remembered'[Key(r)'] \in Nat
      <4>1. Key(r)' \in Keys
        BY DEF TypeOK, Key, Keys
      <4>2. TaskIds \union {NoTask} \subseteq Nat
        BY DEF TaskIds, NoTask
      <4> QED BY <4>1, <4>2 DEF TypeOK
    <3> QED BY <3>1, <3>2, <3>3
  <2>2. ~AtHand(r)' /\ ~Served(r)'
    BY <1>3, <2>1 DEF AtHand, Served, WorksWell
  <2> QED BY <1>2, <2>1, <2>2 DEF Newer
<1>5. CASE Lookup(r)
  <2>1. /\ pc'[r] \in {"validate", "loop"} /\ mode'[r] = "arriving"
        /\ initial'[r] = remembered[Key(r)] /\ Key(r)' = Key(r)
        /\ remembered' = remembered
    BY <1>1, <1>5 DEF Lookup, GoTo, TypeOK, Key, store
  <2> QED BY <1>2, <2>1 DEF Newer
<1>6. CASE ~(Arrival(r) \/ ReadRevision(r) \/ Lookup(r))
  <2>1. initial' = initial /\ Key(r)' = Key(r) /\ Key(r) \in Keys
    BY <1>1, <1>6, AskedStays, KeyType
  <2>2. \/ remembered'[Key(r)] \in {remembered[Key(r)], NoTask}
        \/ pc[r] = "remember" /\ remembered'[Key(r)] = task[r]
    BY <1>1, <2>1, RememberedWrites
  <2>3. remembered'[Key(r)] # NoTask => remembered'[Key(r)] >= initial[r]
    BY <1>1, <1>2, <2>2 DEF Newer
  <2>4. CASE Submit(r)
    <3>1. /\ task'[r] = NextTask /\ remembered' = remembered
          /\ pc'[r] = "remember"
      BY <1>1, <2>4 DEF Submit, GoTo, TypeOK, store
    <3>2. /\ remembered[Key(r)] < NextTask
          /\ \A s \in Requests : initial[s] < NextTask
          /\ NextTask \in Nat
      BY NextIsNewest, NextIsNew DEF NewerInv, AnswerInv
    <3> HIDE DEF NextTask
    <3>3. \A s \in Requests : initial[s] \in Nat
      BY <1>1, RunsAreNumbers
    <3>4. /\ task'[r] > remembered[Key(r)]
          /\ \A s \in Requests : task'[r] > initial[s]
      BY <1>2, <3>1, <3>2, <3>3
    <3> QED BY <2>1, <2>3, <3>1, <3>4 DEF Newer
  <2>5. CASE ~Submit(r)
    <3>1. AtHand(r)' \/ Served(r)' =>
             \/ /\ Joinable(r, remembered[Key(r)])
                /\ task'[r] = remembered[Key(r)]
             \/ /\ AtHand(r) \/ Served(r)
                /\ task'[r] = task[r] /\ mode'[r] = mode[r]
      BY <1>1, <1>6, <2>5, RunsComeThus
    <3>2. (AtHand(r) \/ Served(r))' /\ mode'[r] # "arriving"
              => task'[r] > initial[r]
      BY <1>1, <1>2, <3>1 DEF Newer, Joinable
    <3>3. pc'[r] # "remember"
      BY <1>1, <1>6, <2>5, OnlySubmittersRemember
    <3> QED BY <2>1, <2>3, <3>2, <3>3 DEF Newer
  <2> QED BY <2>4, <2>5
<1> QED BY <1>4, <1>5, <1>6

\* Nothing that happens elsewhere disturbs it.
LEMMA ElsewhereIsNewer ==
    ASSUME NewerInv, Elsewhere, NEW q \in Requests
    PROVE  Newer(q)'
<1>1. TypeOK /\ Newer(q)
  BY DEF NewerInv, AnswerInv
<1>2. /\ UNCHANGED <<pc, mode, want, rev, initial, task, result>>
      /\ \A k \in Keys : remembered'[k] \in {remembered[k], NoTask}
  BY <1>1, ElsewhereLeaves
<1>3. /\ \A s \in Requests : Key(s)' = Key(s)
      /\ Key(q) \in Keys /\ AtHand(q)' = AtHand(q) /\ Served(q)' = Served(q)
  BY <1>1, <1>2, KeyType DEF Key, AtHand, Served
<1>4. /\ task[q] \in Nat /\ initial[q] \in Nat
      /\ remembered[Key(q)] \in Nat /\ NoTask = 0
  BY <1>1, RunsAreNumbers
<1>5. remembered'[Key(q)] \in {remembered[Key(q)], NoTask}
  BY <1>2, <1>3
<1>6. remembered'[Key(q)] # NoTask => remembered'[Key(q)] >= initial[q]
  BY <1>1, <1>5 DEF Newer
<1>7. pc[q] = "remember" => task[q] > remembered'[Key(q)]
  BY <1>1, <1>4, <1>5 DEF Newer
<1> QED BY <1>1, <1>2, <1>3, <1>6, <1>7 DEF Newer

\* It holds of every reachable state, if the lock's time covers the tail.
LEMMA RunsAreNewer ==
    ASSUME TtlCoversTail
    PROVE  Spec => []NewerInv
<1>1. ASSUME Init, HolderInv, AnswerInv PROVE NewerInv
  <2>1. ASSUME NEW r \in Requests PROVE Newer(r)
    <3>1. /\ pc[r] = "idle" /\ result[r] = "none" /\ remembered[Key(r)] = NoTask
      BY <1>1, KeyType DEF Init, AnswerInv
    <3> QED BY <3>1 DEF Newer, AtHand, Served
  <2> QED BY <1>1, <2>1 DEF NewerInv
<1>2. ASSUME NewerInv, TypeOK', AnswerInv', [Next]_vars PROVE NewerInv'
  <2>1. HolderInv'
    BY <1>2, HolderNext DEF NewerInv, HolderInv
  <2>2. ASSUME NEW q \in Requests PROVE Newer(q)'
    BY <1>2, OthersAreNewer, OwnIsNewer, ElsewhereIsNewer DEF Next, Elsewhere
  <2> QED BY <1>2, <2>1, <2>2 DEF NewerInv
<1>3. Init /\ TypeOK => HolderInv
  BY DEF Init, HolderInv, Holder, InLock
<1> QED BY <1>1, <1>2, <1>3, TypeCorrect, AnswersAreRuns, PTL DEF Spec

\* If the lock's time covers the calls after the deadline, a forced refresh
\* is answered with a run newer than the one remembered when it arrived.
THEOREM ForcedIsNewer ==
    ASSUME TtlCoversTail
    PROVE  Spec => []ForcedRunIsNewer
<1>1. NewerInv => ForcedRunIsNewer
  <2> SUFFICES ASSUME NewerInv, NEW r \in Requests, Served(r),
                      want[r].maxAge = 0
               PROVE  task[r] > initial[r]
    BY DEF ForcedRunIsNewer, Served
  <2>1. WorksWell(r) /\ Newer(r)
    BY DEF NewerInv, AnswerInv
  <2> QED BY <2>1 DEF WorksWell, Newer
<1> QED BY <1>1, RunsAreNewer, PTL

\* Under the same condition what is remembered of a report is never replaced
\* by an older run.
THEOREM NothingOlderIsRemembered ==
    ASSUME TtlCoversTail
    PROVE  Spec => RememberedNeverRegresses
<1>1. ASSUME NewerInv, [Next]_vars
      PROVE  [\A k \in Keys :
                 remembered[k] # NoTask /\ remembered'[k] # NoTask
                     => remembered'[k] >= remembered[k]]_remembered
  <2> SUFFICES ASSUME NEW k \in Keys, remembered[k] # NoTask,
                      remembered'[k] # NoTask
               PROVE  remembered'[k] >= remembered[k]
    OBVIOUS
  <2>1. TypeOK
    BY <1>1 DEF NewerInv, AnswerInv
  <2>2. remembered[k] \in Nat
    BY <2>1 DEF TypeOK, TaskIds, NoTask
  <2>3. CASE Elsewhere
    BY <2>1, <2>2, <2>3, ElsewhereLeaves
  <2>4. ASSUME NEW r \in Requests, Arrival(r) \/ Step(r) \/ Failure(r)
        PROVE  remembered'[k] >= remembered[k]
    <3>1. \/ remembered'[k] \in {remembered[k], NoTask}
          \/ pc[r] = "remember" /\ k = Key(r) /\ remembered'[k] = task[r]
      BY <2>1, <2>4, RememberedWrites
    <3>2. pc[r] = "remember" => task[r] > remembered[Key(r)]
      BY <1>1 DEF NewerInv, Newer
    <3>3. task[r] \in Nat
      BY <2>1, RunsAreNumbers
    <3> QED BY <2>2, <3>1, <3>2, <3>3
  <2> QED BY <1>1, <2>3, <2>4 DEF Next, Elsewhere
<1> QED BY <1>1, RunsAreNewer, PTL DEF Spec, RememberedNeverRegresses

-----------------------------------------------------------------------------
(* The register.  Every step of a request is, as far as its standing goes, *)
(* a step of ReportRegister or none; the invariants above are what the     *)
(* guards of that step ask for.                                            *)

\* What belongs to which standing.
Placed(r) ==
    /\ want[r].kind = "inspect"
          => pc[r] \in {"inspect", "inspectFetch", "inspectForget", "done"}
    /\ mode[r] = "generating" /\ result[r] = "none"
          => pc[r] \in {"remember", "await", "poll", "output"}
    /\ pc[r] \in {"release", "done"} => result[r] # "none"

RegisterInv ==
    /\ JoinInv /\ NewerInv
    /\ \A r \in Requests : Placed(r)

\* A step of r leaves it placed.
LEMMA OwnIsPlaced ==
    ASSUME TypeOK, NEW r \in Requests, WorksWell(r), Placed(r),
           Arrival(r) \/ Step(r) \/ Failure(r)
    PROVE  Placed(r)'
<1> USE DEF TypeOK, GoTo, Finish, backend, store, asked
<1>1. CASE Arrival(r)
  BY <1>1 DEF Arrival, Render, Prepare, Inspect, Arrive, Placed, WorksWell
<1>2. CASE ReadRevision(r) \/ Lookup(r)
  BY <1>2 DEF ReadRevision, Lookup, Placed
<1>3. CASE Validate(r)
  BY <1>3 DEF Validate, Judge, Placed
<1>4. CASE Await(r) \/ Loop(r) \/ Output(r)
  BY <1>4 DEF Await, Loop, Output, Placed
<1>5. CASE Poll(r)
  BY <1>5 DEF Poll, Judge, Complete, Placed
<1>6. CASE Forget(r)
  BY <1>6 DEF Forget, AfterAttempt, Placed, WorksWell
<1>7. CASE TryAcquireLock(r)
  BY <1>7 DEF TryAcquireLock, Placed
<1>8. CASE Recheck(r) \/ Peek(r)
  BY <1>8 DEF Recheck, Peek, Join, Placed
<1>9. CASE Submit(r) \/ SubmitRefused(r) \/ Remember(r) \/ ReleaseLock(r)
  BY <1>9 DEF Submit, SubmitRefused, Remember, ReleaseLock, Placed, WorksWell
<1>10. CASE InspectLookup(r) \/ InspectFetch(r) \/ InspectForget(r)
  BY <1>10 DEF InspectLookup, InspectFetch, InspectForget, Placed, InLock
<1>11. CASE Failure(r)
  BY <1>11 DEF Failure, CallFails, LockReplyLost, SubmitReplyLost,
               StoreReplyLost, Crash, Placed, InLock
<1> QED BY <1>1, <1>2, <1>3, <1>4, <1>5, <1>6, <1>7, <1>8, <1>9, <1>10, <1>11
        DEF Step

\* What a request that does not move is to the register.
Still(q) ==
    /\ Standing(q)' = Standing(q)
    /\ InLock(q)' = InLock(q)
    /\ Key(q)' = Key(q)
    /\ Placed(q)' = Placed(q)

\* A request none of whose variables changes stands where it stood.
LEMMA RestingIsStill ==
    ASSUME NEW q \in Requests,
           pc'[q] = pc[q], mode'[q] = mode[q], want'[q] = want[q],
           rev'[q] = rev[q], initial'[q] = initial[q], task'[q] = task[q],
           result'[q] = result[q]
    PROVE  Still(q)
<1>1. /\ Key(q)' = Key(q) /\ AtHand(q)' = AtHand(q) /\ Phase(q)' = Phase(q)
      /\ InLock(q)' = InLock(q) /\ Placed(q)' = Placed(q)
  BY DEF Key, AtHand, Phase, Outside, InLock, Placed
<1>2. Standing(q)' = Standing(q)
  BY <1>1 DEF Standing
<1> QED BY <1>1, <1>2 DEF Still

\* A step of one request leaves all others where they stand.
LEMMA OthersAreStill ==
    ASSUME TypeOK, NEW r \in Requests, NEW q \in Requests, q # r,
           Arrival(r) \/ Step(r) \/ Failure(r)
    PROVE  Still(q)
BY OthersUntouched, OthersKeepAsked, OthersKeepResult, RestingIsStill
DEF Untouched

\* The invariant holds of every reachable state.
LEMMA RegisterIsKept ==
    ASSUME TtlCoversTail
    PROVE  Spec => []RegisterInv
<1>1. Init => JoinInv /\ \A r \in Requests : Placed(r)
  <2>1. ASSUME Init PROVE TypeOK /\ \A r \in Requests : pc[r] = "idle"
    BY <2>1, TimesAssumption, BoundsAssumption
    DEF Init, TypeOK, Revisions, Keys, NoTask, Kinds, Modes, Statuses, Results,
        Pcs
  <2> QED BY <2>1 DEF Init, JoinInv, HolderInv, Holder, InLock, Joined, Trying,
                      Placed
<1>2. RegisterInv /\ TypeOK' /\ NewerInv' /\ [Next]_vars => RegisterInv'
  <2> SUFFICES ASSUME RegisterInv, TypeOK', NewerInv', [Next]_vars
               PROVE  RegisterInv'
    OBVIOUS
  <2>1. ASSUME NEW q \in Requests PROVE Placed(q)' /\ Joined(q)'
    <3>1. ASSUME NEW r \in Requests, Arrival(r) \/ Step(r) \/ Failure(r)
          PROVE  Placed(q)' /\ Joined(q)'
      BY <3>1, OthersAreStill, OwnIsPlaced, JoinedOthers, JoinedStep
      DEF RegisterInv, JoinInv, NewerInv, AnswerInv, Still
    <3>2. CASE Elsewhere
      <4>1. Still(q)
        BY <3>2, ElsewhereLeaves, RestingIsStill
        DEF RegisterInv, NewerInv, AnswerInv
      <4>2. Joined(q)'
        <5>1. /\ UNCHANGED <<pc, mode, want, rev, initial, task>>
              /\ \A k \in Keys : remembered'[k] \in {remembered[k], NoTask}
          BY <3>2, ElsewhereLeaves DEF RegisterInv, NewerInv, AnswerInv
        <5> QED BY <5>1, KeyType
                DEF Joined, Trying, Key, RegisterInv, JoinInv, HolderInv
      <4> QED BY <4>1, <4>2 DEF Still, RegisterInv
    <3> QED BY <3>1, <3>2 DEF Next, Elsewhere
  <2> QED BY <2>1 DEF RegisterInv, JoinInv, NewerInv
<1> QED BY <1>1, <1>2, TypeCorrect, RunsAreNewer, PTL DEF Spec, RegisterInv

\* The register's record of a request that is after a report.
Held(r, phase, run) ==
    [phase |-> phase, report |-> Key(r), found |-> initial[r], run |-> run]

\* How a request stands, by the call it waits for.
Stands(r) ==
    /\ Outside(r) => Standing(r) = [phase |-> "away"]
    /\ pc[r] \in {"validate", "await", "poll", "forget", "output"}
          => Standing(r) = Held(r, IF mode[r] = "generating" THEN "waiting"
                                   ELSE "asking", task[r])
    /\ pc[r] \in {"loop", "lock", "recheck", "peek", "submit"}
          => Standing(r) = Held(r, "asking", NoTask)
    /\ pc[r] = "remember" => Standing(r) = Held(r, "made", task[r])
    /\ ~Outside(r) /\ pc[r] \in {"release", "done"}
          => Standing(r) = IF result[r] = "ok" THEN Held(r, "served", task[r])
                           ELSE [phase |-> "failed"]

\* The standing of a request, place by place in the handler.
LEMMA AllStand ==
    \A r \in Requests : Placed(r) /\ WorksWell(r) => Stands(r)
<1> SUFFICES ASSUME NEW r \in Requests, Placed(r), WorksWell(r)
             PROVE  Stands(r)
  OBVIOUS
<1>1. Outside(r) => Standing(r) = [phase |-> "away"]
  BY DEF Outside, Standing, Phase
<1>2. pc[r] \notin {"release", "done"} => result[r] = "none"
  BY DEF WorksWell
<1>3. ASSUME pc[r] \in {"validate", "await", "poll", "forget", "output"}
      PROVE  Standing(r) = Held(r, IF mode[r] = "generating" THEN "waiting"
                                   ELSE "asking", task[r])
  <2>1. Phase(r) = IF mode[r] = "generating" THEN "waiting" ELSE "asking"
    BY <1>2, <1>3 DEF Phase, Outside, Placed
  <2> QED BY <1>3, <2>1 DEF Standing, Held, AtHand
<1>4. ASSUME pc[r] \in {"loop", "lock", "recheck", "peek", "submit"}
      PROVE  Standing(r) = Held(r, "asking", NoTask)
  <2>1. Phase(r) = "asking"
    BY <1>2, <1>4 DEF Phase, Outside, Placed
  <2> QED BY <1>4, <2>1 DEF Standing, Held, AtHand
<1>5. ASSUME pc[r] = "remember"
      PROVE  Standing(r) = Held(r, "made", task[r])
  <2>1. Phase(r) = "made"
    <3>1. want[r].kind # "inspect" /\ result[r] = "none"
      BY <1>2, <1>5 DEF Placed
    <3> QED BY <1>5, <3>1 DEF Phase, Outside
  <2> QED BY <1>5, <2>1 DEF Standing, Held, AtHand
<1>6. ASSUME ~Outside(r), pc[r] \in {"release", "done"}
      PROVE  Standing(r) = IF result[r] = "ok" THEN Held(r, "served", task[r])
                           ELSE [phase |-> "failed"]
  <2>1. Phase(r) = IF result[r] = "ok" THEN "served" ELSE "failed"
    <3>1. /\ want[r].kind # "inspect" /\ result[r] # "none"
          /\ pc[r] \notin {"idle", "revision", "lookup"}
      BY <1>6 DEF Placed, Outside
    <3>2. CASE result[r] = "ok"
      BY <3>1, <3>2 DEF Phase, Outside
    <3>3. CASE result[r] # "ok"
      BY <3>1, <3>3 DEF Phase, Outside
    <3> QED BY <3>2, <3>3
  <2> QED BY <2>1 DEF Standing, Held
<1> QED BY <1>1, <1>3, <1>4, <1>5, <1>6 DEF Stands

\* The same after a step.
LEMMA AllStandThen ==
    \A r \in Requests : Placed(r)' /\ WorksWell(r)' => Stands(r)'
<1>1. (\A r \in Requests : Placed(r) /\ WorksWell(r) => Stands(r))'
  BY AllStand, PTL
<1> QED BY <1>1

-----------------------------------------------------------------------------
(* What the register sees of a step of r *)

OnlyMoves(r) == \A q \in Requests : q # r => Still(q)

\* The register sees a step of one request as a change of that request.
LEMMA StandingsAfter ==
    ASSUME NEW r \in Requests, OnlyMoves(r)
    PROVE  Standings' = [Standings EXCEPT ![r] = Standing(r)']
<1>1. \A q \in Requests : q # r => Standing(q)' = Standing(q)
  BY DEF OnlyMoves, Still
<1> QED BY <1>1 DEF Standings

\* Who is in which lock.
LEMMA MakersAfter ==
    ASSUME NEW r \in Requests, OnlyMoves(r)
    PROVE  /\ InLock(r)' = InLock(r) /\ Key(r)' = Key(r) => Makers' = Makers
           /\ ~InLock(r) /\ InLock(r)' /\ Key(r)' = Key(r)
                 => Makers' = Makers \union {<<r, Key(r)>>}
           /\ ~InLock(r)' => Makers' = {m \in Makers : m[1] # r}
           /\ ~InLock(r) /\ ~InLock(r)' => Makers' = Makers
<1>1. \A q \in Requests : q # r => InLock(q)' = InLock(q) /\ Key(q)' = Key(q)
  BY DEF OnlyMoves, Still
<1>2. Makers' = {<<q, Key(q)'>> : q \in {p \in Requests : InLock(p)'}}
  BY DEF Makers
<1>3. ASSUME InLock(r)' = InLock(r), Key(r)' = Key(r) PROVE Makers' = Makers
  BY <1>1, <1>2, <1>3 DEF Makers
<1>4. ASSUME ~InLock(r), InLock(r)', Key(r)' = Key(r)
      PROVE  Makers' = Makers \union {<<r, Key(r)>>}
  BY <1>1, <1>2, <1>4 DEF Makers
<1>5. ASSUME ~InLock(r)' PROVE Makers' = {m \in Makers : m[1] # r}
  BY <1>1, <1>2, <1>5 DEF Makers
<1>6. ASSUME ~InLock(r), ~InLock(r)' PROVE Makers' = Makers
  BY <1>1, <1>2, <1>6 DEF Makers
<1> QED BY <1>3, <1>4, <1>5, <1>6

\* Whoever holds the lock has the right, and nobody else has it for that report.
LEMMA MakersAre ==
    ASSUME NEW r \in Requests
    PROVE  /\ InLock(r) => <<r, Key(r)>> \in Makers
           /\ (\A q \in Requests : InLock(q) => Key(q) # Key(r))
                 => \A q \in Requests : <<q, Key(r)>> \notin Makers
BY DEF Makers

\* How many runs there are.
LEMMA AcceptedAfter ==
    ASSUME TypeOK, Numbered, NEW r \in Requests
    PROVE  /\ UNCHANGED tasks => Accepted' = Accepted
           /\ CreateTask(r) => Accepted' = Accepted + 1
           /\ NextTask = Accepted + 1
<1>1. NextTask \in Nat
  BY NextIsNew
<1>2. NextTask = Accepted + 1
  BY <1>1 DEF Accepted
<1>3. ASSUME UNCHANGED tasks PROVE Accepted' = Accepted
  BY <1>3 DEF Accepted, NextTask
<1>4. ASSUME CreateTask(r) PROVE Accepted' = Accepted + 1
  <2>1. {t \in TaskIds : Used(t)'} = 1..NextTask
    <3>1. /\ NextTask \in Nat \ {0} /\ NextTask \in TaskIds
          /\ \A t \in TaskIds : Used(t) <=> t < NextTask
      BY <1>4, NextIsNew DEF CreateTask
    <3>2. tasks' = [tasks EXCEPT ![NextTask] =
                       [status |-> "active", age |-> 0, rev |-> template,
                        variant |-> want[r].variant]]
      BY <1>4 DEF CreateTask
    <3> HIDE DEF NextTask
    <3>3. \A t \in TaskIds : t # NextTask => tasks'[t] = tasks[t]
      BY <3>2 DEF TypeOK
    <3>4. tasks'[NextTask].status = "active"
      BY <3>1, <3>2 DEF TypeOK
    <3>5. \A t \in TaskIds : Used(t)' <=> t \in 1..NextTask
      BY <3>1, <3>3, <3>4 DEF Used, TaskIds
    <3>6. 1..NextTask \subseteq TaskIds
      BY <3>1, BoundsAssumption DEF TaskIds
    <3> QED BY <3>5, <3>6
  <2>2. Cardinality(1..NextTask) = NextTask
    <3> HIDE DEF NextTask
    <3> QED BY <1>1, FS_Interval
  <2>3. NextTask' = NextTask + 1
    <3>1. NextTask' = Cardinality({t \in TaskIds : Used(t)'}) + 1
      BY DEF NextTask, Used
    <3> QED BY <2>1, <2>2, <3>1
  <2> QED BY <1>1, <1>2, <2>3 DEF Accepted
<1> QED BY <1>2, <1>3, <1>4

\* A step the register does not see.
LEMMA Unseen ==
    ASSUME TypeOK, Numbered, NEW r \in Requests, OnlyMoves(r),
           Standing(r)' = Standing(r), UNCHANGED <<tasks, remembered>>,
           \/ ~InLock(r) /\ ~InLock(r)'
           \/ InLock(r)' = InLock(r) /\ Key(r)' = Key(r)
    PROVE  Register!Look
<1>1. Standings' = Standings
  BY DEF OnlyMoves, Still, Standings
<1>2. Makers' = Makers
  BY MakersAfter
<1>3. Accepted' = Accepted
  BY AcceptedAfter
<1> QED BY <1>1, <1>2, <1>3 DEF Register!Look, Register!registerVars

\* A request is served.
LEMMA Serves ==
    ASSUME TypeOK, Numbered, NEW r \in Requests, OnlyMoves(r),
           NEW phase \in {"asking", "waiting"},
           Standing(r) = Held(r, phase, task[r]), task[r] # NoTask,
           Standing(r)' = Held(r, "served", task[r]),
           UNCHANGED <<tasks, remembered>>,
           InLock(r)' = InLock(r), Key(r)' = Key(r)
    PROVE  Register!Serve(r)
<1>1. /\ Standings' = [Standings EXCEPT ![r] = Held(r, "served", task[r])]
      /\ Standings[r] = Held(r, phase, task[r])
  BY StandingsAfter DEF Standings
<1>2. Makers' = Makers /\ Accepted' = Accepted
  BY MakersAfter, AcceptedAfter
<1>3. Register!With(r, "served", task[r])
  BY <1>1 DEF Register!With, Held
<1> QED BY <1>1, <1>2, <1>3
        DEF Register!Serve, Register!In, Register!NoRun, NoTask, Held

\* A request fails, and something may have come of what it was about to do.
LEMMA Fails ==
    ASSUME TypeOK, Numbered, NEW r \in Requests, OnlyMoves(r),
           Standing(r).phase # "failed",
           Standing(r).phase = "served" =>
              InLock(r) /\ Standing(r).report = Key(r),
           Standing(r)' = [phase |-> "failed"],
           InLock(r)' => InLock(r) /\ Key(r)' = Key(r),
           \/ UNCHANGED <<tasks, remembered>>
           \/ Register!Made(r) \/ Register!Published(r) \/ Register!Dropped(r)
    PROVE  Register!GiveUp(r)
<1>1. /\ Standings' = [Standings EXCEPT ![r] = Register!Failed]
      /\ Standings[r] = Standing(r)
  BY StandingsAfter DEF Standings, Register!Failed
<1>2. Makers' \in {Makers, Register!Retired(r)}
  BY MakersAfter DEF Register!Retired
<1>3. UNCHANGED tasks => Accepted' = Accepted
  BY AcceptedAfter
<1>4. Standing(r).phase = "served" => <<r, Standing(r).report>> \in Makers
  BY MakersAre
<1> QED BY <1>1, <1>2, <1>3, <1>4
        DEF Register!GiveUp, Register!In, Register!May

\* What the steps of r below start from.
Stepping(r) ==
    /\ RegisterInv /\ OnlyMoves(r)
    /\ Stands(r) /\ Stands(r)' /\ Placed(r)'

\* Where an outcome leads.
LEMMA Finishing ==
    ASSUME TypeOK, NEW r \in Requests, NEW outcome, pc[r] # "release",
           Finish(r, outcome), UNCHANGED <<want, rev>>
    PROVE  /\ pc'[r] \in {"release", "done"} /\ result'[r] = outcome
           /\ InLock(r)' = InLock(r) /\ Key(r)' = Key(r)
<1>1. /\ pc'[r] = (IF InLock(r) THEN "release" ELSE "done")
      /\ result'[r] = outcome
  BY DEF Finish, GoTo, TypeOK
<1> QED BY <1>1 DEF InLock, Key

\* What the invariant says of one request.
LEMMA InvTypes ==
    ASSUME RegisterInv, NEW r \in Requests
    PROVE  /\ TypeOK /\ Numbered /\ AnswerInv /\ ExclusiveGeneration
           /\ Placed(r) /\ WorksWell(r) /\ AskedWell(r) /\ Newer(r) /\ Joined(r)
           /\ \A q \in Requests : Holder(q)
           /\ Key(r) \in Keys
           /\ task[r] \in Nat /\ initial[r] \in Nat /\ remembered[Key(r)] \in Nat
BY ExclusiveFromHolder, RunsAreNumbers, KeyType
DEF RegisterInv, JoinInv, NewerInv, AnswerInv, HolderInv

\* An answer, with the run at hand.
LEMMA FinishesWell ==
    ASSUME NEW r \in Requests, Stepping(r), pc[r] # "release",
           pc[r] \in {"validate", "poll", "output"},
           Finish(r, "ok"), UNCHANGED <<tasks, remembered, asked, task>>
    PROVE  Register!Serve(r)
<1> USE DEF Stepping
<1>1. TypeOK /\ Numbered /\ Placed(r) /\ WorksWell(r)
  BY InvTypes
<1>2. /\ pc'[r] \in {"release", "done"} /\ result'[r] = "ok"
      /\ InLock(r)' = InLock(r) /\ Key(r)' = Key(r)
  BY <1>1, Finishing DEF asked
<1>3. ~Outside(r)'
  BY <1>1, <1>2 DEF Placed, Outside, asked
<1>4. /\ Standing(r) = Held(r, IF mode[r] = "generating" THEN "waiting"
                               ELSE "asking", task[r])
      /\ task[r] # NoTask
  BY <1>1 DEF Stands, WorksWell, AtHand
<1>5. Standing(r)' = Held(r, "served", task[r])
  BY <1>2, <1>3 DEF Stands, Held, asked
<1>6. CASE mode[r] = "generating"
  BY <1>1, <1>2, <1>4, <1>5, <1>6, Serves
<1>7. CASE mode[r] # "generating"
  BY <1>1, <1>2, <1>4, <1>5, <1>7, Serves
<1> QED BY <1>6, <1>7

\* Another outcome, and what came of the call before it.
LEMMA FinishesBadly ==
    ASSUME NEW r \in Requests, Stepping(r), pc[r] \notin {"release", "done"},
           want[r].kind # "inspect", NEW outcome \in {"timeout", "error"},
           Finish(r, outcome), UNCHANGED asked,
           \/ UNCHANGED <<tasks, remembered>>
           \/ Register!Made(r) \/ Register!Published(r) \/ Register!Dropped(r)
    PROVE  Register!GiveUp(r)
<1> USE DEF Stepping
<1>1. TypeOK /\ Numbered /\ Placed(r) /\ WorksWell(r)
  BY InvTypes
<1>2. /\ pc'[r] \in {"release", "done"} /\ result'[r] = outcome
      /\ InLock(r)' = InLock(r) /\ Key(r)' = Key(r)
  BY <1>1, Finishing DEF asked
<1>3. ~Outside(r)'
  BY <1>2 DEF Outside, asked
<1>4. Standing(r)' = [phase |-> "failed"]
  BY <1>2, <1>3 DEF Stands
<1>5. Standing(r).phase \notin {"failed", "served"}
  <2>1. result[r] = "none"
    BY <1>1 DEF WorksWell
  <2>2. Phase(r) \notin {"failed", "served"}
    BY <2>1 DEF Phase
  <2> QED BY <2>2 DEF Standing
<1> QED BY <1>1, <1>2, <1>4, <1>5, Fails

\* A step of a request that waits for the same call as far as its standing
\* goes.
LEMMA StaysAsItStands ==
    ASSUME NEW r \in Requests, Stepping(r),
           \/ /\ {pc[r], pc'[r]} \subseteq
                    {"validate", "await", "poll", "forget", "output"}
              /\ mode'[r] = mode[r] /\ task'[r] = task[r]
           \/ {pc[r], pc'[r]} \subseteq
                    {"loop", "lock", "recheck", "peek", "submit"},
           UNCHANGED <<tasks, remembered, asked>>,
           InLock(r)' = InLock(r)
    PROVE  Register!Look
<1> USE DEF Stepping
<1>1. TypeOK /\ Numbered
  BY InvTypes
<1>2. Key(r)' = Key(r)
  BY DEF Key, asked
<1>3. Standing(r)' = Standing(r)
  BY <1>2 DEF Stands, Held, asked
<1> QED BY <1>1, <1>2, <1>3, Unseen

\* A step of a request that is no matter of the register.
LEMMA StaysOutside ==
    ASSUME NEW r \in Requests, Stepping(r), Outside(r), Outside(r)',
           UNCHANGED tasks,
           \/ UNCHANGED remembered
           \/ remembered' = [remembered EXCEPT ![Key(r)] = NoTask]
    PROVE  Register!Look \/ Register!Lose(Key(r))
<1> USE DEF Stepping
<1>1. TypeOK /\ Numbered /\ Placed(r)
  BY InvTypes
<1>2. Standing(r)' = Standing(r)
  BY DEF Stands
<1>3. ~InLock(r) /\ ~InLock(r)'
  BY <1>1 DEF Outside, Placed, InLock
<1>4. CASE UNCHANGED remembered
  BY <1>1, <1>2, <1>3, <1>4, Unseen
<1>5. CASE remembered' = [remembered EXCEPT ![Key(r)] = NoTask]
  <2>1. Makers' = Makers /\ Accepted' = Accepted
    BY <1>1, <1>3, MakersAfter, AcceptedAfter
  <2>2. Standings' = Standings
    BY <1>2 DEF OnlyMoves, Still, Standings
  <2> QED BY <1>5, <2>1, <2>2 DEF Register!Lose, Register!NoRun, NoTask
<1> QED BY <1>4, <1>5

\* What counts as a step of the register.
LEMMA RegisterMoves ==
    ASSUME NEW r \in Requests, NEW k \in Keys, NEW forced \in BOOLEAN,
           \/ Register!Look \/ Register!Ask(r, k, forced) \/ Register!Join(r)
           \/ Register!Drop(r) \/ Register!Enter(r) \/ Register!Make(r)
           \/ Register!Publish(r) \/ Register!Serve(r) \/ Register!GiveUp(r)
           \/ Register!Leave(r) \/ Register!Lose(k)
    PROVE  Register!Next
BY DEF Register!Next, Register!Ask

\* The lookup asks.
LEMMA LookupAsks ==
    ASSUME NEW r \in Requests, Stepping(r), Lookup(r)
    PROVE  Register!Ask(r, Key(r), ~TriedOnArrival(r, remembered[Key(r)]))
<1> DEFINE found == remembered[Key(r)]
<1> USE DEF Stepping
<1>1. TypeOK /\ Numbered /\ Placed(r)
  BY InvTypes
<1>2. /\ pc[r] = "lookup" /\ UNCHANGED <<tasks, remembered, want, rev, result>>
      /\ initial'[r] = found /\ task'[r] = found /\ mode'[r] = "arriving"
      /\ pc'[r] = IF TriedOnArrival(r, found) THEN "validate" ELSE "loop"
  BY <1>1 DEF Lookup, TypeOK, GoTo, backend, store
<1>3. Key(r)' = Key(r) /\ ~InLock(r) /\ ~InLock(r)'
  BY <1>2 DEF Key, InLock
<1>4. Standing(r)' = [phase |-> "asking", report |-> Key(r), found |-> found,
                      run |-> IF ~TriedOnArrival(r, found) THEN NoTask
                              ELSE found]
  <2> HIDE DEF found
  <2>1. CASE TriedOnArrival(r, found)
    BY <1>2, <1>3, <2>1 DEF Stands, Held
  <2>2. CASE ~TriedOnArrival(r, found)
    BY <1>2, <1>3, <2>2 DEF Stands, Held
  <2> QED BY <2>1, <2>2
<1>5. Standing(r) = [phase |-> "away"]
  BY <1>2 DEF Stands, Outside
<1>6. Standings' = [Standings EXCEPT ![r] = Standing(r)']
      /\ Standings[r] = Standing(r)
  BY StandingsAfter DEF Standings
<1>7. Makers' = Makers /\ Accepted' = Accepted
  BY <1>1, <1>2, <1>3, MakersAfter, AcceptedAfter
<1> QED BY <1>2, <1>4, <1>5, <1>6, <1>7
        DEF Register!Ask, Register!In, Register!NoRun, NoTask

\* A newer run that is remembered is joined, and nothing else is.
LEMMA SeeingJoins ==
    ASSUME NEW r \in Requests, Stepping(r), Recheck(r) \/ Peek(r)
    PROVE  Register!Look \/ Register!Join(r)
<1> DEFINE found == remembered[Key(r)]
<1> USE DEF Stepping
<1>1. /\ TypeOK /\ Numbered /\ Newer(r)
      /\ found \in Nat /\ initial[r] \in Nat
  BY InvTypes
<1>2. /\ pc[r] \in {"recheck", "peek"}
      /\ UNCHANGED <<tasks, remembered, want, rev, initial>>
  BY DEF Recheck, Peek, backend, store, asked
<1>3. Key(r)' = Key(r)
  BY <1>2 DEF Key
<1>4. CASE Joinable(r, found)
  <2>1. /\ pc'[r] = "validate" /\ task'[r] = found
        /\ mode'[r] = IF pc[r] = "recheck" THEN "holding" ELSE "waiting"
    BY <1>1, <1>4 DEF Recheck, Peek, Join, GoTo, TypeOK
  <2>2. InLock(r)' = InLock(r)
    BY <1>2, <2>1 DEF InLock
  <2>3. found > initial[r]
    BY <1>1, <1>4 DEF Newer, Joinable
  <2>4. /\ Standing(r) = Held(r, "asking", NoTask)
        /\ Standing(r)' = Held(r, "asking", found)
    <3> HIDE DEF found
    <3> QED BY <1>2, <1>3, <2>1 DEF Stands, Held
  <2>5. /\ Standings' = [Standings EXCEPT ![r] = Held(r, "asking", found)]
        /\ Standings[r] = Held(r, "asking", NoTask)
    BY <2>4, StandingsAfter DEF Standings
  <2>6. Makers' = Makers /\ Accepted' = Accepted
    BY <1>1, <1>2, <1>3, <2>2, MakersAfter, AcceptedAfter
  <2>7. Register!With(r, "asking", found)
    <3> HIDE DEF found
    <3> QED BY <2>5 DEF Register!With, Held
  <2>8. Register!Looking(r) /\ Register!Joinable(r)
        /\ Standings[r].report = Key(r)
    BY <2>3, <2>5 DEF Register!Looking, Register!Joinable, Register!In, Held,
                      Register!NoRun, NoTask
  <2> QED BY <1>2, <2>6, <2>7, <2>8 DEF Register!Join
<1>5. CASE ~Joinable(r, found)
  <2>1. /\ pc'[r] = IF pc[r] = "recheck" THEN "submit" ELSE "loop"
    BY <1>1, <1>5 DEF Recheck, Peek, Join, GoTo, TypeOK
  <2>2. InLock(r)' = InLock(r)
    BY <1>2, <2>1 DEF InLock
  <2> QED BY <1>2, <2>1, <2>2, StaysAsItStands DEF asked
<1> QED BY <1>4, <1>5

\* What forgetting a run at hand does to the register.
LEMMA ForgettingDrops ==
    ASSUME NEW r \in Requests, Stepping(r), pc[r] = "forget",
           DeleteIfMatches(Key(r), task[r]), UNCHANGED tasks
    PROVE  Register!Dropped(r)
<1> USE DEF Stepping
<1>1. TypeOK /\ Numbered /\ Placed(r) /\ WorksWell(r)
  BY InvTypes
<1>2. task[r] # NoTask /\ mode[r] # "generating"
  BY <1>1 DEF WorksWell, Placed, AtHand
<1>3. Standings[r] = Held(r, "asking", task[r])
  BY <1>2 DEF Stands, Standings
<1>4. Accepted' = Accepted
  BY <1>1, AcceptedAfter
<1> QED BY <1>2, <1>3, <1>4
        DEF Register!Dropped, Register!In, Register!NoRun, NoTask, Held,
            DeleteIfMatches

\* Deleting the id of a run that will not do drops that run, and no other.
LEMMA ForgetDrops ==
    ASSUME NEW r \in Requests, Stepping(r), Forget(r)
    PROVE  Register!Drop(r)
<1> USE DEF Stepping
<1>1. TypeOK /\ Numbered /\ Placed(r) /\ WorksWell(r)
  BY InvTypes
<1>2. /\ pc[r] = "forget" /\ UNCHANGED <<tasks, want, rev, initial, task, mode>>
      /\ pc'[r] = AfterAttempt(r)
  BY <1>1 DEF Forget, GoTo, TypeOK, backend, asked
<1>3. Register!Dropped(r)
  BY <1>2, ForgettingDrops DEF Forget
<1>4. Key(r)' = Key(r)
  BY <1>2 DEF Key
<1>5. mode[r] # "generating"
  BY <1>1, <1>2 DEF WorksWell, Placed
<1>6. /\ pc'[r] = IF mode[r] = "holding" THEN "submit" ELSE "loop"
      /\ InLock(r)' = InLock(r)
  BY <1>2, <1>5 DEF AfterAttempt, InLock
<1>7. /\ Standing(r) = Held(r, "asking", task[r])
      /\ Standing(r)' = Held(r, "asking", NoTask)
  BY <1>2, <1>4, <1>5, <1>6 DEF Stands, Held
<1>8. /\ Standings' = [Standings EXCEPT ![r] = Held(r, "asking", NoTask)]
      /\ Standings[r] = Held(r, "asking", task[r])
  BY <1>7, StandingsAfter DEF Standings
<1>9. Register!With(r, "asking", NoTask)
  BY <1>8 DEF Register!With, Held
<1>10. Makers' = Makers
  BY <1>4, <1>6, MakersAfter
<1> QED BY <1>3, <1>9, <1>10 DEF Register!Drop, Register!NoRun, NoTask

\* Who acquires the lock has the right to make a run.
LEMMA AcquiringEnters ==
    ASSUME NEW r \in Requests, Stepping(r), TryAcquireLock(r)
    PROVE  Register!Look \/ Register!Enter(r)
<1> USE DEF Stepping
<1>1. TypeOK /\ Numbered /\ \A q \in Requests : Holder(q)
  BY InvTypes
<1>2. /\ pc[r] = "lock" /\ UNCHANGED <<tasks, remembered, want, rev, initial>>
      /\ ~InLock(r)
  BY DEF TryAcquireLock, backend, asked, InLock
<1>3. Key(r)' = Key(r)
  BY <1>2 DEF Key
<1>4. CASE LockFree(Key(r))
  <2>1. pc'[r] = "recheck" /\ InLock(r)'
    BY <1>1, <1>4 DEF TryAcquireLock, GoTo, TypeOK, InLock
  <2>2. \A q \in Requests : InLock(q) => Key(q) # Key(r)
    BY <1>1, <1>4, RequestsAssumption DEF Holder, LockFree
  <2>3. /\ Standing(r) = Held(r, "asking", NoTask)
        /\ Standing(r)' = Held(r, "asking", NoTask)
    BY <1>2, <1>3, <2>1 DEF Stands, Held
  <2>4. Standings' = Standings
    BY <2>3 DEF OnlyMoves, Still, Standings
  <2>5. /\ Makers' = Makers \union {<<r, Key(r)>>}
        /\ \A q \in Requests : <<q, Key(r)>> \notin Makers
    BY <1>2, <1>3, <2>1, <2>2, MakersAfter, MakersAre
  <2>6. Accepted' = Accepted
    BY <1>1, <1>2, AcceptedAfter
  <2>7. Register!Looking(r) /\ Standings[r].report = Key(r)
    BY <2>3 DEF Standings, Register!Looking, Register!In, Register!NoRun,
                NoTask, Held
  <2> QED BY <1>2, <2>4, <2>5, <2>6, <2>7 DEF Register!Enter
<1>5. CASE ~LockFree(Key(r))
  <2>1. pc'[r] = "peek" /\ ~InLock(r)'
    BY <1>1, <1>5 DEF TryAcquireLock, GoTo, TypeOK, InLock
  <2>2. InLock(r)' = InLock(r)
    BY <1>2, <2>1 DEF InLock
  <2> QED BY <1>2, <2>1, <2>2, StaysAsItStands DEF asked
<1> QED BY <1>4, <1>5

\* A run is made where the register allows it.
LEMMA SubmittingMakes ==
    ASSUME NEW r \in Requests, Stepping(r), pc[r] = "submit", CreateTask(r),
           UNCHANGED store
    PROVE  Register!Made(r) /\ Accepted' = Accepted + 1
<1> USE DEF Stepping
<1>1. /\ TypeOK /\ Numbered /\ Joined(r)
      /\ initial[r] \in Nat
  BY InvTypes
<1>2. Standings[r] = Held(r, "asking", NoTask)
  BY DEF Stands, Standings
<1>3. remembered[Key(r)] <= initial[r]
  BY <1>1 DEF Joined, NoTask
<1>4. <<r, Key(r)>> \in Makers
  BY MakersAre DEF InLock
<1>5. Accepted' = Accepted + 1 /\ remembered' = remembered
  BY <1>1, AcceptedAfter DEF store
<1>6. ~(remembered[Key(r)] > initial[r])
  <2>1. remembered[Key(r)] \in Nat
    BY InvTypes
  <2> QED BY <1>1, <1>3, <2>1
<1> QED BY <1>2, <1>4, <1>5, <1>6
        DEF Register!Made, Register!Looking, Register!Joinable, Register!May,
            Register!In, Register!NoRun, NoTask, Held

\* An accepted submission makes the next run, when nothing newer can be joined.
LEMMA SubmitMakes ==
    ASSUME NEW r \in Requests, Stepping(r), Submit(r)
    PROVE  Register!Make(r)
<1> USE DEF Stepping
<1>1. TypeOK /\ Numbered
  BY InvTypes
<1>2. /\ pc[r] = "submit" /\ pc'[r] = "remember" /\ task'[r] = NextTask
      /\ UNCHANGED <<want, rev, initial>>
  BY <1>1 DEF Submit, GoTo, TypeOK, asked
<1>3. Register!Made(r) /\ Accepted' = Accepted + 1
  BY <1>2, SubmittingMakes DEF Submit
<1>4. Key(r)' = Key(r) /\ InLock(r)' = InLock(r)
  BY <1>2 DEF Key, InLock
<1>5. NextTask = Accepted + 1
  BY <1>1, AcceptedAfter
<1>6. /\ Standing(r) = Held(r, "asking", NoTask)
      /\ Standing(r)' = Held(r, "made", Accepted + 1)
  BY <1>2, <1>4, <1>5 DEF Stands, Held
<1>7. /\ Standings' = [Standings EXCEPT ![r] = Held(r, "made", Accepted + 1)]
      /\ Standings[r] = Held(r, "asking", NoTask)
  BY <1>6, StandingsAfter DEF Standings
<1>8. Register!With(r, "made", Accepted + 1)
  BY <1>7 DEF Register!With, Held
<1>9. Makers' = Makers
  BY <1>4, MakersAfter
<1> QED BY <1>3, <1>8, <1>9 DEF Register!Make

\* It is put in the register over an older one.
LEMMA RememberingPublishes ==
    ASSUME NEW r \in Requests, Stepping(r), pc[r] = "remember",
           remembered' = [remembered EXCEPT ![Key(r)] = task[r]],
           UNCHANGED tasks
    PROVE  Register!Published(r)
<1> USE DEF Stepping
<1>1. TypeOK /\ Numbered /\ Newer(r)
  BY InvTypes
<1>2. Standings[r] = Held(r, "made", task[r])
  BY DEF Stands, Standings
<1>3. <<r, Key(r)>> \in Makers
  BY MakersAre DEF InLock
<1>4. Accepted' = Accepted /\ task[r] > remembered[Key(r)]
  BY <1>1, AcceptedAfter DEF Newer
<1> QED BY <1>2, <1>3, <1>4
        DEF Register!Published, Register!In, Register!May, Held

\* Storing the id of the request's own run puts a newer run in the register.
LEMMA RememberPublishes ==
    ASSUME NEW r \in Requests, Stepping(r), Remember(r)
    PROVE  Register!Publish(r)
<1> USE DEF Stepping
<1>1. TypeOK /\ Numbered /\ WorksWell(r)
  BY InvTypes
<1>2. /\ pc[r] = "remember" /\ pc'[r] = "await"
      /\ UNCHANGED <<tasks, want, rev, initial, task, mode>>
      /\ mode[r] = "generating"
  BY <1>1 DEF Remember, GoTo, TypeOK, asked, backend, WorksWell
<1>3. Register!Published(r)
  BY <1>2, RememberingPublishes DEF Remember
<1>4. Key(r)' = Key(r) /\ InLock(r)' = InLock(r)
  BY <1>2 DEF Key, InLock
<1>5. /\ Standing(r) = Held(r, "made", task[r])
      /\ Standing(r)' = Held(r, "waiting", task[r])
  BY <1>2, <1>4 DEF Stands, Held
<1>6. /\ Standings' = [Standings EXCEPT ![r] = Held(r, "waiting", task[r])]
      /\ Standings[r] = Held(r, "made", task[r])
  BY <1>5, StandingsAfter DEF Standings
<1>7. Register!With(r, "waiting", task[r]) /\ Standings[r].run = task[r]
  BY <1>6 DEF Register!With, Held
<1>8. Makers' = Makers
  BY <1>4, MakersAfter
<1> QED BY <1>3, <1>7, <1>8 DEF Register!Publish

\* What becomes of a request that looks at a run.
LEMMA RunsAreJudged ==
    ASSUME NEW r \in Requests, Stepping(r),
           Validate(r) \/ Await(r) \/ Poll(r) \/ Output(r)
    PROVE  Register!Look \/ Register!Serve(r) \/ Register!GiveUp(r)
<1> USE DEF Stepping
<1>1. TypeOK /\ Placed(r) /\ WorksWell(r)
  BY InvTypes
<1>2. /\ UNCHANGED <<tasks, remembered, asked, task, mode>>
      /\ pc[r] \in {"validate", "await", "poll", "output"}
  BY DEF Validate, Await, Poll, Output, backend, store
<1>3. want[r].kind # "inspect"
  BY <1>1, <1>2 DEF Placed
<1>4. \/ pc'[r] \in {"await", "poll", "output"}
      \/ pc'[r] = "forget" /\ mode[r] # "generating"
      \/ Finish(r, "ok") /\ pc[r] # "await"
      \/ Finish(r, "timeout") \/ Finish(r, "error")
  <2> USE <1>1 DEF GoTo, TypeOK
  <2>1. CASE Validate(r)
    <3>1. mode[r] # "generating"
      BY <1>1, <2>1 DEF Validate, Placed, WorksWell
    <3> QED BY <2>1, <3>1 DEF Validate, Judge
  <2>2. CASE Await(r)
    BY <2>2 DEF Await
  <2>3. CASE Poll(r)
    BY <2>3 DEF Poll, Judge, Complete
  <2>4. CASE Output(r)
    BY <2>4 DEF Output
  <2> QED BY <2>1, <2>2, <2>3, <2>4
<1>5. CASE \/ pc'[r] \in {"await", "poll", "output"}
           \/ pc'[r] = "forget" /\ mode[r] # "generating"
  <2>1. mode[r] = "generating" => pc[r] # "validate"
    BY <1>1, <1>2 DEF Placed, WorksWell
  <2>2. InLock(r)' = InLock(r)
    BY <1>2, <1>5, <2>1 DEF InLock
  <2> QED BY <1>2, <1>5, <2>2, StaysAsItStands
<1>6. CASE Finish(r, "ok") /\ pc[r] # "await"
  BY <1>2, <1>6, FinishesWell
<1>7. CASE Finish(r, "timeout") \/ Finish(r, "error")
  BY <1>2, <1>3, <1>7, FinishesBadly
<1> QED BY <1>4, <1>5, <1>6, <1>7

\* The deadline in the loop, and a run that is refused.
LEMMA LoopsAreSeen ==
    ASSUME NEW r \in Requests, Stepping(r), Loop(r) \/ SubmitRefused(r)
    PROVE  Register!Look \/ Register!GiveUp(r)
<1> USE DEF Stepping
<1>1. TypeOK /\ Placed(r)
  BY InvTypes
<1>2. /\ UNCHANGED <<tasks, remembered, asked>>
      /\ pc[r] \in {"loop", "submit"}
  BY DEF Loop, SubmitRefused, backend, store
<1>3. want[r].kind # "inspect"
  BY <1>1, <1>2 DEF Placed
<1>4. \/ pc[r] = "loop" /\ pc'[r] = "lock"
      \/ Finish(r, "timeout") \/ Finish(r, "error")
  BY <1>1 DEF Loop, SubmitRefused, GoTo, TypeOK
<1>5. CASE pc[r] = "loop" /\ pc'[r] = "lock"
  <2>1. InLock(r)' = InLock(r)
    BY <1>5 DEF InLock
  <2> QED BY <1>2, <1>5, <2>1, StaysAsItStands
<1>6. CASE Finish(r, "timeout") \/ Finish(r, "error")
  BY <1>2, <1>3, <1>6, FinishesBadly
<1> QED BY <1>4, <1>5, <1>6

\* A request that ended and leaves its lock, as it ended or by failing now.
LEMMA LeavingIsSeen ==
    ASSUME NEW r \in Requests, Stepping(r), pc[r] = "release",
           pc'[r] = "done", UNCHANGED <<tasks, remembered, asked, task>>,
           result'[r] = result[r] \/ result'[r] \in {"error", "crashed"}
    PROVE  Register!Leave(r) \/ Register!GiveUp(r)
<1> USE DEF Stepping
<1>1. /\ TypeOK /\ Numbered /\ Placed(r)
      /\ want[r].kind # "inspect" /\ result[r] # "none"
  BY InvTypes DEF Placed
<1>2. /\ ~Outside(r) /\ ~Outside(r)' /\ Key(r)' = Key(r)
      /\ InLock(r) /\ ~InLock(r)'
  BY <1>1 DEF Outside, Key, InLock, asked
<1>3. /\ Standing(r) = IF result[r] = "ok" THEN Held(r, "served", task[r])
                       ELSE [phase |-> "failed"]
      /\ Standing(r)' = IF result'[r] = "ok" THEN Held(r, "served", task[r])
                        ELSE [phase |-> "failed"]
  BY <1>2 DEF Stands, Held, asked
<1>4. CASE result[r] = "ok" /\ result'[r] # "ok"
  BY <1>1, <1>2, <1>3, <1>4, Fails DEF Held
<1>5. CASE result[r] # "ok" \/ result'[r] = "ok"
  <2>1. Standing(r)' = Standing(r)
    BY <1>1, <1>3, <1>5
  <2>2. Standings' = Standings
    BY <2>1 DEF OnlyMoves, Still, Standings
  <2>3. Makers' = Register!Retired(r)
    BY <1>2, MakersAfter DEF Register!Retired
  <2>4. Accepted' = Accepted
    BY <1>1, AcceptedAfter
  <2>5. Standings[r].phase \in {"served", "failed"}
    BY <1>3 DEF Standings, Held
  <2> QED BY <2>2, <2>3, <2>4, <2>5 DEF Register!Leave, Register!In
<1> QED BY <1>4, <1>5

\* Who only inspects, or has yet to ask.
LEMMA OutsideIsSeen ==
    ASSUME NEW r \in Requests, Stepping(r),
           \/ Arrival(r) \/ ReadRevision(r) \/ InspectLookup(r)
           \/ InspectFetch(r) \/ InspectForget(r)
    PROVE  Register!Look \/ Register!Lose(Key(r))
<1> USE DEF Stepping
<1>1. TypeOK /\ AskedWell(r) /\ Placed(r)
  BY InvTypes
<1>2. CASE Arrival(r)
  <2>1. /\ pc[r] = "idle" /\ pc'[r] \in {"revision", "inspect"}
        /\ pc'[r] = "inspect" => want'[r].kind = "inspect"
        /\ UNCHANGED <<tasks, remembered>>
    BY <1>1, <1>2 DEF Arrival, Render, Prepare, Inspect, Arrive, GoTo, TypeOK,
                      backend, store
  <2> QED BY <2>1, StaysOutside DEF Outside
<1>3. CASE ReadRevision(r)
  <2>1. /\ pc[r] = "revision" /\ pc'[r] = "lookup"
        /\ UNCHANGED <<tasks, remembered>>
    BY <1>1, <1>3 DEF ReadRevision, GoTo, TypeOK, backend, store
  <2> QED BY <2>1, StaysOutside DEF Outside
<1>4. CASE InspectLookup(r) \/ InspectFetch(r) \/ InspectForget(r)
  <2>1. /\ pc[r] \in {"inspect", "inspectFetch", "inspectForget"}
        /\ UNCHANGED <<tasks, want>>
    BY <1>4 DEF InspectLookup, InspectFetch, InspectForget, backend, asked
  <2>2. Outside(r) /\ Outside(r)'
    BY <1>1, <2>1 DEF AskedWell, Outside
  <2>3. \/ UNCHANGED remembered
        \/ remembered' = [remembered EXCEPT ![Key(r)] = NoTask]
    BY <1>1, <1>4 DEF InspectLookup, InspectFetch, InspectForget, store,
                      DeleteIfMatches, TypeOK
  <2> QED BY <2>1, <2>2, <2>3, StaysOutside
<1> QED BY <1>2, <1>3, <1>4

\* What a failure does.
LEMMA FailuresAreSeen ==
    ASSUME NEW r \in Requests, Stepping(r), Failure(r)
    PROVE  \/ Register!Look \/ Register!Lose(Key(r)) \/ Register!GiveUp(r)
           \/ Register!Leave(r)
<1> USE DEF Stepping
<1>1. TypeOK /\ Numbered /\ AskedWell(r) /\ Placed(r) /\ WorksWell(r)
  BY InvTypes
<1>2. UNCHANGED <<want, rev, initial, task>>
  BY DEF Failure, CallFails, LockReplyLost, SubmitReplyLost, StoreReplyLost,
         Crash, asked
<1>3. CASE want[r].kind = "inspect"
  <2>1. Outside(r) /\ Outside(r)'
    BY <1>2, <1>3 DEF Outside
  <2>2. pc[r] \in {"inspect", "inspectFetch", "inspectForget", "done"}
    BY <1>1, <1>3 DEF Placed
  <2>3. UNCHANGED tasks
    BY <2>2 DEF Failure, CallFails, LockReplyLost, SubmitReplyLost,
                StoreReplyLost, Crash, backend
  <2>4. \/ UNCHANGED remembered
        \/ remembered' = [remembered EXCEPT ![Key(r)] = NoTask]
    BY <1>1, <2>2 DEF Failure, CallFails, LockReplyLost, SubmitReplyLost,
                      StoreReplyLost, Crash, store, DeleteIfMatches, TypeOK
  <2> QED BY <2>1, <2>3, <2>4, StaysOutside
<1>4. CASE want[r].kind # "inspect" /\ pc[r] = "release"
  <2>1. /\ pc'[r] = "done" /\ UNCHANGED <<tasks, remembered>>
        /\ result'[r] \in {"error", "crashed"}
    BY <1>1, <1>4 DEF Failure, CallFails, LockReplyLost, SubmitReplyLost,
                      StoreReplyLost, Crash, Finish, GoTo, TypeOK, backend,
                      store
  <2> QED BY <1>2, <1>4, <2>1, LeavingIsSeen DEF asked
<1>5. ASSUME want[r].kind # "inspect", pc[r] # "release"
      PROVE  Register!Look \/ Register!GiveUp(r)
  <2>1. CASE Crash(r)
    <3>1. /\ pc[r] \notin {"idle", "done"} /\ pc'[r] = "done"
          /\ result'[r] = "crashed" /\ UNCHANGED <<tasks, remembered>>
      BY <1>1, <2>1 DEF Crash, Busy, GoTo, TypeOK, backend, store
    <3>2. Standing(r)' = [phase |-> "failed"] /\ ~InLock(r)'
      BY <1>2, <1>5, <3>1 DEF Stands, Outside, InLock
    <3>3. Standing(r).phase \notin {"failed", "served"}
      <4>1. result[r] = "none"
        BY <1>1, <1>5, <3>1 DEF WorksWell
      <4>2. Phase(r) \notin {"failed", "served"}
        BY <4>1 DEF Phase
      <4> QED BY <4>2 DEF Standing
    <3> QED BY <1>1, <3>1, <3>2, <3>3, Fails
  <2>2. CASE CallFails(r)
    <3>1. /\ Finish(r, "error") /\ UNCHANGED <<tasks, remembered, asked>>
          /\ pc[r] # "done"
      BY <2>2 DEF CallFails, CallPcs, BackendPcs, StorePcs, backend, store
    <3> QED BY <1>5, <3>1, FinishesBadly
  <2>3. CASE LockReplyLost(r)
    <3>1. pc[r] = "lock" /\ UNCHANGED <<tasks, remembered, asked>>
      BY <2>3 DEF LockReplyLost, backend
    <3>2. CASE Finish(r, "error")
      BY <1>5, <3>1, <3>2, FinishesBadly
    <3>3. CASE ~Finish(r, "error")
      <4>1. pc'[r] = "peek"
        BY <1>1, <2>3, <3>3 DEF LockReplyLost, GoTo, TypeOK
      <4>2. InLock(r)' = InLock(r)
        BY <3>1, <4>1 DEF InLock
      <4> QED BY <3>1, <4>1, <4>2, StaysAsItStands
    <3> QED BY <3>2, <3>3
  <2>4. CASE SubmitReplyLost(r)
    <3>1. /\ pc[r] = "submit" /\ Finish(r, "error") /\ UNCHANGED <<store, asked>>
          /\ CreateTask(r)
      BY <2>4 DEF SubmitReplyLost
    <3> QED BY <1>5, <3>1, SubmittingMakes, FinishesBadly
  <2>5. CASE StoreReplyLost(r)
    <3>1. /\ Finish(r, "error") /\ UNCHANGED <<tasks, asked>>
          /\ \/ /\ pc[r] = "remember"
                /\ remembered' = [remembered EXCEPT ![Key(r)] = task[r]]
             \/ /\ pc[r] = "forget"
                /\ DeleteIfMatches(Key(r), task[r])
             \/ pc[r] = "inspectForget"
      BY <1>5, <2>5 DEF StoreReplyLost, backend
    <3>2. pc[r] # "inspectForget"
      BY <1>1, <1>5 DEF AskedWell
    <3>3. Register!Published(r) \/ Register!Dropped(r)
      BY <3>1, <3>2, RememberingPublishes, ForgettingDrops
    <3> QED BY <1>5, <3>1, <3>2, <3>3, FinishesBadly
  <2> QED BY <2>1, <2>2, <2>3, <2>4, <2>5 DEF Failure
<1> QED BY <1>3, <1>4, <1>5

-----------------------------------------------------------------------------
(* All steps *)

\* Each action of a request is one of the register's actions.
LEMMA RequestsAreSeen ==
    ASSUME NEW r \in Requests, Stepping(r),
           Arrival(r) \/ Step(r) \/ Failure(r)
    PROVE  Register!Next
<1>1. Key(r) \in Keys /\ TypeOK
  BY InvTypes DEF Stepping
<1>2. CASE Arrival(r) \/ ReadRevision(r) \/ InspectLookup(r)
           \/ InspectFetch(r) \/ InspectForget(r)
  BY <1>1, <1>2, OutsideIsSeen, RegisterMoves
<1>3. CASE Lookup(r)
  <2>1. (~TriedOnArrival(r, remembered[Key(r)])) \in BOOLEAN
    OBVIOUS
  <2> QED BY <1>1, <1>3, <2>1, LookupAsks, RegisterMoves
<1>4. CASE Validate(r) \/ Await(r) \/ Poll(r) \/ Output(r)
  BY <1>1, <1>4, RunsAreJudged, RegisterMoves
<1>5. CASE Forget(r)
  BY <1>1, <1>5, ForgetDrops, RegisterMoves
<1>6. CASE Loop(r) \/ SubmitRefused(r)
  BY <1>1, <1>6, LoopsAreSeen, RegisterMoves
<1>7. CASE TryAcquireLock(r)
  BY <1>1, <1>7, AcquiringEnters, RegisterMoves
<1>8. CASE Recheck(r) \/ Peek(r)
  BY <1>1, <1>8, SeeingJoins, RegisterMoves
<1>9. CASE Submit(r)
  BY <1>1, <1>9, SubmitMakes, RegisterMoves
<1>10. CASE Remember(r)
  BY <1>1, <1>10, RememberPublishes, RegisterMoves
<1>11. CASE ReleaseLock(r)
  <2>1. /\ pc[r] = "release" /\ pc'[r] = "done" /\ result'[r] = result[r]
        /\ UNCHANGED <<tasks, remembered, asked, task>>
    BY <1>1, <1>11 DEF ReleaseLock, GoTo, TypeOK, backend
  <2> QED BY <1>1, <2>1, LeavingIsSeen, RegisterMoves
<1>12. CASE Failure(r)
  BY <1>1, <1>12, FailuresAreSeen, RegisterMoves
<1> QED BY <1>2, <1>3, <1>4, <1>5, <1>6, <1>7, <1>8, <1>9, <1>10, <1>11, <1>12
        DEF Step

\* What happens elsewhere.
LEMMA ElsewhereIsSeen ==
    ASSUME RegisterInv, Elsewhere
    PROVE  Register!Next
<1>1. TypeOK /\ Numbered
  BY DEF RegisterInv, NewerInv, AnswerInv
<1>2. UNCHANGED <<pc, mode, want, rev, initial, task, result>>
  BY <1>1, ElsewhereLeaves
<1>3. \A q \in Requests : Still(q)
  BY <1>2, RestingIsStill
<1>4. Standings' = Standings /\ Makers' = Makers
  BY <1>3 DEF Still, Standings, Makers
<1>5. Accepted' = Accepted
  <2>1. \A t \in TaskIds : Used(t)' <=> Used(t)
    <3>1. ASSUME NEW t \in TaskIds PROVE Used(t)' <=> Used(t)
      <4>1. tasks[t] \in [status: Statuses, age: 0..AgeCap, rev: Revisions,
                          variant: Variants]
        BY <1>1 DEF TypeOK
      <4>2. CASE Tick
        <5>1. tasks'[t] = tasks[t]
              \/ tasks'[t] = [tasks[t] EXCEPT !.age = @ + 1]
          BY <4>2 DEF Tick
        <5> QED BY <4>1, <5>1 DEF Used
      <4>3. CASE Backend
        <5>1. CASE TemplateUpdated
          BY <5>1 DEF TemplateUpdated, Used
        <5>2. CASE ~TemplateUpdated
          <6>1. PICK u \in TaskIds :
                   \E to \in {"ready", "failed", "expired", "gone"} :
                      /\ tasks[u].status # "unused"
                      /\ tasks' = [tasks EXCEPT
                            ![u] = [@ EXCEPT !.status = to, !.age = 0]]
            BY <4>3, <5>2 DEF Backend, TaskSucceeds, TaskFails, OutputExpires,
                              TaskRemoved, SetStatus
          <6>2. CASE t # u
            BY <1>1, <6>1, <6>2 DEF Used, TypeOK
          <6>3. CASE t = u
            <7>1. PICK to \in {"ready", "failed", "expired", "gone"} :
                     tasks'[t] = [tasks[t] EXCEPT !.status = to, !.age = 0]
              BY <1>1, <6>1, <6>3 DEF TypeOK
            <7>2. tasks'[t].status = to
              BY <4>1, <7>1
            <7> QED BY <6>1, <6>3, <7>2 DEF Used
          <6> QED BY <6>2, <6>3
        <5> QED BY <5>1, <5>2
      <4>4. CASE (\E k \in Keys : RememberedExpires(k)) \/ UNCHANGED vars
        BY <4>4 DEF RememberedExpires, backend, vars, Used
      <4> QED BY <4>2, <4>3, <4>4 DEF Elsewhere
    <3> QED BY <3>1
  <2>2. {t \in TaskIds : tasks'[t].status # "unused"}
           = {t \in TaskIds : tasks[t].status # "unused"}
    BY <2>1 DEF Used
  <2>3. NextTask' = NextTask
    BY <2>2 DEF NextTask
  <2> QED BY <2>3 DEF Accepted
<1>6. CASE \E k \in Keys : RememberedExpires(k)
  <2>1. PICK k \in Keys : remembered' = [remembered EXCEPT ![k] = NoTask]
    BY <1>6 DEF RememberedExpires
  <2>2. Register!Lose(k)
    BY <1>4, <1>5, <2>1 DEF Register!Lose, Register!NoRun, NoTask
  <2> QED BY <2>2 DEF Register!Next
<1>7. CASE ~\E k \in Keys : RememberedExpires(k)
  <2>1. UNCHANGED remembered
    BY <1>7 DEF Elsewhere, Backend, TemplateUpdated, TaskSucceeds, TaskFails,
                OutputExpires, TaskRemoved, SetStatus, Tick, vars, store
  <2> QED BY <1>4, <1>5, <2>1
          DEF Register!Next, Register!Look, Register!registerVars
<1> QED BY <1>6, <1>7

\* If the lock's time covers the calls after the deadline, the handlers keep
\* the register's promises: for any number of requests, reports and runs,
\* whatever fails, one request at a time has the right to make a run of a
\* report, makes at most one, only when there is no newer one to join, keeps
\* the right until it ends, and replaces nothing by an older run.
THEOREM RegisterIsImplemented ==
    ASSUME TtlCoversTail
    PROVE  Spec => KeepsRegister
<1>1. Init /\ RegisterInv => Register!Init
  <2> SUFFICES ASSUME Init, RegisterInv PROVE Register!Init
    OBVIOUS
  <2>1. \A r \in Requests : pc[r] = "idle"
    BY DEF Init
  <2>2. Makers = {}
    BY <2>1 DEF Makers, InLock
  <2>3. Standings = [r \in Requests |-> [phase |-> "away"]]
    BY <2>1 DEF Standings, Standing, Phase, Outside
  <2>4. Accepted = 0
    <3>1. {t \in TaskIds : tasks[t].status # "unused"} = {}
      BY DEF Init
    <3>2. Cardinality({}) = 0
      BY FS_EmptySet
    <3> QED BY <3>1, <3>2 DEF Accepted, NextTask
  <2>5. remembered = [k \in Keys |-> NoTask]
    BY DEF Init
  <2> QED BY <2>2, <2>3, <2>4, <2>5
          DEF Register!Init, Register!Away, Register!NoRun, NoTask
<1>2. RegisterInv /\ RegisterInv' /\ [Next]_vars
         => [Register!Next]_Register!registerVars
  <2> SUFFICES ASSUME RegisterInv, RegisterInv', [Next]_vars
               PROVE  Register!Next
    OBVIOUS
  <2>1. ASSUME NEW r \in Requests, Arrival(r) \/ Step(r) \/ Failure(r)
        PROVE  Register!Next
    <3>1. OnlyMoves(r)
      BY <2>1, OthersAreStill DEF OnlyMoves, RegisterInv, NewerInv, AnswerInv
    <3>2. Stands(r) /\ Stands(r)' /\ Placed(r)'
      BY AllStand, AllStandThen DEF RegisterInv, NewerInv, AnswerInv
    <3> QED BY <2>1, <3>1, <3>2, RequestsAreSeen DEF Stepping
  <2>2. CASE Elsewhere
    BY <2>2, ElsewhereIsSeen
  <2> QED BY <2>1, <2>2 DEF Next, Elsewhere
<1> QED BY <1>1, <1>2, RegisterIsKept, PTL
        DEF Spec, KeepsRegister, Register!Spec

\* A report has one maker at most.
OneMaker ==
    \A r, q \in Requests, k \in Keys :
        <<r, k>> \in Makers /\ <<q, k>> \in Makers => r = q

\* What the register may do to a run it has: keep it, drop it or replace it
\* by a newer one.
NoOlder ==
    \A k \in Keys :
        remembered[k] # NoTask /\ remembered'[k] # NoTask
            => remembered'[k] >= remembered[k]

\* The register is worth its promises: whoever keeps it has one generation
\* at a time and replaces no remembered run by an older one, whatever lock it
\* may use to that end.
THEOREM RegisterIsEnough ==
    KeepsRegister /\ []TypeOK
        => []ExclusiveGeneration /\ RememberedNeverRegresses
<1>1. Register!Init => OneMaker
  BY DEF Register!Init, OneMaker
<1>2. OneMaker /\ [Register!Next]_Register!registerVars => OneMaker'
  <2> SUFFICES ASSUME OneMaker, [Register!Next]_Register!registerVars
               PROVE  OneMaker'
    OBVIOUS
  <2>1. CASE Makers' = Makers
    BY <2>1 DEF OneMaker
  <2>2. ASSUME NEW r \in Requests, Makers' = Register!Retired(r)
        PROVE  OneMaker'
    BY <2>2 DEF OneMaker, Register!Retired
  <2>3. ASSUME NEW r \in Requests, Register!Enter(r) PROVE OneMaker'
    <3>1. /\ Makers' = Makers \union {<<r, Standings[r].report>>}
          /\ \A q \in Requests : <<q, Standings[r].report>> \notin Makers
      BY <2>3 DEF Register!Enter
    <3> QED BY <3>1 DEF OneMaker
  <2>4. ASSUME NEW r \in Requests, Register!GiveUp(r) PROVE OneMaker'
    BY <2>1, <2>2, <2>4 DEF Register!GiveUp
  <2>5. ASSUME NEW r \in Requests, Register!Leave(r) PROVE OneMaker'
    BY <2>2, <2>5 DEF Register!Leave
  <2>6. ASSUME NEW r \in Requests,
               \/ \E k \in Keys, forced \in BOOLEAN : Register!Ask(r, k, forced)
               \/ Register!Join(r) \/ Register!Drop(r) \/ Register!Make(r)
               \/ Register!Publish(r) \/ Register!Serve(r)
        PROVE  OneMaker'
    BY <2>1, <2>6
    DEF Register!Ask, Register!Join, Register!Drop, Register!Make,
        Register!Publish, Register!Serve
  <2>7. CASE \/ Register!Look \/ UNCHANGED Register!registerVars
             \/ \E k \in Keys : Register!Lose(k)
    BY <2>1, <2>7 DEF Register!Look, Register!Lose, Register!registerVars
  <2> QED BY <2>3, <2>4, <2>5, <2>6, <2>7 DEF Register!Next
<1>3. TypeOK /\ OneMaker => ExclusiveGeneration
  <2> SUFFICES ASSUME TypeOK, OneMaker, NEW r \in Requests, NEW q \in Requests,
                      InLock(r), InLock(q), Key(r) = Key(q)
               PROVE  r = q
    BY DEF ExclusiveGeneration
  <2>1. <<r, Key(r)>> \in Makers /\ <<q, Key(r)>> \in Makers
    BY MakersAre
  <2> QED BY <2>1, KeyType DEF OneMaker
<1>4. TypeOK /\ TypeOK' /\ [Register!Next]_Register!registerVars => NoOlder
  <2> SUFFICES ASSUME TypeOK, TypeOK', [Register!Next]_Register!registerVars,
                      NEW k \in Keys,
                      remembered[k] # NoTask, remembered'[k] # NoTask
               PROVE  remembered'[k] >= remembered[k]
    BY DEF NoOlder
  <2>1. /\ remembered[k] \in Nat /\ remembered'[k] \in Nat
        /\ DOMAIN remembered = Keys
    BY DEF TypeOK, TaskIds, NoTask
  <2>2. CASE remembered' = remembered
    BY <2>1, <2>2
  <2>3. ASSUME NEW r \in Requests, Register!Dropped(r)
        PROVE  remembered'[k] >= remembered[k]
    BY <2>1, <2>3 DEF Register!Dropped, Register!NoRun, NoTask
  <2>4. ASSUME NEW r \in Requests, Register!Published(r)
        PROVE  remembered'[k] >= remembered[k]
    BY <2>1, <2>4 DEF Register!Published
  <2>5. CASE \E j \in Keys : Register!Lose(j)
    BY <2>1, <2>5 DEF Register!Lose, Register!NoRun, NoTask
  <2>6. ASSUME NEW r \in Requests,
               \/ \E j \in Keys, forced \in BOOLEAN : Register!Ask(r, j, forced)
               \/ Register!Join(r) \/ Register!Enter(r) \/ Register!Make(r)
               \/ Register!Serve(r) \/ Register!Leave(r)
        PROVE  remembered'[k] >= remembered[k]
    BY <2>2, <2>6
    DEF Register!Ask, Register!Join, Register!Enter, Register!Make,
        Register!Made, Register!Serve, Register!Leave
  <2>7. ASSUME NEW r \in Requests,
               Register!Drop(r) \/ Register!Publish(r) \/ Register!GiveUp(r)
        PROVE  remembered'[k] >= remembered[k]
    BY <2>2, <2>3, <2>4, <2>7
    DEF Register!Drop, Register!Publish, Register!GiveUp, Register!Made
  <2>8. CASE Register!Look \/ UNCHANGED Register!registerVars
    BY <2>2, <2>8 DEF Register!Look, Register!registerVars
  <2> QED BY <2>5, <2>6, <2>7, <2>8 DEF Register!Next
<1>5. NoOlder
        => [\A k \in Keys :
              remembered[k] # NoTask /\ remembered'[k] # NoTask
                  => remembered'[k] >= remembered[k]]_remembered
  BY DEF NoOlder
<1> QED BY <1>1, <1>2, <1>3, <1>4, <1>5, PTL
        DEF KeepsRegister, Register!Spec, RememberedNeverRegresses

-----------------------------------------------------------------------------
(* An answer in time.  Until the deadline the time a request was under way *)
(* and the time it has left make up the wait timeout; afterwards what it   *)
(* may still take is bounded by the calls left, and each of them takes it  *)
(* to a place with fewer.                                                  *)

\* The calls that follow an attempt on a run after the deadline: inside the
\* lock the request's own submission, elsewhere only the look at the clock.
AfterTry(m) == IF m = "holding" THEN BackendLag + 2 * StoreLag ELSE StoreLag

\* The time the calls from p to the answer may take after the deadline.
Rest(p, m) ==
    IF p \in {"idle", "done"} THEN 0
    ELSE IF p \in {"await", "loop", "release", "inspectForget"} THEN StoreLag
    ELSE IF p = "remember" THEN 2 * StoreLag
    ELSE IF p = "submit" THEN BackendLag + 2 * StoreLag
    ELSE IF p = "forget" THEN StoreLag + AfterTry(m)
    ELSE IF p = "output" THEN BackendLag + StoreLag + AfterTry(m)
    ELSE IF p \in {"validate", "poll"}
         THEN 2 * BackendLag + StoreLag + AfterTry(m)
    ELSE IF p = "recheck" THEN 3 * BackendLag + 4 * StoreLag
    ELSE IF p \in {"peek", "lookup"} THEN 2 * BackendLag + 3 * StoreLag
    ELSE IF p = "revision" THEN 3 * BackendLag + 3 * StoreLag
    ELSE IF p = "inspectFetch" THEN BackendLag + StoreLag
    ELSE IF p = "inspect" THEN BackendLag + 2 * StoreLag
    ELSE 3 * BackendLag + 5 * StoreLag

AnswerTime == WaitTimeout + 3 * BackendLag + 5 * StoreLag

Timely(r) ==
    /\ since[r] \in Nat
    /\ pc[r] = "idle" => since[r] = 0 /\ lag[r] = 0
    /\ pc[r] = "done" => since[r] < AnswerTime
    /\ Busy(r) /\ left[r] > 0 => since[r] + left[r] = WaitTimeout
    /\ Busy(r) /\ left[r] = 0 =>
          /\ lag[r] <= LagLimit(r)
          /\ since[r] + Rest(pc[r], mode[r]) < AnswerTime + lag[r]

\* A call's time is part of what remains from it.
LEMMA RestBounds ==
    ASSUME TypeOK, NEW r \in Requests
    PROVE  /\ BackendLag \in Nat /\ StoreLag \in Nat
           /\ BackendLag > 0 /\ StoreLag > 0 /\ WaitTimeout \in Nat
           /\ LagLimit(r) \in Nat /\ lag[r] \in Nat /\ left[r] \in Nat
           /\ Rest(pc[r], mode[r]) \in Nat
           /\ Rest(pc[r], mode[r]) <= 3 * BackendLag + 5 * StoreLag
           /\ Busy(r) => Rest(pc[r], mode[r]) >= LagLimit(r)
<1>1. /\ BackendLag \in Nat /\ StoreLag \in Nat
      /\ BackendLag > 0 /\ StoreLag > 0 /\ WaitTimeout \in Nat
  BY TimesAssumption
<1>2. LagLimit(r) \in Nat /\ lag[r] \in Nat /\ left[r] \in Nat
  BY <1>1 DEF LagLimit, TypeOK
<1>3. /\ Rest(pc[r], mode[r]) \in Nat
      /\ Rest(pc[r], mode[r]) <= 3 * BackendLag + 5 * StoreLag
  BY <1>1 DEF Rest, AfterTry
<1>4. Busy(r) => Rest(pc[r], mode[r]) >= LagLimit(r)
  BY <1>1 DEF Rest, AfterTry, LagLimit, Busy, BackendPcs
<1> QED BY <1>1, <1>2, <1>3, <1>4

\* Where a step of r may lead.
Leads(r, m) ==
    \/ pc'[r] \in {"release", "done"}
    \/ pc[r] = "revision" /\ pc'[r] = "lookup"
    \/ pc[r] = "lookup" /\ pc'[r] \in {"validate", "loop"} /\ m = "arriving"
    \/ pc[r] = "validate" /\ pc'[r] \in {"await", "forget", "output"}
    \/ pc[r] = "poll" /\ pc'[r] \in {"await", "forget", "output"}
    \/ pc[r] = "output" /\ pc'[r] = "forget"
    \/ pc[r] = "forget" /\ pc'[r] = IF m = "holding" THEN "submit" ELSE "loop"
    \/ pc[r] = "lock" /\ pc'[r] \in {"recheck", "peek"}
    \/ pc[r] = "recheck" /\ pc'[r] \in {"validate", "submit"}
    \/ pc[r] = "peek" /\ pc'[r] = "validate" /\ m = "waiting"
    \/ pc[r] = "peek" /\ pc'[r] = "loop"
    \/ pc[r] = "submit" /\ pc'[r] = "remember"
    \/ pc[r] = "remember" /\ pc'[r] = "await"
    \/ pc[r] = "inspect" /\ pc'[r] = "inspectFetch"
    \/ pc[r] = "inspectFetch" /\ pc'[r] = "inspectForget"

\* An answered call: what remains is less by at least its own time.
Advances(r) ==
    /\ pc[r] \in CallPcs /\ lag'[r] = 0
    /\ Leads(r, mode'[r])
    /\ pc[r] \in {"validate", "poll", "output", "forget"} => mode'[r] = mode[r]
    /\ pc'[r] = "release" => pc[r] \notin {"release", "inspectForget"}

\* A look at the clock, after the deadline, or the loss of the process.
Stops(r) ==
    /\ lag'[r] = lag[r]
    /\ \/ pc'[r] = "done"
       \/ pc[r] = "await" /\ pc'[r] = "release"

\* A look at the clock before the deadline.
Goes(r) ==
    /\ left[r] > 0 /\ pc'[r] \in {"poll", "lock"}
    /\ lag'[r] = lag[r]

\* Each step of a request is one of the three, and needs none of its time.
LEMMA StepsAdvance ==
    ASSUME TypeOK, NEW r \in Requests, Step(r) \/ Failure(r)
    PROVE  /\ left' = left /\ Busy(r)
           /\ Advances(r) \/ Goes(r) \/ Stops(r)
<1> USE DEF TypeOK, GoTo, Answered, Advances, Leads
<1>1. CASE ReadRevision(r)
  BY <1>1 DEF ReadRevision, Busy, CallPcs, BackendPcs
<1>2. CASE Lookup(r)
  BY <1>2 DEF Lookup, Busy, CallPcs, StorePcs
<1>3. CASE Validate(r)
  BY <1>3 DEF Validate, Judge, Finish, InLock, Busy, CallPcs, BackendPcs
<1>4. CASE Poll(r)
  BY <1>4 DEF Poll, Judge, Complete, Finish, InLock, Busy, CallPcs, BackendPcs
<1>5. CASE Await(r)
  BY <1>5 DEF Await, DeadlinePassed, Finish, InLock, Busy, Goes, Stops
<1>6. CASE Loop(r)
  BY <1>6 DEF Loop, DeadlinePassed, Finish, InLock, Busy, Goes, Stops
<1>7. CASE Forget(r)
  BY <1>7 DEF Forget, AfterAttempt, Busy, CallPcs, StorePcs
<1>8. CASE Output(r)
  BY <1>8 DEF Output, Finish, InLock, Busy, CallPcs, BackendPcs
<1>9. CASE TryAcquireLock(r)
  BY <1>9 DEF TryAcquireLock, Busy, CallPcs, StorePcs
<1>10. CASE Recheck(r)
  BY <1>10 DEF Recheck, Join, Busy, CallPcs, StorePcs
<1>11. CASE Peek(r)
  BY <1>11 DEF Peek, Join, Busy, CallPcs, StorePcs
<1>12. CASE Submit(r) \/ SubmitRefused(r)
  BY <1>12 DEF Submit, SubmitRefused, Finish, InLock, Busy, CallPcs, BackendPcs
<1>13. CASE Remember(r) \/ ReleaseLock(r)
  BY <1>13 DEF Remember, ReleaseLock, Busy, CallPcs, StorePcs
<1>14. CASE InspectLookup(r) \/ InspectFetch(r) \/ InspectForget(r)
  BY <1>14 DEF InspectLookup, InspectFetch, InspectForget, Finish, InLock, Busy,
               CallPcs, BackendPcs, StorePcs
<1>15. CASE CallFails(r)
  BY <1>15 DEF CallFails, Finish, InLock, Busy, CallPcs, BackendPcs, StorePcs
<1>16. CASE LockReplyLost(r)
  BY <1>16 DEF LockReplyLost, Finish, InLock, Busy, CallPcs, StorePcs
<1>17. CASE SubmitReplyLost(r)
  BY <1>17 DEF SubmitReplyLost, Finish, InLock, Busy, CallPcs, BackendPcs
<1>18. CASE StoreReplyLost(r)
  BY <1>18 DEF StoreReplyLost, Finish, InLock, Busy, CallPcs, StorePcs
<1>19. CASE Crash(r)
  BY <1>19 DEF Crash, Stops
<1> QED BY <1>1, <1>2, <1>3, <1>4, <1>5, <1>6, <1>7, <1>8, <1>9, <1>10, <1>11,
           <1>12, <1>13, <1>14, <1>15, <1>16, <1>17, <1>18, <1>19
        DEF Step, Failure

\* Each answered call leaves less to do.
LEMMA RestShrinks ==
    ASSUME TypeOK, NEW r \in Requests, Advances(r)
    PROVE  Rest(pc[r], mode[r]) >= Rest(pc'[r], mode'[r]) + LagLimit(r)
<1> USE RestBounds
<1>1. LagLimit(r) = IF pc[r] \in BackendPcs THEN BackendLag ELSE StoreLag
  BY DEF LagLimit
<1>2. CASE pc'[r] = "done"
  BY <1>2 DEF Rest, Advances, Busy, CallPcs, BackendPcs, StorePcs
<1>3. CASE pc'[r] = "release"
  BY <1>1, <1>3
  DEF Rest, AfterTry, Advances, CallPcs, BackendPcs, StorePcs
<1>4. CASE pc[r] \in {"revision", "lookup"}
  BY <1>1, <1>2, <1>3, <1>4 DEF Rest, AfterTry, Advances, Leads, BackendPcs
<1>5. CASE pc[r] \in {"validate", "poll", "output", "forget"}
  BY <1>1, <1>2, <1>3, <1>5 DEF Rest, AfterTry, Advances, Leads, BackendPcs
<1>6. CASE pc[r] \in {"lock", "recheck", "peek"}
  BY <1>1, <1>2, <1>3, <1>6 DEF Rest, AfterTry, Advances, Leads, BackendPcs
<1>7. CASE pc[r] \in {"submit", "remember", "inspect", "inspectFetch"}
  BY <1>1, <1>2, <1>3, <1>7 DEF Rest, AfterTry, Advances, Leads, BackendPcs
<1> QED BY <1>2, <1>3, <1>4, <1>5, <1>6, <1>7 DEF Advances, Leads

\* A request whose clocks stand still, and which stays where it is, is in time
\* as before.
LEMMA TimelyRests ==
    ASSUME TypeOK, NEW r \in Requests, Timely(r), HistoryNext,
           pc'[r] = pc[r], mode'[r] = mode[r], left'[r] = left[r],
           lag'[r] = lag[r]
    PROVE  Timely(r)'
<1>1. ~Waits(r) /\ lag[r] \in Nat
  BY DEF Waits, TypeOK
<1>2. since'[r] = since[r]
  BY <1>1 DEF HistoryNext
<1> QED BY <1>2 DEF Timely, Busy, LagLimit

\* An arriving request has the whole wait before it.
LEMMA TimelyArrival ==
    ASSUME TypeOK, NEW r \in Requests, Timely(r), HistoryNext, Arrival(r)
    PROVE  Timely(r)'
<1> USE RestBounds
<1>1. /\ pc[r] = "idle" /\ lag' = lag /\ left'[r] = WaitTimeout
      /\ pc'[r] \in {"revision", "inspect"}
  BY DEF Arrival, Render, Prepare, Inspect, Arrive, GoTo, TypeOK
<1>2. since[r] = 0 /\ lag'[r] = 0 /\ since'[r] = 0
  BY <1>1 DEF Timely, Waits, Busy, HistoryNext
<1>3. Rest(pc'[r], mode'[r]) < 3 * BackendLag + 5 * StoreLag
  BY <1>1 DEF Rest
<1>4. LagLimit(r)' \in Nat /\ Rest(pc'[r], mode'[r]) \in Nat
  BY <1>1 DEF LagLimit, Rest
<1>5. /\ pc'[r] # "idle" /\ pc'[r] # "done"
  BY <1>1
<1>6. since'[r] + Rest(pc'[r], mode'[r]) < AnswerTime + lag'[r]
  BY <1>2, <1>3, <1>4 DEF AnswerTime
<1>7. left'[r] > 0 => since'[r] + left'[r] = WaitTimeout
  BY <1>1, <1>2
<1>8. lag'[r] <= LagLimit(r)'
  BY <1>2, <1>4
<1> QED BY <1>2, <1>5, <1>6, <1>7, <1>8 DEF Timely

\* A step of the request itself takes no time, and leaves less to do.
LEMMA TimelyStep ==
    ASSUME TypeOK, NEW r \in Requests, Timely(r), HistoryNext,
           Step(r) \/ Failure(r)
    PROVE  Timely(r)'
<1>1. /\ left' = left /\ Busy(r)
      /\ Advances(r) \/ Goes(r) \/ Stops(r)
  BY StepsAdvance
<1>2. since'[r] = since[r] /\ since[r] \in Nat
  <2>1. lag'[r] = 0 \/ lag'[r] = lag[r]
    BY <1>1 DEF Advances, Goes, Stops
  <2>2. ~Waits(r)
    BY <2>1, RestBounds DEF Waits
  <2> QED BY <2>2 DEF HistoryNext, Timely
<1>3. pc'[r] # "idle"
  BY <1>1 DEF Advances, Leads, Goes, Stops
<1>4. CASE left[r] > 0
  <2>1. since[r] + left[r] = WaitTimeout
    BY <1>1, <1>4 DEF Timely
  <2>2. since[r] < AnswerTime
    BY <1>2, <1>4, <2>1, RestBounds DEF AnswerTime
  <2> QED BY <1>1, <1>2, <1>3, <1>4, <2>1, <2>2 DEF Timely
<1>5. CASE ~(left[r] > 0)
  <2>1. left[r] = 0 /\ left'[r] = 0
    BY <1>1, <1>5, RestBounds
  <2>2. /\ lag[r] <= LagLimit(r)
        /\ since[r] + Rest(pc[r], mode[r]) < AnswerTime + lag[r]
    BY <1>1, <2>1 DEF Timely
  <2>3. AnswerTime \in Nat
    BY RestBounds DEF AnswerTime
  <2>4. since[r] < AnswerTime
    BY <1>1, <1>2, <2>2, <2>3, RestBounds
  <2>5. CASE Advances(r)
    <3>1. lag'[r] = 0 /\ LagLimit(r)' \in Nat /\ Rest(pc'[r], mode'[r]) \in Nat
      BY <2>5, RestBounds DEF Advances, LagLimit, Rest, AfterTry
    <3>2. Rest(pc[r], mode[r]) >= Rest(pc'[r], mode'[r]) + LagLimit(r)
      BY <2>5, RestShrinks
    <3>3. since'[r] + Rest(pc'[r], mode'[r]) < AnswerTime + lag'[r]
      BY <1>2, <2>2, <2>3, <3>1, <3>2, RestBounds
    <3> QED BY <1>2, <1>3, <2>1, <2>4, <3>1, <3>3 DEF Timely
  <2>6. CASE Stops(r) /\ pc'[r] = "done"
    BY <1>2, <2>4, <2>6 DEF Timely, Busy
  <2>7. CASE Stops(r) /\ pc[r] = "await" /\ pc'[r] = "release"
    <3>1. /\ LagLimit(r) = StoreLag /\ LagLimit(r)' = StoreLag
          /\ Rest(pc[r], mode[r]) = StoreLag
          /\ Rest(pc'[r], mode'[r]) = StoreLag
      BY <2>7 DEF LagLimit, Rest, BackendPcs
    <3>2. lag'[r] = lag[r]
      BY <2>7 DEF Stops
    <3> QED BY <1>2, <2>1, <2>2, <2>4, <2>7, <3>1, <3>2 DEF Timely
  <2> QED BY <1>1, <2>1, <2>5, <2>6, <2>7 DEF Goes, Stops
<1> QED BY <1>4, <1>5

\* Time passes, for the deadline, the call and the request alike.
LEMMA TimelyTick ==
    ASSUME TypeOK, NEW r \in Requests, Timely(r), HistoryNext, Tick
    PROVE  Timely(r)'
<1> USE RestBounds
<1>1. /\ pc' = pc /\ mode' = mode /\ left'[r] = Remaining(r)
      /\ Busy(r)' = Busy(r) /\ LagLimit(r)' = LagLimit(r)
  BY DEF Tick, Busy, LagLimit
<1>2. CASE ~Busy(r)
  <2>1. lag'[r] = lag[r] /\ since'[r] = since[r]
    BY <1>2 DEF Tick, Waits, HistoryNext
  <2> QED BY <1>1, <1>2, <2>1 DEF Timely
<1>3. CASE Busy(r)
  <2>1. lag[r] < LagLimit(r) /\ lag'[r] = lag[r] + 1
    BY <1>3 DEF Tick
  <2>2. since'[r] = since[r] + 1 /\ since[r] \in Nat
    BY <1>3, <2>1 DEF Waits, HistoryNext, Timely
  <2>3. pc[r] # "idle" /\ pc[r] # "done"
    BY <1>3 DEF Busy
  <2>4. CASE left[r] > 0
    <3>1. left'[r] = left[r] - 1 /\ since[r] + left[r] = WaitTimeout
      BY <1>1, <1>3, <2>4 DEF Timely, Remaining
    <3>2. since'[r] + left'[r] = WaitTimeout
      BY <2>2, <3>1
    <3>3. left'[r] = 0 =>
            since'[r] + Rest(pc[r], mode[r]) < AnswerTime + lag'[r]
      BY <2>1, <2>2, <3>2 DEF AnswerTime
    <3> QED BY <1>1, <2>1, <2>2, <2>3, <3>2, <3>3 DEF Timely
  <2>5. CASE ~(left[r] > 0)
    <3>1. left[r] = 0 /\ left'[r] = 0
      BY <1>1, <2>5 DEF Remaining
    <3>2. since[r] + Rest(pc[r], mode[r]) < AnswerTime + lag[r]
      BY <1>3, <3>1 DEF Timely
    <3>3. since'[r] + Rest(pc[r], mode[r]) < AnswerTime + lag'[r]
      BY <2>1, <2>2, <3>2 DEF AnswerTime
    <3> QED BY <1>1, <2>1, <2>2, <2>3, <3>1, <3>3 DEF Timely
  <2> QED BY <2>4, <2>5
<1> QED BY <1>2, <1>3

\* Every step keeps every request in time.
LEMMA TimelyNext ==
    ASSUME TypeOK, \A r \in Requests : Timely(r), HistoryNext,
           NEW q \in Requests
    PROVE  Timely(q)'
<1>1. ASSUME NEW r \in Requests, Arrival(r) \/ Step(r) \/ Failure(r)
      PROVE  Timely(q)'
  <2>1. CASE q # r
    BY <1>1, <2>1, OthersUntouched, TimelyRests DEF Untouched
  <2>2. CASE q = r
    BY <1>1, <2>2, TimelyArrival, TimelyStep
  <2> QED BY <2>1, <2>2
<1>2. CASE Tick
  BY <1>2, TimelyTick
<1>3. CASE Backend \/ (\E k \in Keys : RememberedExpires(k))
  <2>1. UNCHANGED <<pc, mode, left, lag>>
    BY <1>3
    DEF Backend, TemplateUpdated, TaskSucceeds, TaskFails, OutputExpires,
        TaskRemoved, SetStatus, RememberedExpires, store, asked
  <2> QED BY <2>1, TimelyRests
<1> QED BY <1>1, <1>2, <1>3 DEF HistoryNext, Next

\* Every request is answered before the wait timeout and the calls of one
\* that asks for the lock just before it are over, however many requests,
\* runs and failures there are, if each call is answered or fails in its time.
THEOREM AnsweredBeforeLong == HistorySpec => []AnsweredInTime
<1> DEFINE AllTimely == \A r \in Requests : Timely(r)
<1>1. HistoryInit => Init /\ AllTimely
  BY DEF HistoryInit, Init, Timely, Busy
<1>2. TypeOK /\ AllTimely /\ [HistoryNext]_<<vars, accepted, since>>
         => [Next]_vars /\ AllTimely'
  <2> SUFFICES ASSUME TypeOK, AllTimely,
                      [HistoryNext]_<<vars, accepted, since>>
               PROVE  [Next]_vars /\ AllTimely'
    OBVIOUS
  <2>1. CASE HistoryNext
    BY <2>1, TimelyNext DEF HistoryNext
  <2>2. CASE UNCHANGED <<vars, accepted, since>>
    BY <2>2 DEF vars, Timely, Busy, LagLimit
  <2> QED BY <2>1, <2>2
<1>3. TypeOK /\ AllTimely => AnsweredInTime
  <2> SUFFICES ASSUME TypeOK, AllTimely, NEW r \in Requests
               PROVE  since[r] < AnswerTime
    BY DEF AnsweredInTime, AnswerTime
  <2>1. Timely(r) /\ since[r] \in Nat
    BY DEF Timely
  <2>2. AnswerTime \in Nat
    BY RestBounds DEF AnswerTime
  <2>3. CASE Busy(r) /\ left[r] > 0
    BY <2>1, <2>3, RestBounds DEF Timely, AnswerTime
  <2>4. CASE Busy(r) /\ ~(left[r] > 0)
    <3>1. left[r] = 0
      BY <2>4, RestBounds
    <3> QED BY <2>1, <2>2, <2>4, <3>1, RestBounds DEF Timely
  <2>5. CASE ~Busy(r)
    BY <2>1, <2>5, RestBounds DEF Timely, Busy, AnswerTime
  <2> QED BY <2>3, <2>4, <2>5
<1>4. HistoryInit /\ [][HistoryNext]_<<vars, accepted, since>> => Spec
  <2>1. [HistoryNext]_<<vars, accepted, since>> => [Next]_vars
    BY DEF HistoryNext, vars
  <2> QED BY <1>1, <2>1, PTL DEF Spec
<1> QED BY <1>1, <1>2, <1>3, <1>4, TypeCorrect, PTL DEF HistorySpec
=============================================================================
