--------------------------- MODULE OperationLeases --------------------------
(***************************************************************************)
(* Retry-safe task submissions: lib/operation-idempotency.ts and the calls *)
(* of lib/api that acquire a lease, POST with its key and complete it on   *)
(* 202.  An operation is a scope with a payload.                           *)
(*                                                                         *)
(* One tab: its page keeps the leases in memory and in sessionStorage.  A  *)
(* reload loses the memory and the answers, not what the backend has still *)
(* to serve.  A dialog can be reopened while its first call is in flight,  *)
(* so an operation may have several.  The backend makes one task for a key.*)
(***************************************************************************)
EXTENDS FiniteSets, Naturals

CONSTANTS
  Operations,
  MaxCalls,    \* bound: calls in flight at a time
  Retention,   \* OPERATION_IDEMPOTENCY_RETENTION_MS, in ticks
  MaxEntries,  \* MAX_OPERATION_IDEMPOTENCY_ENTRIES
  MaxKeys,     \* bound: keys generated
  MaxIntents,  \* bound: how many times an operation is meant
  NoLease, NoCall

ASSUME LeaseBounds ==
  /\ MaxCalls \in Nat /\ MaxKeys \in Nat /\ MaxIntents \in Nat
  /\ Retention \in Nat \ {0} /\ MaxEntries \in Nat \ {0}

VARIABLES
  memory,       \* memoryState
  stored,       \* sessionStorage
  unavailable,  \* storageUnavailable
  issued,       \* the last key generated
  call,         \* call[c]: a submission and its answer
  tasks,        \* backend: the tasks made
  intent,       \* auxiliary: intent[o]: how many times o was meant so far
  open,         \* auxiliary: whose intent has not been confirmed by a 202
  forgotten     \* auxiliary: operations a lease of which ran out, was evicted
                \* or was left in a storage that fails

leasesVars == <<memory, stored, unavailable, issued, call, tasks, intent, open,
          forgotten>>

LeaseKeys == 1..MaxKeys
Calls == 1..MaxCalls
Lease == [key : LeaseKeys, age : 0..(Retention - 1)]
Leases == [Operations -> Lease \cup {NoLease}]
Intents == 1..MaxIntents
Call == [op : Operations, key : LeaseKeys, intent : Intents, live : BOOLEAN,
         answer : {"none", "accepted", "failed"}]
Task == [op : Operations, key : LeaseKeys, intent : Intents]

ASSUME NothingIsNoLease == NoLease \notin Lease /\ NoCall \notin Call

NoLeases == [o \in Operations |-> NoLease]
Entries(state) == {o \in Operations : state[o] # NoLease}

(* A mutation of Loaded that never reads the storage. *)
LoadedFromMemory(readable) == memory

(* What loadState finds: what is stored goes before what is remembered.    *)
(* Entries that are too old are gone already, see Tick.                    *)
Loaded(readable) ==
  IF unavailable \/ ~readable
    THEN memory
    ELSE [o \in Operations |-> IF stored[o] # NoLease THEN stored[o] ELSE memory[o]]

(* A read that fails hides what only the storage has. *)
Hidden(readable) ==
  IF unavailable \/ readable THEN {}
    ELSE {o \in Operations : memory[o] # stored[o]}

(* loadState and saveState of the same turn. *)
Save(state, readable, writable) ==
  /\ memory' = state
  /\ stored' = IF unavailable \/ ~readable \/ ~writable THEN stored ELSE state
  /\ unavailable' = (unavailable \/ ~readable \/ ~writable)

LeasesInit ==
  /\ memory = NoLeases
  /\ stored = NoLeases
  /\ unavailable = FALSE
  /\ issued = 0
  /\ call = [c \in Calls |-> NoCall]
  /\ tasks = {}
  /\ intent = [o \in Operations |-> 0]
  /\ open = {}
  /\ forgotten = {}

(* The oldest of the leases in state, which acquire evicts. *)
Oldest(state) ==
  {o \in Entries(state) : \A p \in Entries(state) : state[p].age <= state[o].age}

-----------------------------------------------------------------------------

Meant(o) == IF o \in open THEN intent[o] ELSE intent[o] + 1

(* The POST of a submission of o. *)
Send(c, o, key) ==
  /\ call[c] = NoCall
  /\ \A d \in 1..(c - 1) : call[d] # NoCall
  /\ Meant(o) <= MaxIntents
  /\ call' = [call EXCEPT ![c] =
                [op |-> o, key |-> key, intent |-> Meant(o), live |-> TRUE,
                 answer |-> "none"]]
  /\ intent' = [intent EXCEPT ![o] = Meant(o)]
  /\ open' = open \cup {o}
  /\ UNCHANGED tasks

(* The user submits o and acquire finds a lease. *)
SubmitAgain(c, o) ==
  \E readable \in BOOLEAN :
    LET state == Loaded(readable) IN
      /\ state[o] # NoLease
      /\ Send(c, o, state[o].key)
      /\ memory' = state
      /\ unavailable' = (unavailable \/ ~readable)
      /\ forgotten' = forgotten \cup Hidden(readable)
      /\ UNCHANGED <<stored, issued>>

(* It finds none and makes one, for which the oldest may have to go. *)
SubmitFirst(c, o) ==
  \E readable, writable \in BOOLEAN :
    LET state == Loaded(readable) IN
      /\ state[o] = NoLease
      /\ issued < MaxKeys
      /\ issued' = issued + 1
      /\ Send(c, o, issued + 1)
      /\ \E evicted \in {{}} \cup {{p} : p \in Oldest(state)} :
           /\ evicted = {} <=> Cardinality(Entries(state)) < MaxEntries
           /\ Save([p \in Operations |->
                      IF p = o THEN [key |-> issued + 1, age |-> 0]
                      ELSE IF p \in evicted THEN NoLease ELSE state[p]],
                   readable, writable)
           /\ forgotten' = forgotten \cup Hidden(readable) \cup evicted

(* The backend takes the call: a task, unless its key has one.  The answer *)
(* may be lost.                                                            *)
Accept(c) ==
  /\ call[c] # NoCall
  /\ call[c].answer = "none"
  /\ tasks' = IF \E t \in tasks : t.key = call[c].key
                THEN tasks
                ELSE tasks \cup {[op |-> call[c].op, key |-> call[c].key,
                                  intent |-> call[c].intent]}
  /\ \E a \in {"accepted", "failed"} : call' = [call EXCEPT ![c].answer = a]
  /\ UNCHANGED <<memory, stored, unavailable, issued, intent, open, forgotten>>

(* The backend refuses the call, or never has it. *)
Refuse(c) ==
  /\ call[c] # NoCall
  /\ call[c].answer = "none"
  /\ call' = [call EXCEPT ![c].answer = "failed"]
  /\ UNCHANGED <<memory, stored, unavailable, issued, tasks, intent, open,
                 forgotten>>

(* Two mutations of Completed. *)
CompletedByAnyCall(state, q) == [state EXCEPT ![q.op] = NoLease]
NeverCompleted(state, q) == state

(* The leases after complete() of the lease of q. *)
Completed(state, q) ==
  IF state[q.op] # NoLease /\ state[q.op].key = q.key
    THEN [state EXCEPT ![q.op] = NoLease] ELSE state

(* A live page gets its answer, and completes the lease on 202. *)
Answered(c) ==
  /\ call[c] # NoCall
  /\ call[c].answer # "none"
  /\ call' = [call EXCEPT ![c] = NoCall]
  /\ IF call[c].live /\ call[c].answer = "accepted"
       THEN /\ \E readable, writable \in BOOLEAN :
                 LET state == Loaded(readable)
                     left == Completed(state, call[c])
                 IN  /\ IF left = state
                          THEN /\ memory' = state
                               /\ unavailable' = (unavailable \/ ~readable)
                               /\ UNCHANGED stored
                          ELSE Save(left, readable, writable)
                     /\ forgotten' = forgotten \cup Hidden(readable)
            /\ open' = IF intent[call[c].op] = call[c].intent
                         THEN open \ {call[c].op} ELSE open
       ELSE UNCHANGED <<memory, stored, unavailable, open, forgotten>>
  /\ UNCHANGED <<issued, tasks, intent>>

(* The page is loaded again.  Its calls may still reach the backend. *)
Reload ==
  /\ memory' = NoLeases
  /\ unavailable' = FALSE
  /\ call' = [c \in Calls |->
                IF call[c] = NoCall THEN NoCall ELSE [call[c] EXCEPT !.live = FALSE]]
  /\ forgotten' = IF unavailable
                    THEN forgotten \cup {o \in Operations : memory[o] # stored[o]}
                    ELSE forgotten
  /\ UNCHANGED <<stored, issued, tasks, intent, open>>

Old(lease) == lease # NoLease /\ lease.age + 1 >= Retention

Aged(state) ==
  [o \in Operations |->
    IF state[o] = NoLease \/ Old(state[o]) THEN NoLease
    ELSE [state[o] EXCEPT !.age = @ + 1]]

(* Time passes.  pruneState drops an old entry before anybody sees it. *)
Tick ==
  /\ memory' = Aged(memory)
  /\ stored' = Aged(stored)
  /\ forgotten' = forgotten \cup
                    {o \in Operations : Old(memory[o]) \/ Old(stored[o])}
  /\ UNCHANGED <<unavailable, issued, call, tasks, intent, open>>

LeasesNext ==
  \/ \E c \in Calls, o \in Operations : SubmitAgain(c, o) \/ SubmitFirst(c, o)
  \/ \E c \in Calls : Accept(c) \/ Refuse(c) \/ Answered(c)
  \/ Reload
  \/ Tick

LeasesSpec == LeasesInit /\ [][LeasesNext]_leasesVars

-----------------------------------------------------------------------------

(* Every variable has its type. *)
LeasesTypeOK ==
  /\ memory \in Leases
  /\ stored \in Leases
  /\ unavailable \in BOOLEAN
  /\ issued \in 0..MaxKeys
  /\ call \in [Calls -> Call \cup {NoCall}]
  /\ tasks \subseteq Task
  /\ intent \in [Operations -> 0..MaxIntents]
  /\ open \subseteq Operations
  /\ forgotten \subseteq Operations

(* The leases keep the promise of SubmittedTasks, but for the operations   *)
(* that forgotten excepts.                                                 *)
Submitted == INSTANCE SubmittedTasks
               WITH Tasks <- Task, meant <- intent, made <- tasks,
                    excepted <- forgotten
KeepsPromise == Submitted!Spec

(* However often an operation is submitted until a 202 is seen, and across *)
(* reloads, reopened dialogs and lost answers, it makes one task: unless a *)
(* lease of it ran out, was evicted or could not be stored.                *)
OneTaskPerIntent ==
  \A t, u \in tasks :
    t.op = u.op /\ t.intent = u.intent /\ t.op \notin forgotten => t = u

(* A submission after the 202 is a new one: no call of it is answered with *)
(* a task that an earlier submission made, unless a lease of the operation *)
(* ran out, was evicted or was left in a storage that fails.               *)
NewIntentNewTask ==
  \A c \in Calls : \A t \in tasks :
    call[c] # NoCall /\ call[c].key = t.key /\ t.op \notin forgotten =>
      t.op = call[c].op /\ t.intent = call[c].intent

(* A 202 completes and removes the lease, so that a later submission of    *)
(* the same operation makes a new task.  The code does not keep this: when *)
(* the storage refuses the write that removes the lease, the lease comes   *)
(* back with the next page, and a submission made there is answered with   *)
(* the task of the one before.                                             *)
LaterSubmissionNewTask ==
  \A c \in Calls : \A t \in tasks :
    call[c] # NoCall /\ call[c].answer = "accepted" /\ call[c].key = t.key =>
      t.intent = call[c].intent
=============================================================================
