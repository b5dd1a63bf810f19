----------------------- MODULE OperationLeasesProofs ------------------------
(***************************************************************************)
(* Proofs about OperationLeases.  What the promise rests on is said of the *)
(* uses of a key, the calls with it and the task made for it, and of the   *)
(* lease that the next call will find:                                     *)
(*   KeyOwned      a key is one operation's, wherever it is found;         *)
(*   Kept(o)       o has a lease while its intent is open, and two uses    *)
(*                 of o, or a use and the lease, are of one intent exactly *)
(*                 when they are of one key.                               *)
(* No step but Submit adds a use: a task is a use its call was before.     *)
(***************************************************************************)
EXTENDS OperationLeases, FiniteSetTheorems, TLAPS

Used(c) == [op |-> call[c].op, key |-> call[c].key, intent |-> call[c].intent]

InUse == {c \in Calls : call[c] # NoCall}

Uses == tasks \cup {Used(c) : c \in InUse}

(* The lease that a call finds if nothing fails. *)
Found(o) == Loaded(TRUE)[o]

(* A key k is held for o. *)
Holds(o, k) ==
  \/ \E x \in Uses : x.op = o /\ x.key = k
  \/ memory[o] # NoLease /\ memory[o].key = k
  \/ stored[o] # NoLease /\ stored[o].key = k

KeyOwned ==
  \A o \in Operations, k \in LeaseKeys :
    Holds(o, k) => k <= issued /\ \A p \in Operations : Holds(p, k) => p = o

KnownIntents ==
  /\ \A x \in Uses : x.intent <= intent[x.op]
  /\ \A o \in open : intent[o] >= 1

(* While the storage works, the page remembers nothing else. *)
Mirrors == ~unavailable => \A o \in Operations : memory[o] \in {NoLease, stored[o]}

AcceptedIsMade ==
  \A c \in Calls :
    call[c] # NoCall /\ call[c].answer = "accepted" =>
      \E t \in tasks : t.key = call[c].key

Kept(o) ==
  /\ (o \in open) <=> (Found(o) # NoLease)
  /\ \A x, y \in Uses :
       x.op = o /\ y.op = o => (x.key = y.key <=> x.intent = y.intent)
  /\ \A x \in Uses :
       o \in open /\ x.op = o => (x.key = Found(o).key <=> x.intent = intent[o])

AllKept == \A o \in Operations \ forgotten : Kept(o)

LeasesInv ==
  /\ LeasesTypeOK
  /\ KeyOwned
  /\ KnownIntents
  /\ Mirrors
  /\ AcceptedIsMade
  /\ AllKept

-----------------------------------------------------------------------------
(* Types *)

(* What is loaded are leases. *)
LEMMA LoadedType ==
  ASSUME LeasesTypeOK, NEW readable \in BOOLEAN
  PROVE  /\ Loaded(readable) \in Leases
         /\ \A o \in Operations : Loaded(readable)[o] \in {memory[o], stored[o]}
BY DEF LeasesTypeOK, Leases, Loaded

(* What is held where: a use is a task's or a call's. *)
LEMMA UsesType ==
  ASSUME LeasesTypeOK
  PROVE  Uses \subseteq Task
<1>1. ASSUME NEW c \in InUse PROVE Used(c) \in Task
  <2>1. call[c] \in Call
    BY DEF InUse, LeasesTypeOK
  <2> QED BY <2>1 DEF Used, Call, Task
<1> QED BY <1>1 DEF Uses, LeasesTypeOK

(* Saving leases keeps the types. *)
LEMMA SaveType ==
  ASSUME LeasesTypeOK, NEW state \in Leases,
         NEW readable \in BOOLEAN, NEW writable \in BOOLEAN,
         Save(state, readable, writable)
  PROVE  memory' \in Leases /\ stored' \in Leases /\ unavailable' \in BOOLEAN
BY DEF Save, LeasesTypeOK

(* Sending a call keeps the types. *)
LEMMA SendType ==
  ASSUME LeasesTypeOK, KnownIntents, NEW c \in Calls, NEW o \in Operations,
         NEW key \in LeaseKeys, Send(c, o, key)
  PROVE  /\ call' \in [Calls -> Call \cup {NoCall}]
         /\ tasks' \subseteq Task
         /\ intent' \in [Operations -> 0..MaxIntents]
         /\ open' \subseteq Operations
         /\ Meant(o) \in Intents
<1>1. Meant(o) \in Intents
  <2>1. intent[o] \in 0..MaxIntents /\ Meant(o) <= MaxIntents
    BY DEF LeasesTypeOK, Send
  <2>2. CASE o \notin open
    BY <2>1, <2>2, LeaseBounds DEF Meant, Intents
  <2>3. CASE o \in open
    <3>1. intent[o] >= 1
      BY <2>3 DEF KnownIntents
    <3> QED BY <2>1, <2>3, <3>1, LeaseBounds DEF Meant, Intents
  <2> QED BY <2>2, <2>3
<1>2. [op |-> o, key |-> key, intent |-> Meant(o), live |-> TRUE,
       answer |-> "none"] \in Call
  BY <1>1 DEF Call
<1>3. call' \in [Calls -> Call \cup {NoCall}]
  BY <1>2 DEF Send, LeasesTypeOK
<1>4. intent' \in [Operations -> 0..MaxIntents]
  BY <1>1, LeaseBounds DEF Send, LeasesTypeOK, Intents
<1> QED BY <1>1, <1>3, <1>4 DEF Send, LeasesTypeOK

(* Both ways to submit keep the types. *)
LEMMA SubmitTypes ==
  ASSUME LeasesTypeOK, KnownIntents, NEW c \in Calls, NEW o \in Operations,
         SubmitAgain(c, o) \/ SubmitFirst(c, o)
  PROVE  LeasesTypeOK'
<1>1. CASE SubmitAgain(c, o)
  <2>1. PICK readable \in BOOLEAN :
          /\ Loaded(readable)[o] # NoLease
          /\ Send(c, o, Loaded(readable)[o].key)
          /\ memory' = Loaded(readable)
          /\ unavailable' = (unavailable \/ ~readable)
          /\ forgotten' = forgotten \cup Hidden(readable)
          /\ UNCHANGED <<stored, issued>>
    BY <1>1 DEF SubmitAgain
  <2>2. Loaded(readable) \in Leases /\ Loaded(readable)[o] \in Lease
    BY <2>1, LoadedType DEF Leases
  <2>3. Loaded(readable)[o].key \in LeaseKeys
    BY <2>2 DEF Lease
  <2>4. forgotten' \subseteq Operations
    BY <2>1 DEF LeasesTypeOK, Hidden
  <2> QED BY <2>1, <2>2, <2>3, <2>4, SendType DEF LeasesTypeOK
<1>2. CASE SubmitFirst(c, o)
  <2>1. PICK readable \in BOOLEAN, writable \in BOOLEAN :
          /\ issued < MaxKeys
          /\ issued' = issued + 1
          /\ Send(c, o, issued + 1)
          /\ \E evicted \in {{}} \cup {{p} : p \in Oldest(Loaded(readable))} :
               /\ Save([p \in Operations |->
                          IF p = o THEN [key |-> issued + 1, age |-> 0]
                          ELSE IF p \in evicted THEN NoLease
                          ELSE Loaded(readable)[p]],
                       readable, writable)
               /\ forgotten' = forgotten \cup Hidden(readable) \cup evicted
    BY <1>2 DEF SubmitFirst
  <2>2. PICK evicted \in {{}} \cup {{p} : p \in Oldest(Loaded(readable))} :
          /\ Save([p \in Operations |->
                     IF p = o THEN [key |-> issued + 1, age |-> 0]
                     ELSE IF p \in evicted THEN NoLease
                     ELSE Loaded(readable)[p]],
                  readable, writable)
          /\ forgotten' = forgotten \cup Hidden(readable) \cup evicted
    BY <2>1
  <2>3. issued + 1 \in LeaseKeys /\ issued' \in 0..MaxKeys
    BY <2>1, LeaseBounds DEF LeasesTypeOK, LeaseKeys
  <2>4. [key |-> issued + 1, age |-> 0] \in Lease
    BY <2>3, LeaseBounds DEF Lease
  <2>5. [p \in Operations |->
           IF p = o THEN [key |-> issued + 1, age |-> 0]
           ELSE IF p \in evicted THEN NoLease
           ELSE Loaded(readable)[p]] \in Leases
    BY <2>4, LoadedType DEF Leases
  <2>6. memory' \in Leases /\ stored' \in Leases /\ unavailable' \in BOOLEAN
    BY <2>2, <2>5, SaveType
  <2>7. forgotten' \subseteq Operations
    BY <2>2 DEF LeasesTypeOK, Hidden, Oldest, Entries
  <2> QED BY <2>1, <2>3, <2>6, <2>7, SendType DEF LeasesTypeOK
<1> QED BY <1>1, <1>2

(* A task that is made has its type. *)
LEMMA AcceptTypes ==
  ASSUME LeasesTypeOK, NEW c \in Calls, Accept(c)
  PROVE  LeasesTypeOK'
<1>1. call[c] \in Call
  BY DEF Accept, LeasesTypeOK
<1>2. tasks' \subseteq Task
  <2>1. [op |-> call[c].op, key |-> call[c].key, intent |-> call[c].intent] \in Task
    BY <1>1 DEF Call, Task
  <2> QED BY <2>1 DEF Accept, LeasesTypeOK
<1>3. call' \in [Calls -> Call \cup {NoCall}]
  <2>1. PICK a \in {"accepted", "failed"} : call' = [call EXCEPT ![c].answer = a]
    BY DEF Accept
  <2>2. [call[c] EXCEPT !.answer = a] \in Call
    BY <1>1 DEF Call
  <2> QED BY <2>1, <2>2 DEF LeasesTypeOK
<1> QED BY <1>2, <1>3 DEF Accept, LeasesTypeOK

(* A refusal keeps the types. *)
LEMMA RefuseTypes ==
  ASSUME LeasesTypeOK, NEW c \in Calls, Refuse(c)
  PROVE  LeasesTypeOK'
<1>1. call[c] \in Call
  BY DEF Refuse, LeasesTypeOK
<1>2. [call[c] EXCEPT !.answer = "failed"] \in Call
  BY <1>1 DEF Call
<1>3. call' \in [Calls -> Call \cup {NoCall}]
  BY <1>2 DEF Refuse, LeasesTypeOK
<1> QED BY <1>3 DEF Refuse, LeasesTypeOK

(* Completing a lease leaves leases. *)
LEMMA CompletedType ==
  ASSUME NEW state \in Leases, NEW q \in Call
  PROVE  /\ Completed(state, q) \in Leases
         /\ \A o \in Operations \ {q.op} : Completed(state, q)[o] = state[o]
         /\ Completed(state, q)[q.op] =
              IF state[q.op] # NoLease /\ state[q.op].key = q.key
                THEN NoLease ELSE state[q.op]
<1>1. q.op \in Operations
  BY DEF Call
<1> QED BY <1>1 DEF Completed, Leases

(* What Answered does to the leases, in one of two ways. *)
LEMMA AnsweredLeases ==
  ASSUME LeasesTypeOK, NEW c \in Calls, Answered(c)
  PROVE  /\ call[c] \in Call
         /\ call' = [call EXCEPT ![c] = NoCall]
         /\ UNCHANGED <<issued, tasks, intent>>
         /\ \/ UNCHANGED <<memory, stored, unavailable, open, forgotten>>
            \/ /\ call[c].answer = "accepted"
               /\ \E readable, writable \in BOOLEAN :
                    /\ \/ /\ Completed(Loaded(readable), call[c]) = Loaded(readable)
                          /\ memory' = Loaded(readable)
                          /\ unavailable' = (unavailable \/ ~readable)
                          /\ UNCHANGED stored
                       \/ Save(Completed(Loaded(readable), call[c]), readable, writable)
                    /\ forgotten' = forgotten \cup Hidden(readable)
               /\ open' = IF intent[call[c].op] = call[c].intent
                            THEN open \ {call[c].op} ELSE open
<1>1. call[c] \in Call
  BY DEF Answered, LeasesTypeOK
<1>2. CASE call[c].live /\ call[c].answer = "accepted"
  BY <1>1, <1>2 DEF Answered
<1>3. CASE ~(call[c].live /\ call[c].answer = "accepted")
  BY <1>1, <1>3 DEF Answered
<1> QED BY <1>2, <1>3

(* An answer keeps the types. *)
LEMMA AnsweredTypes ==
  ASSUME LeasesTypeOK, NEW c \in Calls, Answered(c)
  PROVE  LeasesTypeOK'
<1>1. call' \in [Calls -> Call \cup {NoCall}]
  BY DEF Answered, LeasesTypeOK
<1>2. CASE UNCHANGED <<memory, stored, unavailable, open, forgotten>>
  BY <1>1, <1>2, AnsweredLeases DEF LeasesTypeOK
<1>3. ASSUME NEW readable \in BOOLEAN, NEW writable \in BOOLEAN,
             \/ /\ memory' = Loaded(readable)
                /\ unavailable' = (unavailable \/ ~readable)
                /\ UNCHANGED stored
             \/ Save(Completed(Loaded(readable), call[c]), readable, writable),
             forgotten' = forgotten \cup Hidden(readable),
             open' = IF intent[call[c].op] = call[c].intent
                       THEN open \ {call[c].op} ELSE open
      PROVE  LeasesTypeOK'
  <2>1. Loaded(readable) \in Leases
    BY LoadedType
  <2>2. Completed(Loaded(readable), call[c]) \in Leases
    BY <2>1, CompletedType, AnsweredLeases
  <2>3. memory' \in Leases /\ stored' \in Leases /\ unavailable' \in BOOLEAN
    BY <1>3, <2>1, <2>2, SaveType DEF LeasesTypeOK
  <2>4. forgotten' \subseteq Operations /\ open' \subseteq Operations
    BY <1>3 DEF LeasesTypeOK, Hidden
  <2> QED BY <1>1, <2>3, <2>4, AnsweredLeases DEF LeasesTypeOK
<1> QED BY <1>2, <1>3, AnsweredLeases

(* A new page has the types. *)
LEMMA ReloadTypes ==
  ASSUME LeasesTypeOK, Reload
  PROVE  LeasesTypeOK'
<1>1. call' \in [Calls -> Call \cup {NoCall}]
  <2>1. ASSUME NEW c \in Calls, call[c] # NoCall
        PROVE  [call[c] EXCEPT !.live = FALSE] \in Call
    BY <2>1 DEF LeasesTypeOK, Call
  <2> QED BY <2>1 DEF Reload, LeasesTypeOK
<1> QED BY <1>1 DEF Reload, LeasesTypeOK, Leases, NoLeases

(* Leases that are not too old are a tick older. *)
LEMMA AgedType ==
  ASSUME NEW state \in Leases
  PROVE  /\ Aged(state) \in Leases
         /\ \A o \in Operations :
              /\ Aged(state)[o] # NoLease =>
                   state[o] # NoLease /\ Aged(state)[o].key = state[o].key
              /\ state[o] # NoLease /\ ~Old(state[o]) => Aged(state)[o] # NoLease
<1>1. ASSUME NEW o \in Operations, state[o] # NoLease, ~Old(state[o])
      PROVE  /\ [state[o] EXCEPT !.age = @ + 1] \in Lease
             /\ [state[o] EXCEPT !.age = @ + 1].key = state[o].key
             /\ [state[o] EXCEPT !.age = @ + 1] # NoLease
  <2>1. state[o] \in Lease
    BY <1>1 DEF Leases
  <2>2. state[o].age + 1 \in 0..(Retention - 1)
    BY <1>1, <2>1, LeaseBounds DEF Old, Lease
  <2> QED BY <2>1, <2>2, NothingIsNoLease DEF Lease
<1> QED BY <1>1 DEF Aged, Leases

(* Time keeps the types. *)
LEMMA TickTypes ==
  ASSUME LeasesTypeOK, Tick
  PROVE  LeasesTypeOK'
BY AgedType DEF LeasesTypeOK, Tick

-----------------------------------------------------------------------------
(* The lease that is found *)

(* An operation whose lease is not hidden finds what it would find if      *)
(* nothing failed.                                                         *)
LEMMA FoundUnlessHidden ==
  ASSUME LeasesTypeOK, NEW readable \in BOOLEAN, NEW o \in Operations \ Hidden(readable)
  PROVE  Loaded(readable)[o] = Found(o)
BY DEF LeasesTypeOK, Leases, Loaded, Found, Hidden

(* Leases that are saved are found, whatever fails. *)
LEMMA FoundWhenSaved ==
  ASSUME LeasesTypeOK, NEW state \in Leases,
         NEW readable \in BOOLEAN, NEW writable \in BOOLEAN,
         Save(state, readable, writable)
  PROVE  /\ \A o \in Operations : Found(o)' = state[o]
         /\ Mirrors'
BY DEF LeasesTypeOK, Leases, Loaded, Found, Save, Mirrors

(* Leases that are loaded and not saved are found again. *)
LEMMA FoundWhenLoaded ==
  ASSUME LeasesTypeOK, Mirrors, NEW readable \in BOOLEAN,
         memory' = Loaded(readable),
         unavailable' = (unavailable \/ ~readable),
         UNCHANGED stored
  PROVE  /\ \A o \in Operations : Found(o)' = Loaded(readable)[o]
         /\ Mirrors'
<1>1. \A o \in Operations : Found(o)' = Loaded(readable)[o]
  BY DEF LeasesTypeOK, Leases, Loaded, Found
<1>2. Mirrors'
  <2>1. CASE unavailable \/ ~readable
    BY <2>1 DEF Mirrors
  <2>2. CASE ~unavailable /\ readable
    BY <2>2 DEF Mirrors, LeasesTypeOK, Leases, Loaded
  <2> QED BY <2>1, <2>2
<1> QED BY <1>1, <1>2

(* A step that leaves the leases leaves what is found. *)
LEMMA FoundUnchanged ==
  ASSUME Mirrors, UNCHANGED <<memory, stored, unavailable>>
  PROVE  /\ \A o \in Operations : Found(o)' = Found(o)
         /\ Mirrors'
BY DEF Loaded, Found, Mirrors

(* A new page finds what the storage has: the lease that was found, of an  *)
(* operation that is not forgotten by it.                                  *)
LEMMA FoundWhenReloaded ==
  ASSUME LeasesTypeOK, Mirrors, Reload
  PROVE  /\ \A o \in Operations \ forgotten' : Found(o)' = Found(o)
         /\ Mirrors'
<1>1. \A o \in Operations : memory'[o] = NoLease
  BY DEF Reload, NoLeases
<1>2. \A o \in Operations : Found(o)' = stored[o]
  BY <1>1 DEF Reload, Found, Loaded, LeasesTypeOK, Leases
<1>3. \A o \in Operations \ forgotten' : Found(o) = stored[o]
  <2>1. CASE unavailable
    BY <2>1 DEF Reload, Found, Loaded
  <2>2. CASE ~unavailable
    BY <2>2 DEF Mirrors, Found, Loaded, LeasesTypeOK, Leases
  <2> QED BY <2>1, <2>2
<1> QED BY <1>1, <1>2, <1>3 DEF Mirrors

(* A lease that is not too old is found with its key a tick later. *)
LEMMA FoundWhenAged ==
  ASSUME LeasesTypeOK, Mirrors, Tick
  PROVE  /\ \A o \in Operations \ forgotten' :
              /\ Found(o)' = NoLease <=> Found(o) = NoLease
              /\ Found(o) # NoLease => Found(o)'.key = Found(o).key
         /\ Mirrors'
<1>1. /\ \A o \in Operations :
           /\ memory'[o] # NoLease =>
                memory[o] # NoLease /\ memory'[o].key = memory[o].key
           /\ stored'[o] # NoLease =>
                stored[o] # NoLease /\ stored'[o].key = stored[o].key
      /\ \A o \in Operations \ forgotten' :
           /\ memory[o] # NoLease => memory'[o] # NoLease
           /\ stored[o] # NoLease => stored'[o] # NoLease
  BY AgedType DEF Tick, LeasesTypeOK
<1>2. \A o \in Operations \ forgotten' :
        /\ Found(o)' = NoLease <=> Found(o) = NoLease
        /\ Found(o) # NoLease => Found(o)'.key = Found(o).key
  <2> TAKE o \in Operations \ forgotten'
  <2>1. Found(o) = IF unavailable \/ stored[o] = NoLease THEN memory[o] ELSE stored[o]
    BY DEF Found, Loaded
  <2>2. Found(o)' = IF unavailable \/ stored'[o] = NoLease THEN memory'[o] ELSE stored'[o]
    BY DEF Found, Loaded, Tick
  <2> QED BY <1>1, <2>1, <2>2
<1>3. Mirrors'
  <2>1. \A o \in Operations : memory[o] = NoLease => memory'[o] = NoLease
    BY <1>1
  <2>2. \A o \in Operations : memory[o] = stored[o] => memory'[o] = stored'[o]
    BY DEF Tick, Aged
  <2> QED BY <2>1, <2>2 DEF Mirrors, Tick
<1> QED BY <1>2, <1>3

-----------------------------------------------------------------------------
(* The uses *)

(* A submission adds its use. *)
LEMMA SendUses ==
  ASSUME LeasesTypeOK, NEW c \in Calls, NEW o \in Operations,
         NEW key \in LeaseKeys, Send(c, o, key)
  PROVE  Uses' \subseteq Uses \cup {[op |-> o, key |-> key, intent |-> Meant(o)]}
<1> DEFINE sent == [op |-> o, key |-> key, intent |-> Meant(o), live |-> TRUE,
                    answer |-> "none"]
<1>1. /\ call' = [call EXCEPT ![c] = sent]
      /\ tasks' = tasks
  BY DEF Send
<1>2. ASSUME NEW d \in Calls, call'[d] # NoCall
      PROVE  Used(d)' \in Uses \cup {[op |-> o, key |-> key, intent |-> Meant(o)]}
  <2>1. CASE d = c
    <3>1. call'[d] = sent
      BY <1>1, <2>1 DEF LeasesTypeOK
    <3> QED BY <3>1 DEF Used
  <2>2. CASE d # c
    <3>1. call'[d] = call[d]
      BY <1>1, <2>2 DEF LeasesTypeOK
    <3> QED BY <1>2, <3>1 DEF Used, Uses, InUse
  <2> QED BY <2>1, <2>2
<1> QED BY <1>1, <1>2 DEF Uses, InUse

(* The backend makes a task of a use. *)
LEMMA AcceptUses ==
  ASSUME LeasesTypeOK, NEW c \in Calls, Accept(c) \/ Refuse(c)
  PROVE  Uses' \subseteq Uses
<1>1. PICK a : call' = [call EXCEPT ![c].answer = a]
  BY DEF Accept, Refuse
<1>2. call[c] \in Call
  BY DEF Accept, Refuse, LeasesTypeOK
<1>3. ASSUME NEW d \in Calls, call'[d] # NoCall
      PROVE  call[d] # NoCall /\ Used(d)' = Used(d)
  <2>1. CASE d = c
    BY <1>1, <1>2, <2>1 DEF Used, LeasesTypeOK, Call, Accept, Refuse
  <2>2. CASE d # c
    BY <1>1, <1>3, <2>2 DEF Used, LeasesTypeOK
  <2> QED BY <2>1, <2>2
<1>4. tasks' \subseteq tasks \cup {Used(c)}
  BY DEF Accept, Refuse, Used
<1>5. Used(c) \in Uses
  BY DEF Uses, InUse, Accept, Refuse
<1> QED BY <1>3, <1>4, <1>5 DEF Uses, InUse

(* An answer takes a use away or leaves it to the task. *)
LEMMA AnsweredUses ==
  ASSUME LeasesTypeOK, NEW c \in Calls, Answered(c)
  PROVE  Uses' \subseteq Uses
<1>1. call' = [call EXCEPT ![c] = NoCall] /\ tasks' = tasks
  BY DEF Answered
<1>2. ASSUME NEW d \in Calls, call'[d] # NoCall
      PROVE  call[d] # NoCall /\ Used(d)' = Used(d)
  BY <1>1, <1>2 DEF Used, LeasesTypeOK
<1> QED BY <1>1, <1>2 DEF Uses, InUse

(* A new page has the uses of the old one. *)
LEMMA ReloadUses ==
  ASSUME LeasesTypeOK, Reload
  PROVE  Uses' \subseteq Uses
<1>1. ASSUME NEW d \in Calls, call'[d] # NoCall
      PROVE  call[d] # NoCall /\ Used(d)' = Used(d)
  <2>1. call[d] \in Call
    BY <1>1 DEF Reload, LeasesTypeOK
  <2> QED BY <1>1, <2>1 DEF Used, LeasesTypeOK, Reload, Call
<1> QED BY <1>1 DEF Uses, InUse, Reload

(* Time leaves them. *)
LEMMA TickUses ==
  ASSUME Tick
  PROVE  Uses' \subseteq Uses
BY DEF Tick, Uses, InUse, Used

-----------------------------------------------------------------------------
(* Keys have one owner *)

(* A lease of o in the page or the storage is one of before. *)
NoNewLease(o) ==
  \A l \in {memory'[o], stored'[o]} : l # NoLease =>
    \E m \in {memory[o], stored[o]} : m # NoLease /\ m.key = l.key

(* A step that adds no use and no lease leaves the keys to their owners. *)
LEMMA KeysStayOwned ==
  ASSUME KeyOwned, Uses' \subseteq Uses, UNCHANGED issued,
         \A o \in Operations : NoNewLease(o)
  PROVE  KeyOwned'
<1>1. ASSUME NEW o \in Operations, NEW k \in LeaseKeys, Holds(o, k)'
      PROVE  Holds(o, k)
  BY <1>1 DEF Holds, NoNewLease
<1> QED BY <1>1 DEF KeyOwned

(* A key that was just generated has no other owner. *)
LEMMA NewKeyIsOwned ==
  ASSUME KeyOwned, issued \in Nat, issued' = issued + 1, NEW o \in Operations,
         \A p \in Operations, k \in LeaseKeys :
           Holds(p, k)' => Holds(p, k) \/ (p = o /\ k = issued + 1)
  PROVE  KeyOwned'
<1>1. \A k \in LeaseKeys : k \in Nat
  BY LeaseBounds DEF LeaseKeys
<1> SUFFICES ASSUME NEW q \in Operations, NEW k \in LeaseKeys, Holds(q, k)'
             PROVE  k <= issued' /\ \A p \in Operations : Holds(p, k)' => p = q
  BY DEF KeyOwned
<1>2. CASE k = issued + 1
  <2>1. \A p \in Operations : ~Holds(p, k)
    BY <1>1, <1>2 DEF KeyOwned
  <2> QED BY <1>2, <2>1
<1>3. CASE k # issued + 1
  BY <1>1, <1>3 DEF KeyOwned
<1> QED BY <1>2, <1>3

(* A saved lease is a new one or one that was loaded. *)
LEMMA SavedLeases ==
  ASSUME LeasesTypeOK, NEW state \in Leases,
         NEW readable \in BOOLEAN, NEW writable \in BOOLEAN,
         Save(state, readable, writable)
  PROVE  \A o \in Operations :
           memory'[o] = state[o] /\ stored'[o] \in {stored[o], state[o]}
BY DEF Save

(* Submitting with a lease that was found makes no key. *)
LEMMA SubmitAgainKeys ==
  ASSUME LeasesTypeOK, KnownIntents, KeyOwned, NEW c \in Calls, NEW o \in Operations,
         SubmitAgain(c, o)
  PROVE  KeyOwned'
<1>1. PICK readable \in BOOLEAN :
        /\ Loaded(readable)[o] # NoLease
        /\ Send(c, o, Loaded(readable)[o].key)
        /\ memory' = Loaded(readable)
        /\ UNCHANGED <<stored, issued>>
  BY DEF SubmitAgain
<1> DEFINE lease == Loaded(readable)[o]
<1>2. lease \in {memory[o], stored[o]} /\ lease \in Lease /\ lease.key \in LeaseKeys
  BY <1>1, LoadedType DEF Leases, Lease
<1>3. Uses' \subseteq Uses \cup {[op |-> o, key |-> lease.key, intent |-> Meant(o)]}
  BY <1>1, <1>2, SendUses
<1>4. \A p \in Operations : NoNewLease(p)
  BY <1>1, LoadedType DEF NoNewLease
<1>5. ASSUME NEW p \in Operations, NEW k \in LeaseKeys, Holds(p, k)'
      PROVE  Holds(p, k)
  <2>1. CASE \E x \in Uses' : x.op = p /\ x.key = k
    BY <1>1, <1>2, <1>3, <2>1 DEF Holds
  <2>2. CASE ~\E x \in Uses' : x.op = p /\ x.key = k
    BY <1>4, <1>5, <2>2 DEF Holds, NoNewLease
  <2> QED BY <2>1, <2>2
<1> QED BY <1>1, <1>5 DEF KeyOwned

(* A first submission makes a key for the operation. *)
LEMMA SubmitFirstKeys ==
  ASSUME LeasesTypeOK, KnownIntents, KeyOwned, NEW c \in Calls, NEW o \in Operations,
         SubmitFirst(c, o)
  PROVE  KeyOwned'
<1>1. PICK readable \in BOOLEAN, writable \in BOOLEAN :
        /\ issued < MaxKeys
        /\ issued' = issued + 1
        /\ Send(c, o, issued + 1)
        /\ \E evicted \in {{}} \cup {{p} : p \in Oldest(Loaded(readable))} :
               Save([p \in Operations |->
                          IF p = o THEN [key |-> issued + 1, age |-> 0]
                          ELSE IF p \in evicted THEN NoLease
                          ELSE Loaded(readable)[p]],
                       readable, writable)
  BY DEF SubmitFirst
<1>2. PICK evicted \in {{}} \cup {{p} : p \in Oldest(Loaded(readable))} :
             Save([p \in Operations |->
                        IF p = o THEN [key |-> issued + 1, age |-> 0]
                        ELSE IF p \in evicted THEN NoLease
                        ELSE Loaded(readable)[p]],
                     readable, writable)
  BY <1>1
<1> DEFINE state == [p \in Operations |->
                        IF p = o THEN [key |-> issued + 1, age |-> 0]
                        ELSE IF p \in evicted THEN NoLease
                        ELSE Loaded(readable)[p]]
<1>3. issued + 1 \in LeaseKeys /\ issued \in Nat
  BY <1>1, LeaseBounds DEF LeasesTypeOK, LeaseKeys
<1>4. [key |-> issued + 1, age |-> 0] \in Lease
  BY <1>3, LeaseBounds DEF Lease
<1>5. state \in Leases
  BY <1>4, LoadedType DEF Leases
<1>6. \A p \in Operations :
        \A l \in {memory'[p], stored'[p]} : l # NoLease =>
          \/ p = o /\ l.key = issued + 1
          \/ \E m \in {memory[p], stored[p]} : m # NoLease /\ m.key = l.key
  <2>1. \A p \in Operations :
          memory'[p] = state[p] /\ stored'[p] \in {stored[p], state[p]}
    BY <1>2, <1>5, SavedLeases
  <2>2. \A p \in Operations :
          state[p] # NoLease =>
            \/ p = o /\ state[p].key = issued + 1
            \/ state[p] \in {memory[p], stored[p]}
    BY LoadedType
  <2> QED BY <2>1, <2>2
<1>7. Uses' \subseteq Uses \cup {[op |-> o, key |-> issued + 1, intent |-> Meant(o)]}
  BY <1>1, <1>3, SendUses
<1>8. ASSUME NEW p \in Operations, NEW k \in LeaseKeys, Holds(p, k)'
      PROVE  Holds(p, k) \/ (p = o /\ k = issued + 1)
  <2>1. CASE \E x \in Uses' : x.op = p /\ x.key = k
    BY <1>7, <2>1 DEF Holds
  <2>2. CASE ~\E x \in Uses' : x.op = p /\ x.key = k
    BY <1>6, <1>8, <2>2 DEF Holds
  <2> QED BY <2>1, <2>2
<1> QED BY <1>1, <1>3, <1>8, NewKeyIsOwned

(* Completing a lease makes no key. *)
LEMMA AnsweredKeys ==
  ASSUME LeasesTypeOK, KeyOwned, NEW c \in Calls, Answered(c)
  PROVE  KeyOwned'
<1>1. Uses' \subseteq Uses /\ UNCHANGED issued
  BY AnsweredUses, AnsweredLeases
<1>2. \A o \in Operations : NoNewLease(o)
  <2>1. CASE UNCHANGED <<memory, stored>>
    BY <2>1 DEF NoNewLease
  <2>2. ASSUME NEW readable \in BOOLEAN, NEW writable \in BOOLEAN,
               \/ /\ memory' = Loaded(readable)
                  /\ UNCHANGED stored
               \/ Save(Completed(Loaded(readable), call[c]), readable, writable)
        PROVE  \A o \in Operations : NoNewLease(o)
    <3>1. Loaded(readable) \in Leases /\ call[c] \in Call
      BY LoadedType, AnsweredLeases
    <3> DEFINE left == Completed(Loaded(readable), call[c])
    <3>2. left \in Leases /\ \A o \in Operations : left[o] \in {NoLease, memory[o], stored[o]}
      BY <3>1, LoadedType, CompletedType
    <3> HIDE DEF left
    <3>3. CASE memory' = Loaded(readable) /\ UNCHANGED stored
      BY <3>3, LoadedType DEF NoNewLease
    <3>4. CASE Save(left, readable, writable)
      <4>1. \A o \in Operations :
              memory'[o] = left[o] /\ stored'[o] \in {stored[o], left[o]}
        BY <3>2, <3>4, SavedLeases
      <4> QED BY <3>2, <4>1 DEF NoNewLease
    <3> QED BY <2>2, <3>3, <3>4 DEF left
  <2> QED BY <2>1, <2>2, AnsweredLeases
<1> QED BY <1>1, <1>2, KeysStayOwned

(* Neither do the backend, a new page and time. *)
LEMMA OtherKeys ==
  ASSUME LeasesTypeOK, KeyOwned,
         \/ \E c \in Calls : Accept(c) \/ Refuse(c)
         \/ Reload
         \/ Tick
  PROVE  KeyOwned'
<1>1. CASE \E c \in Calls : Accept(c) \/ Refuse(c)
  <2>1. Uses' \subseteq Uses /\ UNCHANGED <<issued, memory, stored>>
    BY <1>1, AcceptUses DEF Accept, Refuse
  <2> QED BY <2>1, KeysStayOwned DEF NoNewLease
<1>2. CASE Reload
  <2>1. Uses' \subseteq Uses /\ UNCHANGED <<issued, stored>>
    BY <1>2, ReloadUses DEF Reload
  <2>2. \A o \in Operations : memory'[o] = NoLease
    BY <1>2 DEF Reload, NoLeases
  <2> QED BY <2>1, <2>2, KeysStayOwned DEF NoNewLease
<1>3. CASE Tick
  <2>1. Uses' \subseteq Uses /\ UNCHANGED issued
    BY <1>3, TickUses DEF Tick
  <2>2. \A o \in Operations : NoNewLease(o)
    BY <1>3, AgedType DEF Tick, NoNewLease, LeasesTypeOK
  <2> QED BY <2>1, <2>2, KeysStayOwned
<1> QED BY <1>1, <1>2, <1>3

-----------------------------------------------------------------------------
(* Accepted calls have their task *)

(* A step that leaves the tasks and answers no call keeps it so. *)
LEMMA AcceptedStaysMade ==
  ASSUME AcceptedIsMade, UNCHANGED tasks,
         \A c \in Calls :
           call'[c] # NoCall /\ call'[c].answer = "accepted" =>
             call[c] # NoCall /\ call[c].answer = "accepted" /\ call[c].key = call'[c].key
  PROVE  AcceptedIsMade'
BY DEF AcceptedIsMade

(* The backend accepts a call with the task of its key. *)
LEMMA AcceptMakes ==
  ASSUME LeasesTypeOK, AcceptedIsMade, NEW c \in Calls, Accept(c)
  PROVE  AcceptedIsMade'
<1>1. PICK a : call' = [call EXCEPT ![c].answer = a]
  BY DEF Accept
<1>2. call[c] \in Call /\ tasks \subseteq tasks'
  BY DEF Accept, LeasesTypeOK
<1>3. \E t \in tasks' : t.key = call[c].key
  <2> DEFINE made == [op |-> call[c].op, key |-> call[c].key, intent |-> call[c].intent]
  <2>1. CASE \E t \in tasks : t.key = call[c].key
    BY <1>2, <2>1
  <2>2. CASE ~\E t \in tasks : t.key = call[c].key
    <3>1. made \in tasks'
      BY <2>2 DEF Accept
    <3> QED BY <3>1
  <2> QED BY <2>1, <2>2
<1>4. call'[c].key = call[c].key
  BY <1>1, <1>2 DEF LeasesTypeOK, Call
<1>5. \A d \in Calls \ {c} : call'[d] = call[d]
  BY <1>1 DEF LeasesTypeOK
<1> QED BY <1>2, <1>3, <1>4, <1>5 DEF AcceptedIsMade

(* The other steps answer no call. *)
LEMMA OthersMakeNothing ==
  ASSUME LeasesTypeOK, AcceptedIsMade,
         \/ \E c \in Calls, o \in Operations : \E key : Send(c, o, key)
         \/ \E c \in Calls : Refuse(c) \/ Answered(c)
         \/ Reload
         \/ Tick
  PROVE  AcceptedIsMade'
<1>1. UNCHANGED tasks
  BY DEF Send, Refuse, Answered, Reload, Tick
<1>2. CASE \E c \in Calls, o \in Operations : \E key : Send(c, o, key)
  <2>0. PICK c \in Calls, o \in Operations : \E key : Send(c, o, key)
    BY <1>2
  <2>1. PICK key : Send(c, o, key)
    BY <2>0
  <2>2. \A d \in Calls : call'[d] = call[d] \/ call'[d].answer = "none"
    BY <2>1 DEF Send, LeasesTypeOK
  <2> QED BY <1>1, <2>2, AcceptedStaysMade
<1>3. CASE \E c \in Calls : Refuse(c)
  <2>1. PICK c \in Calls : Refuse(c)
    BY <1>3
  <2>2. call'[c].answer = "failed" /\ \A d \in Calls \ {c} : call'[d] = call[d]
    BY <2>1 DEF Refuse, LeasesTypeOK, Call
  <2> QED BY <1>1, <2>2, AcceptedStaysMade
<1>4. CASE \E c \in Calls : Answered(c)
  <2>1. \A d \in Calls : call'[d] \in {NoCall, call[d]}
    BY <1>4, AnsweredLeases DEF LeasesTypeOK
  <2> QED BY <1>1, <2>1, AcceptedStaysMade
<1>5. CASE Reload
  <2>1. \A d \in Calls :
          call'[d] # NoCall =>
            /\ call[d] # NoCall
            /\ call'[d].answer = call[d].answer
            /\ call'[d].key = call[d].key
    BY <1>5 DEF Reload, LeasesTypeOK, Call
  <2> QED BY <1>1, <2>1, AcceptedStaysMade
<1>6. CASE Tick
  BY <1>1, <1>6, AcceptedStaysMade DEF Tick
<1> QED BY <1>2, <1>3, <1>4, <1>5, <1>6

-----------------------------------------------------------------------------
(* The lease is the intent's *)

(* A step without a use, an intent or a lease more keeps the intents known. *)
LEMMA IntentsStayKnown ==
  ASSUME KnownIntents, Uses' \subseteq Uses, UNCHANGED intent, open' \subseteq open
  PROVE  KnownIntents'
BY DEF KnownIntents

(* A submission is of the intent it states. *)
LEMMA SendIntents ==
  ASSUME LeasesTypeOK, KnownIntents, NEW c \in Calls, NEW o \in Operations,
         NEW key \in LeaseKeys, Send(c, o, key)
  PROVE  /\ KnownIntents'
         /\ intent'[o] = Meant(o) /\ Meant(o) \in Nat \ {0}
         /\ intent[o] <= Meant(o)
         /\ \A p \in Operations \ {o} : intent'[p] = intent[p]
<1>1. Meant(o) \in Nat \ {0}
  BY SendType, LeaseBounds DEF Intents
<1>2. \A p \in Operations : intent'[p] = IF p = o THEN Meant(o) ELSE intent[p]
  BY DEF Send, LeasesTypeOK
<1>3. intent[o] \in Nat /\ intent[o] <= Meant(o)
  BY LeaseBounds DEF LeasesTypeOK, Meant
<1>4. \A x \in Uses : x.op \in Operations /\ x.intent \in Nat
  BY UsesType, LeaseBounds DEF Task, Intents
<1>5. \A x \in Uses' : x.intent <= intent'[x.op]
  <2>1. \A p \in Operations : intent[p] \in Nat /\ intent[p] <= intent'[p]
    BY <1>1, <1>2, <1>3, LeaseBounds DEF LeasesTypeOK
  <2>2. \A x \in Uses : x.intent <= intent'[x.op]
    BY <1>1, <1>2, <1>4, <2>1 DEF KnownIntents
  <2> QED BY <1>1, <1>2, <2>2, SendUses
<1>6. \A p \in open' : intent'[p] >= 1
  BY <1>1, <1>2 DEF Send, KnownIntents, LeasesTypeOK
<1> QED BY <1>1, <1>2, <1>3, <1>5, <1>6 DEF KnownIntents

(* An operation is kept by a step that adds no use of it and leaves its    *)
(* intent and its key.                                                     *)
LEMMA StaysKept ==
  ASSUME NEW o \in Operations, Kept(o),
         \A x \in Uses' : x.op = o => x \in Uses,
         intent'[o] = intent[o],
         o \in open' <=> o \in open,
         Found(o)' = NoLease <=> Found(o) = NoLease,
         Found(o) # NoLease => Found(o)'.key = Found(o).key
  PROVE  Kept(o)'
BY DEF Kept

(* Submitting with the lease of the open intent is a use more of its key. *)
LEMMA SubmitAgainKept ==
  ASSUME LeasesInv, NEW c \in Calls, NEW o \in Operations, SubmitAgain(c, o)
  PROVE  Mirrors' /\ AllKept'
<1> USE DEF LeasesInv
<1>1. PICK readable \in BOOLEAN :
        /\ Loaded(readable)[o] # NoLease
        /\ Send(c, o, Loaded(readable)[o].key)
        /\ memory' = Loaded(readable)
        /\ unavailable' = (unavailable \/ ~readable)
        /\ forgotten' = forgotten \cup Hidden(readable)
        /\ UNCHANGED stored
  BY DEF SubmitAgain
<1> DEFINE lease == Loaded(readable)[o]
<1>2. lease.key \in LeaseKeys
  BY <1>1, LoadedType DEF Leases, Lease
<1>3. Mirrors' /\ \A p \in Operations : Found(p)' = Loaded(readable)[p]
  BY <1>1, FoundWhenLoaded
<1>4. \A p \in Operations \ forgotten' : Found(p)' = Found(p) /\ Kept(p)
  BY <1>1, <1>3, FoundUnlessHidden DEF AllKept
<1>5. Uses' \subseteq Uses \cup {[op |-> o, key |-> lease.key, intent |-> Meant(o)]}
  BY <1>1, <1>2, SendUses
<1>6. open' = open \cup {o}
  BY <1>1 DEF Send
<1>7. \A p \in Operations : p # o => intent'[p] = intent[p]
  BY <1>1, <1>2, SendIntents
<1>8. ASSUME NEW p \in Operations \ forgotten', p # o
      PROVE  Kept(p)'
  BY <1>4, <1>5, <1>6, <1>7, <1>8, StaysKept
<1>9. CASE o \notin forgotten'
  <2>1. Found(o) = lease /\ Found(o)' = lease /\ Kept(o)
    BY <1>3, <1>4, <1>9
  <2>2. o \in open /\ Meant(o) = intent[o] /\ intent'[o] = intent[o]
    BY <1>1, <1>2, <2>1, SendIntents DEF Kept, Meant
  <2> DEFINE new == [op |-> o, key |-> lease.key, intent |-> intent[o]]
  <2>3. Uses' \subseteq Uses \cup {new}
    BY <1>5, <2>2
  <2>4. \A x \in Uses' : x.op = o => (x.key = lease.key <=> x.intent = intent[o])
    BY <2>1, <2>2, <2>3 DEF Kept
  <2>5. \A x, y \in Uses' : x.op = o /\ y.op = o => (x.key = y.key <=> x.intent = y.intent)
    <3>1. \A x, y \in Uses : x.op = o /\ y.op = o => (x.key = y.key <=> x.intent = y.intent)
      BY <2>1 DEF Kept
    <3> QED BY <2>3, <2>4, <3>1
  <2>6. o \in open'
    BY <1>6
  <2>7. Kept(o)'
    BY <1>1, <2>1, <2>2, <2>4, <2>5, <2>6 DEF Kept
  <2> QED BY <1>3, <1>8, <2>7 DEF AllKept
<1> QED BY <1>3, <1>8, <1>9 DEF AllKept

(* A first submission is the only use of a key and an intent. *)
LEMMA SubmitFirstKept ==
  ASSUME LeasesInv, NEW c \in Calls, NEW o \in Operations, SubmitFirst(c, o)
  PROVE  Mirrors' /\ AllKept'
<1> USE DEF LeasesInv
<1>1. PICK readable \in BOOLEAN, writable \in BOOLEAN :
        /\ Loaded(readable)[o] = NoLease
        /\ issued < MaxKeys
        /\ issued' = issued + 1
        /\ Send(c, o, issued + 1)
        /\ \E evicted \in {{}} \cup {{p} : p \in Oldest(Loaded(readable))} :
             /\ Save([p \in Operations |->
                          IF p = o THEN [key |-> issued + 1, age |-> 0]
                          ELSE IF p \in evicted THEN NoLease
                          ELSE Loaded(readable)[p]],
                       readable, writable)
             /\ forgotten' = forgotten \cup Hidden(readable) \cup evicted
  BY DEF SubmitFirst
<1>2. PICK evicted \in {{}} \cup {{p} : p \in Oldest(Loaded(readable))} :
        /\ Save([p \in Operations |->
                        IF p = o THEN [key |-> issued + 1, age |-> 0]
                        ELSE IF p \in evicted THEN NoLease
                        ELSE Loaded(readable)[p]],
                     readable, writable)
        /\ forgotten' = forgotten \cup Hidden(readable) \cup evicted
  BY <1>1
<1> DEFINE state == [p \in Operations |->
                        IF p = o THEN [key |-> issued + 1, age |-> 0]
                        ELSE IF p \in evicted THEN NoLease
                        ELSE Loaded(readable)[p]]
<1>3. issued + 1 \in LeaseKeys /\ issued \in Nat
  BY <1>1, LeaseBounds DEF LeasesTypeOK, LeaseKeys
<1>4. [key |-> issued + 1, age |-> 0] \in Lease
  BY <1>3, LeaseBounds DEF Lease
<1>5. state \in Leases
  BY <1>4, LoadedType DEF Leases
<1>6. Mirrors' /\ \A p \in Operations : Found(p)' = state[p]
  BY <1>2, <1>5, FoundWhenSaved
<1>7. \A p \in Operations \ forgotten' : Loaded(readable)[p] = Found(p) /\ Kept(p)
  BY <1>2, FoundUnlessHidden DEF AllKept
<1>8. Uses' \subseteq Uses \cup {[op |-> o, key |-> issued + 1, intent |-> Meant(o)]}
  BY <1>1, <1>3, SendUses
<1>9. open' = open \cup {o}
  BY <1>1 DEF Send
<1>10. \A p \in Operations : p # o => intent'[p] = intent[p]
  BY <1>1, <1>3, SendIntents
<1>11. ASSUME NEW p \in Operations \ forgotten', p # o
       PROVE  Kept(p)'
  <2>1. Found(p)' = Found(p)
    BY <1>2, <1>6, <1>7, <1>11
  <2> QED BY <1>7, <1>8, <1>9, <1>10, <1>11, <2>1, StaysKept
<1>12. CASE o \notin forgotten'
  <2>1. Found(o) = NoLease /\ Kept(o) /\ o \notin open
    BY <1>1, <1>7, <1>12 DEF Kept
  <2>2. Meant(o) = intent[o] + 1 /\ intent'[o] = Meant(o) /\ intent[o] \in Nat
    BY <1>1, <1>3, <2>1, SendIntents, LeaseBounds DEF Meant, LeasesTypeOK
  <2>3. /\ Found(o)' = [key |-> issued + 1, age |-> 0]
        /\ Found(o)' # NoLease
    BY <1>4, <1>6, NothingIsNoLease
  <2>4. ASSUME NEW x \in Uses, x.op = o
        PROVE  x.key # issued + 1 /\ x.intent # Meant(o)
    <3>1. x \in Task
      BY UsesType
    <3>2. x.key \in Nat /\ x.key <= issued
      <4>1. x.key \in LeaseKeys /\ Holds(o, x.key)
        BY <2>4, <3>1 DEF Task, Holds
      <4> QED BY <4>1, LeaseBounds DEF KeyOwned, LeaseKeys
    <3>3. x.intent \in Nat /\ x.intent <= intent[o]
      BY <2>4, <3>1, LeaseBounds DEF Task, Intents, KnownIntents
    <3> QED BY <1>3, <2>2, <3>2, <3>3
  <2> DEFINE new == [op |-> o, key |-> issued + 1, intent |-> Meant(o)]
  <2>5. \A x \in Uses' : x.op = o => (x.key = issued + 1 <=> x.intent = Meant(o))
    BY <1>8, <2>4
  <2>6. \A x, y \in Uses' : x.op = o /\ y.op = o => (x.key = y.key <=> x.intent = y.intent)
    <3>1. \A x, y \in Uses : x.op = o /\ y.op = o => (x.key = y.key <=> x.intent = y.intent)
      BY <2>1 DEF Kept
    <3> QED BY <1>8, <2>5, <3>1
  <2>7. Kept(o)'
    BY <1>9, <2>2, <2>3, <2>5, <2>6 DEF Kept
  <2> QED BY <1>6, <1>11, <2>7 DEF AllKept
<1> QED BY <1>6, <1>11, <1>12 DEF AllKept

(* A 202 ends the intent and its lease; the answer of an older intent      *)
(* leaves both.                                                            *)
LEMMA AnsweredKept ==
  ASSUME LeasesInv, NEW c \in Calls, Answered(c)
  PROVE  Mirrors' /\ AllKept'
<1> USE DEF LeasesInv
<1>1. Uses' \subseteq Uses /\ UNCHANGED intent /\ call[c] \in Call
  BY AnsweredUses, AnsweredLeases
<1>2. CASE UNCHANGED <<memory, stored, unavailable, open, forgotten>>
  <2>1. Mirrors' /\ \A o \in Operations : Found(o)' = Found(o)
    BY <1>2, FoundUnchanged
  <2> QED BY <1>1, <1>2, <2>1, StaysKept DEF AllKept
<1>3. ASSUME NEW readable \in BOOLEAN, NEW writable \in BOOLEAN,
             \/ /\ Completed(Loaded(readable), call[c]) = Loaded(readable)
                /\ memory' = Loaded(readable)
                /\ unavailable' = (unavailable \/ ~readable)
                /\ UNCHANGED stored
             \/ Save(Completed(Loaded(readable), call[c]), readable, writable),
             forgotten' = forgotten \cup Hidden(readable),
             open' = IF intent[call[c].op] = call[c].intent
                       THEN open \ {call[c].op} ELSE open
      PROVE  Mirrors' /\ AllKept'
  <2>0. PICK op \in Operations : op = call[c].op
    BY <1>1 DEF Call
  <2> DEFINE state == Loaded(readable)
             left == Completed(state, call[c])
  <2>1. state \in Leases
    BY LoadedType
  <2>2. left \in Leases
    BY <1>1, <2>1, CompletedType
  <2>3. /\ \A o \in Operations \ {op} : left[o] = state[o]
        /\ left[op] = IF state[op] # NoLease /\ state[op].key = call[c].key
                        THEN NoLease ELSE state[op]
    BY <1>1, <2>0, <2>1, CompletedType
  <2> HIDE DEF left
  <2>4. Mirrors' /\ \A o \in Operations : Found(o)' = left[o]
    <3>1. CASE Save(left, readable, writable)
      BY <2>2, <3>1, FoundWhenSaved
    <3>2. CASE /\ left = state
               /\ memory' = state
               /\ unavailable' = (unavailable \/ ~readable)
               /\ UNCHANGED stored
      BY <3>2, FoundWhenLoaded
    <3> QED BY <1>3, <3>1, <3>2 DEF left
  <2>5. \A o \in Operations \ forgotten' : state[o] = Found(o) /\ Kept(o)
    BY <1>3, FoundUnlessHidden DEF AllKept
  <2>6. ASSUME NEW o \in Operations \ forgotten', o # op
        PROVE  Kept(o)'
    BY <1>1, <1>3, <2>0, <2>3, <2>4, <2>5, <2>6, StaysKept
  <2>7. CASE op \notin forgotten'
    <3>1. Kept(op) /\ state[op] = Found(op)
      BY <2>5, <2>7
    <3>2. Used(c) \in Uses /\ Used(c).op = op
      BY <2>0 DEF Used, Uses, InUse, Answered
    <3>3. op \in open => (call[c].key = Found(op).key <=> call[c].intent = intent[op])
      BY <3>1, <3>2 DEF Kept, Used
    <3>6. op \in open <=> Found(op) # NoLease
      BY <3>1 DEF Kept
    <3>7. open' = IF intent[op] = call[c].intent THEN open \ {op} ELSE open
      BY <1>3, <2>0
    <3>4. CASE op \in open /\ intent[op] = call[c].intent
      <4>1. left[op] = NoLease
        BY <2>3, <3>1, <3>3, <3>4, <3>6
      <4>2. Found(op)' = NoLease /\ op \notin open'
        BY <2>4, <3>4, <3>7, <4>1
      <4>3. Kept(op)'
        BY <1>1, <3>1, <4>2 DEF Kept
      <4> QED BY <2>4, <2>6, <4>3 DEF AllKept
    <3>5. CASE ~(op \in open /\ intent[op] = call[c].intent)
      <4>1. left[op] = Found(op)
        BY <2>3, <3>1, <3>3, <3>5, <3>6
      <4>2. op \in open' <=> op \in open
        BY <3>5, <3>7
      <4>3. Kept(op)'
        BY <1>1, <2>4, <3>1, <4>1, <4>2, StaysKept
      <4> QED BY <2>4, <2>6, <4>3 DEF AllKept
    <3> QED BY <3>4, <3>5
  <2> QED BY <2>4, <2>6, <2>7 DEF AllKept
<1> QED BY <1>2, <1>3, AnsweredLeases

(* The backend, a new page and time leave the leases to their intents.     *)
LEMMA OthersKept ==
  ASSUME LeasesInv,
         \/ \E c \in Calls : Accept(c) \/ Refuse(c)
         \/ Reload
         \/ Tick
  PROVE  Mirrors' /\ AllKept'
<1> USE DEF LeasesInv
<1>1. CASE \E c \in Calls : Accept(c) \/ Refuse(c)
  <2>1. /\ Uses' \subseteq Uses
        /\ UNCHANGED <<memory, stored, unavailable, intent, open, forgotten>>
    BY <1>1, AcceptUses DEF Accept, Refuse
  <2>2. Mirrors' /\ \A o \in Operations : Found(o)' = Found(o)
    BY <2>1, FoundUnchanged
  <2> QED BY <2>1, <2>2, StaysKept DEF AllKept
<1>2. CASE Reload
  <2>1. Uses' \subseteq Uses /\ UNCHANGED <<intent, open>> /\ forgotten \subseteq forgotten'
    BY <1>2, ReloadUses DEF Reload
  <2>2. Mirrors' /\ \A o \in Operations \ forgotten' : Found(o)' = Found(o)
    BY <1>2, FoundWhenReloaded
  <2> QED BY <2>1, <2>2, StaysKept DEF AllKept
<1>3. CASE Tick
  <2>1. Uses' \subseteq Uses /\ UNCHANGED <<intent, open>> /\ forgotten \subseteq forgotten'
    BY <1>3, TickUses DEF Tick
  <2>2. /\ Mirrors'
        /\ \A o \in Operations \ forgotten' :
             /\ Found(o)' = NoLease <=> Found(o) = NoLease
             /\ Found(o) # NoLease => Found(o)'.key = Found(o).key
    BY <1>3, FoundWhenAged
  <2> QED BY <2>1, <2>2, StaysKept DEF AllKept
<1> QED BY <1>1, <1>2, <1>3

-----------------------------------------------------------------------------
(* The theorems *)

(* LeasesInv holds at first. *)
LEMMA LeasesInitially ==
  ASSUME LeasesInit
  PROVE  LeasesInv
<1>1. LeasesTypeOK
  <2>1. memory \in Leases /\ stored \in Leases
    BY DEF LeasesInit, Leases, NoLeases
  <2>2. call \in [Calls -> Call \cup {NoCall}]
    BY DEF LeasesInit
  <2>3. issued \in 0..MaxKeys /\ intent \in [Operations -> 0..MaxIntents]
    BY LeaseBounds DEF LeasesInit
  <2> QED BY <2>1, <2>2, <2>3 DEF LeasesInit, LeasesTypeOK
<1>2. Uses = {}
  BY DEF LeasesInit, Uses, InUse
<1>3. \A o \in Operations : memory[o] = NoLease /\ stored[o] = NoLease
  BY DEF LeasesInit, NoLeases
<1>4. \A o \in Operations : Found(o) = NoLease
  BY <1>3 DEF Found, Loaded
<1>5. KeyOwned
  BY <1>2, <1>3 DEF KeyOwned, Holds
<1>6. KnownIntents /\ Mirrors /\ AcceptedIsMade
  BY <1>2, <1>3 DEF LeasesInit, KnownIntents, Mirrors, AcceptedIsMade
<1>7. AllKept
  BY <1>2, <1>4 DEF LeasesInit, AllKept, Kept
<1> QED BY <1>1, <1>5, <1>6, <1>7 DEF LeasesInv

(* Every step keeps LeasesInv. *)
LEMMA LeasesStep ==
  ASSUME LeasesInv, [LeasesNext]_leasesVars
  PROVE  LeasesInv'
<1>1. ASSUME NEW c \in Calls, NEW o \in Operations, SubmitAgain(c, o)
      PROVE  LeasesInv'
  <2>1. \E readable \in BOOLEAN : Send(c, o, Loaded(readable)[o].key) /\ Loaded(readable)[o] # NoLease
    BY <1>1 DEF SubmitAgain
  <2>2. \E key \in LeaseKeys : Send(c, o, key)
    <3>1. PICK readable \in BOOLEAN :
            Send(c, o, Loaded(readable)[o].key) /\ Loaded(readable)[o] # NoLease
      BY <2>1
    <3>2. Loaded(readable)[o].key \in LeaseKeys
      BY <3>1, LoadedType DEF LeasesInv, Leases, Lease
    <3> QED BY <3>1, <3>2
  <2>3. KnownIntents' /\ AcceptedIsMade'
    BY <2>2, SendIntents, OthersMakeNothing DEF LeasesInv
  <2> QED BY <1>1, <2>3, SubmitTypes, SubmitAgainKeys, SubmitAgainKept DEF LeasesInv
<1>2. ASSUME NEW c \in Calls, NEW o \in Operations, SubmitFirst(c, o)
      PROVE  LeasesInv'
  <2>1. Send(c, o, issued + 1) /\ issued < MaxKeys
    BY <1>2 DEF SubmitFirst
  <2>2. issued + 1 \in LeaseKeys
    BY <2>1, LeaseBounds DEF LeasesInv, LeasesTypeOK, LeaseKeys
  <2>3. KnownIntents' /\ AcceptedIsMade'
    BY <2>1, <2>2, SendIntents, OthersMakeNothing DEF LeasesInv
  <2> QED BY <1>2, <2>3, SubmitTypes, SubmitFirstKeys, SubmitFirstKept DEF LeasesInv
<1>3. ASSUME NEW c \in Calls, Accept(c)
      PROVE  LeasesInv'
  <2>1. KnownIntents'
    BY <1>3, AcceptUses, IntentsStayKnown DEF Accept, LeasesInv
  <2> QED BY <1>3, <2>1, AcceptTypes, AcceptMakes, OtherKeys, OthersKept DEF LeasesInv
<1>4. ASSUME NEW c \in Calls, Refuse(c)
      PROVE  LeasesInv'
  <2>1. KnownIntents'
    BY <1>4, AcceptUses, IntentsStayKnown DEF Refuse, LeasesInv
  <2> QED BY <1>4, <2>1, RefuseTypes, OthersMakeNothing, OtherKeys, OthersKept DEF LeasesInv
<1>5. ASSUME NEW c \in Calls, Answered(c)
      PROVE  LeasesInv'
  <2>1. KnownIntents'
    <3>1. Uses' \subseteq Uses /\ UNCHANGED intent /\ open' \subseteq open
      BY <1>5, AnsweredUses, AnsweredLeases DEF LeasesInv
    <3> QED BY <3>1, IntentsStayKnown DEF LeasesInv
  <2> QED BY <1>5, <2>1, AnsweredTypes, OthersMakeNothing, AnsweredKeys, AnsweredKept DEF LeasesInv
<1>6. CASE Reload
  <2>1. KnownIntents'
    BY <1>6, ReloadUses, IntentsStayKnown DEF Reload, LeasesInv
  <2> QED BY <1>6, <2>1, ReloadTypes, OthersMakeNothing, OtherKeys, OthersKept DEF LeasesInv
<1>7. CASE Tick
  <2>1. KnownIntents'
    BY <1>7, TickUses, IntentsStayKnown DEF Tick, LeasesInv
  <2> QED BY <1>7, <2>1, TickTypes, OthersMakeNothing, OtherKeys, OthersKept DEF LeasesInv
<1>8. CASE UNCHANGED leasesVars
  <2>1. Uses' = Uses /\ \A o \in Operations : Found(o)' = Found(o)
    BY <1>8 DEF leasesVars, Uses, InUse, Used, Found, Loaded
  <2>2. LeasesTypeOK' /\ KnownIntents' /\ Mirrors' /\ AcceptedIsMade'
    BY <1>8, <2>1 DEF leasesVars, LeasesInv, LeasesTypeOK, KnownIntents, Mirrors, AcceptedIsMade
  <2>3. KeyOwned'
    BY <1>8, <2>1, KeysStayOwned DEF leasesVars, LeasesInv, NoNewLease
  <2>4. AllKept'
    BY <1>8, <2>1, StaysKept DEF leasesVars, LeasesInv, AllKept
  <2> QED BY <2>2, <2>3, <2>4 DEF LeasesInv
<1> QED BY <1>1, <1>2, <1>3, <1>4, <1>5, <1>6, <1>7, <1>8 DEF LeasesNext

(* LeasesInv holds in every state. *)
LEMMA LeasesInvariant == LeasesSpec => []LeasesInv
<1>1. LeasesInit => LeasesInv
  BY LeasesInitially
<1>2. LeasesInv /\ [LeasesNext]_leasesVars => LeasesInv'
  BY LeasesStep
<1> QED BY <1>1, <1>2, PTL DEF LeasesSpec

(* Every variable of the leases always has its type; how many leases there *)
(* may be is LeasesStayBounded.                                            *)
THEOREM LeasesTypeCorrect == LeasesSpec => []LeasesTypeOK
<1>1. LeasesInv => LeasesTypeOK
  BY DEF LeasesInv
<1> QED BY <1>1, LeasesInvariant, PTL

(* Two tasks of one intent have one key, hence are one task. *)
LEMMA TasksOfOneKey ==
  ASSUME LeasesInv
  PROVE  \A t, u \in tasks :
           t.op = u.op /\ t.op \notin forgotten => (t.key = u.key <=> t.intent = u.intent)
<1>1. tasks \subseteq Task /\ tasks \subseteq Uses
  BY DEF LeasesInv, LeasesTypeOK, Uses
<1> QED BY <1>1 DEF LeasesInv, AllKept, Kept, Task

(* The tasks of one key are one task, and of the call with that key. *)
LEMMA KeyIsOneSubmission ==
  ASSUME LeasesInv
  PROVE  \A x, y \in Uses :
           x.key = y.key /\ x.op \notin forgotten => x = y
<1> SUFFICES ASSUME NEW x \in Uses, NEW y \in Uses,
                    x.key = y.key, x.op \notin forgotten
             PROVE  x = y
  OBVIOUS
<1>1. x \in Task /\ y \in Task
  BY UsesType DEF LeasesInv
<1>2. x.op = y.op
  <2>1. Holds(x.op, x.key) /\ Holds(y.op, x.key)
    BY DEF Holds
  <2> QED BY <1>1, <2>1 DEF LeasesInv, KeyOwned, Task
<1>3. x.intent = y.intent
  BY <1>1, <1>2 DEF LeasesInv, AllKept, Kept, Task
<1> QED BY <1>1, <1>2, <1>3 DEF Task

(* However often an operation is submitted until a 202 is seen, it makes   *)
(* one task.                                                               *)
THEOREM OneTaskForOneIntent == LeasesSpec => []OneTaskPerIntent
<1>1. LeasesInv => OneTaskPerIntent
  <2> SUFFICES ASSUME LeasesInv, NEW t \in tasks, NEW u \in tasks,
                      t.op = u.op, t.intent = u.intent, t.op \notin forgotten
               PROVE  t = u
    BY DEF OneTaskPerIntent
  <2>1. t.key = u.key
    BY TasksOfOneKey
  <2>2. t \in Uses /\ u \in Uses
    BY DEF Uses
  <2> QED BY <2>1, <2>2, KeyIsOneSubmission
<1> QED BY <1>1, LeasesInvariant, PTL

(* No call of a later submission is answered with a task of an earlier     *)
(* one, unless a lease of the operation ran out, was evicted or was left   *)
(* in a storage that fails: with a storage that works, fewer operations    *)
(* than the limit and none older than the retention, never.                *)
THEOREM NewTaskForNewIntent == LeasesSpec => []NewIntentNewTask
<1>1. LeasesInv => NewIntentNewTask
  <2> SUFFICES ASSUME LeasesInv, NEW c \in Calls, NEW t \in tasks,
                      call[c] # NoCall, call[c].key = t.key, t.op \notin forgotten
               PROVE  t.op = call[c].op /\ t.intent = call[c].intent
    BY DEF NewIntentNewTask
  <2>1. t \in Uses /\ Used(c) \in Uses
    BY DEF Uses, InUse
  <2>2. t = Used(c)
    BY <2>1, KeyIsOneSubmission DEF Used
  <2> QED BY <2>2 DEF Used
<1> QED BY <1>1, LeasesInvariant, PTL

-----------------------------------------------------------------------------
(* The limit.  Two copies of the leases are merged whenever they are read, *)
(* and one lease is evicted at most: the limit holds because one of the    *)
(* copies is always a part of the other.                                   *)

WithinLimit(state) ==
  IsFiniteSet(Entries(state)) /\ Cardinality(Entries(state)) <= MaxEntries

(* Neither copy ever has more leases than MAX_OPERATION_IDEMPOTENCY_ENTRIES.*)
LeasesBounded == WithinLimit(memory) /\ WithinLimit(stored)

(* While the storage works, the page remembers what is stored, or nothing. *)
OneCopy == ~unavailable => memory = NoLeases \/ memory = stored

(* Fewer leases are within the limit. *)
LEMMA FewerLeases ==
  ASSUME NEW s, NEW t, WithinLimit(s), Entries(t) \subseteq Entries(s)
  PROVE  WithinLimit(t)
<1>1. /\ IsFiniteSet(Entries(t))
      /\ Cardinality(Entries(t)) <= Cardinality(Entries(s))
  BY FS_Subset DEF WithinLimit
<1>2. Cardinality(Entries(t)) \in Nat /\ Cardinality(Entries(s)) \in Nat
  BY <1>1, FS_CardinalityType DEF WithinLimit
<1> QED BY <1>1, <1>2, LeaseBounds DEF WithinLimit

(* What is loaded is one of the copies, and the stored one if it is read. *)
LEMMA LoadedIsACopy ==
  ASSUME LeasesTypeOK, OneCopy, LeasesBounded, NEW readable \in BOOLEAN
  PROVE  /\ WithinLimit(Loaded(readable))
         /\ ~unavailable /\ readable => Loaded(readable) = stored
<1>1. CASE unavailable \/ ~readable
  BY <1>1 DEF Loaded, LeasesBounded
<1>2. CASE ~unavailable /\ readable
  <2>1. Loaded(readable) =
          [o \in Operations |-> IF stored[o] # NoLease THEN stored[o] ELSE memory[o]]
    BY <1>2 DEF Loaded
  <2>2. \A o \in Operations :
          (IF stored[o] # NoLease THEN stored[o] ELSE memory[o]) = stored[o]
    BY <1>2 DEF OneCopy, NoLeases
  <2>3. stored = [o \in Operations |-> stored[o]]
    BY DEF LeasesTypeOK, Leases
  <2>4. Loaded(readable) = stored
    BY <2>1, <2>2, <2>3
  <2> QED BY <1>2, <2>4 DEF LeasesBounded
<1> QED BY <1>1, <1>2

(* acquire makes room for the lease that it adds. *)
LEMMA RoomIsMade ==
  ASSUME NEW state, WithinLimit(state), NEW o \in Operations, NEW lease,
         NEW evicted \in {{}} \cup {{p} : p \in Oldest(state)},
         evicted = {} <=> Cardinality(Entries(state)) < MaxEntries
  PROVE  WithinLimit([p \in Operations |->
                        IF p = o THEN lease
                        ELSE IF p \in evicted THEN NoLease ELSE state[p]])
<1> DEFINE after == [p \in Operations |->
                       IF p = o THEN lease
                       ELSE IF p \in evicted THEN NoLease ELSE state[p]]
           left == Entries(state) \ evicted
<1>1. Entries(after) \subseteq left \cup {o}
  BY DEF Entries
<1>2. IsFiniteSet(left) /\ Cardinality(left) + 1 <= MaxEntries
  <2>1. Cardinality(Entries(state)) \in Nat /\ IsFiniteSet(Entries(state))
    BY FS_CardinalityType DEF WithinLimit
  <2>2. CASE evicted = {}
    <3>1. left = Entries(state)
      BY <2>2
    <3> QED BY <2>1, <2>2, <3>1, LeaseBounds
  <2>3. ASSUME NEW p \in Oldest(state), evicted = {p}
        PROVE  IsFiniteSet(left) /\ Cardinality(left) + 1 <= MaxEntries
    <3>1. p \in Entries(state) /\ left = Entries(state) \ {p}
      BY <2>3 DEF Oldest
    <3>2. IsFiniteSet(left) /\ Cardinality(left) = Cardinality(Entries(state)) - 1
      BY <2>1, <3>1, FS_RemoveElement
    <3> QED BY <2>1, <3>2, LeaseBounds DEF WithinLimit
  <2> QED BY <2>2, <2>3
<1>3. /\ IsFiniteSet(left \cup {o})
      /\ Cardinality(left \cup {o}) <= MaxEntries
  <2>1. Cardinality(left) \in Nat
    BY <1>2, FS_CardinalityType
  <2>2. /\ IsFiniteSet(left \cup {o})
        /\ \/ Cardinality(left \cup {o}) = Cardinality(left)
           \/ Cardinality(left \cup {o}) = Cardinality(left) + 1
    BY <1>2, FS_AddElement
  <2> QED BY <1>2, <2>1, <2>2, LeaseBounds
<1>4. /\ IsFiniteSet(Entries(after))
      /\ Cardinality(Entries(after)) <= Cardinality(left \cup {o})
  BY <1>1, <1>3, FS_Subset
<1>5. Cardinality(Entries(after)) \in Nat /\ Cardinality(left \cup {o}) \in Nat
  BY <1>3, <1>4, FS_CardinalityType
<1> QED BY <1>3, <1>4, <1>5, LeaseBounds DEF WithinLimit

(* Saving leases within the limit keeps both copies in it, and one copy.   *)
LEMMA SavedIsBounded ==
  ASSUME LeasesBounded, OneCopy, NEW state, WithinLimit(state),
         NEW readable \in BOOLEAN, NEW writable \in BOOLEAN,
         Save(state, readable, writable)
  PROVE  LeasesBounded' /\ OneCopy'
<1>1. memory' = state /\ stored' \in {stored, state}
  BY DEF Save
<1>2. ~unavailable' => stored' = state
  BY DEF Save
<1> QED BY <1>1, <1>2 DEF LeasesBounded, WithinLimit, Entries, OneCopy

(* So does loading them. *)
LEMMA ReadIsBounded ==
  ASSUME LeasesTypeOK, LeasesBounded, OneCopy, NEW readable \in BOOLEAN,
         memory' = Loaded(readable), unavailable' = (unavailable \/ ~readable),
         stored' = stored
  PROVE  LeasesBounded' /\ OneCopy'
<1>1. WithinLimit(Loaded(readable))
  BY LoadedIsACopy
<1>2. ~unavailable' => memory' = stored'
  BY LoadedIsACopy
<1>3. WithinLimit(memory)'
  BY <1>1 DEF WithinLimit, Entries
<1>4. WithinLimit(stored)'
  BY DEF LeasesBounded, WithinLimit, Entries
<1> QED BY <1>2, <1>3, <1>4 DEF LeasesBounded, OneCopy

(* Every step keeps the limit. *)
LEMMA LimitStep ==
  ASSUME LeasesTypeOK, LeasesBounded, OneCopy, [LeasesNext]_leasesVars
  PROVE  LeasesBounded' /\ OneCopy'
<1>1. ASSUME NEW c \in Calls, NEW o \in Operations, SubmitAgain(c, o)
      PROVE  LeasesBounded' /\ OneCopy'
  <2>1. PICK readable \in BOOLEAN :
          /\ memory' = Loaded(readable)
          /\ unavailable' = (unavailable \/ ~readable)
          /\ stored' = stored
    BY <1>1 DEF SubmitAgain
  <2> QED BY <2>1, ReadIsBounded
<1>2. ASSUME NEW c \in Calls, NEW o \in Operations, SubmitFirst(c, o)
      PROVE  LeasesBounded' /\ OneCopy'
  <2>1. PICK readable \in BOOLEAN, writable \in BOOLEAN :
          \E evicted \in {{}} \cup {{p} : p \in Oldest(Loaded(readable))} :
            /\ evicted = {} <=> Cardinality(Entries(Loaded(readable))) < MaxEntries
            /\ Save([p \in Operations |->
                       IF p = o THEN [key |-> issued + 1, age |-> 0]
                       ELSE IF p \in evicted THEN NoLease ELSE Loaded(readable)[p]],
                    readable, writable)
    BY <1>2 DEF SubmitFirst
  <2>2. PICK evicted \in {{}} \cup {{p} : p \in Oldest(Loaded(readable))} :
          /\ evicted = {} <=> Cardinality(Entries(Loaded(readable))) < MaxEntries
          /\ Save([p \in Operations |->
                     IF p = o THEN [key |-> issued + 1, age |-> 0]
                     ELSE IF p \in evicted THEN NoLease ELSE Loaded(readable)[p]],
                  readable, writable)
    BY <2>1
  <2> DEFINE after == [p \in Operations |->
                         IF p = o THEN [key |-> issued + 1, age |-> 0]
                         ELSE IF p \in evicted THEN NoLease ELSE Loaded(readable)[p]]
  <2>3. WithinLimit(Loaded(readable))
    BY LoadedIsACopy
  <2>4. WithinLimit(after)
    BY <2>2, <2>3, RoomIsMade
  <2>5. Save(after, readable, writable)
    BY <2>2
  <2> HIDE DEF after
  <2> QED BY <2>4, <2>5, SavedIsBounded
<1>3. ASSUME NEW c \in Calls, Answered(c)
      PROVE  LeasesBounded' /\ OneCopy'
  <2>1. CASE UNCHANGED <<memory, stored, unavailable>>
    BY <2>1 DEF LeasesBounded, WithinLimit, Entries, OneCopy
  <2>2. ASSUME NEW readable \in BOOLEAN, memory' = Loaded(readable),
               unavailable' = (unavailable \/ ~readable), stored' = stored
        PROVE  LeasesBounded' /\ OneCopy'
    BY <2>2, ReadIsBounded
  <2>3. ASSUME NEW readable \in BOOLEAN, NEW writable \in BOOLEAN,
               Save(Completed(Loaded(readable), call[c]), readable, writable)
        PROVE  LeasesBounded' /\ OneCopy'
    <3> DEFINE after == Completed(Loaded(readable), call[c])
    <3>1. Entries(after) \subseteq Entries(Loaded(readable))
      <4>1. Loaded(readable) \in Leases
        BY LoadedType
      <4> QED BY <4>1 DEF Completed, Entries, Leases
    <3>2. WithinLimit(after)
      BY <3>1, LoadedIsACopy, FewerLeases
    <3>3. Save(after, readable, writable)
      BY <2>3
    <3> HIDE DEF after
    <3> QED BY <3>2, <3>3, SavedIsBounded
  <2> QED BY <1>3, <2>1, <2>2, <2>3, AnsweredLeases
<1>4. CASE Reload
  <2>1. memory' = NoLeases /\ stored' = stored
    BY <1>4 DEF Reload
  <2>2. Entries(NoLeases) = {}
    BY DEF Entries, NoLeases
  <2>3. WithinLimit(NoLeases)
    BY <2>2, FewerLeases DEF LeasesBounded
  <2>4. WithinLimit(memory)' /\ WithinLimit(stored)'
    BY <2>1, <2>3 DEF LeasesBounded, WithinLimit, Entries
  <2> QED BY <2>1, <2>4 DEF LeasesBounded, OneCopy
<1>5. CASE Tick
  <2>1. memory' = Aged(memory) /\ stored' = Aged(stored) /\ UNCHANGED unavailable
    BY <1>5 DEF Tick
  <2>2. \A s : Entries(Aged(s)) \subseteq Entries(s)
    BY DEF Entries, Aged
  <2>3. WithinLimit(Aged(memory)) /\ WithinLimit(Aged(stored))
    BY <2>2, FewerLeases DEF LeasesBounded
  <2>4. WithinLimit(memory)' /\ WithinLimit(stored)'
    BY <2>1, <2>3 DEF WithinLimit, Entries
  <2>5. Aged(NoLeases) = NoLeases
    BY DEF Aged, NoLeases
  <2> QED BY <2>1, <2>4, <2>5 DEF LeasesBounded, OneCopy
<1>6. CASE UNCHANGED <<memory, stored, unavailable>>
  BY <1>6 DEF LeasesBounded, WithinLimit, Entries, OneCopy
<1> QED BY <1>1, <1>2, <1>3, <1>4, <1>5, <1>6
        DEF LeasesNext, leasesVars, Accept, Refuse

(* For any number of operations and calls, whatever fails: neither the     *)
(* page nor the storage ever has more leases than the limit, although the  *)
(* two are merged each time they are read and one is evicted at most.      *)
THEOREM LeasesStayBounded == LeasesSpec => []LeasesBounded
<1>1. LeasesInit => LeasesBounded /\ OneCopy
  <2> SUFFICES ASSUME LeasesInit PROVE LeasesBounded /\ OneCopy
    OBVIOUS
  <2>1. Entries(NoLeases) = {} /\ memory = NoLeases /\ stored = NoLeases
    BY DEF LeasesInit, Entries, NoLeases
  <2>2. WithinLimit(NoLeases)
    BY <2>1, FS_EmptySet, LeaseBounds DEF WithinLimit
  <2> QED BY <2>1, <2>2 DEF LeasesBounded, OneCopy
<1>2. LeasesTypeOK /\ LeasesBounded /\ OneCopy /\ [LeasesNext]_leasesVars
        => LeasesBounded' /\ OneCopy'
  BY LimitStep
<1> QED BY <1>1, <1>2, LeasesTypeCorrect, PTL DEF LeasesSpec

-----------------------------------------------------------------------------
(* The refinement *)

(* The leases start as the promise does. *)
LEMMA PromiseInitially ==
  ASSUME LeasesInit
  PROVE  Submitted!Init
BY DEF LeasesInit, Submitted!Init

(* A submission means its operation anew, or does nothing of the promise.  *)
LEMMA SendKeepsPromise ==
  ASSUME LeasesInv, NEW c \in Calls, NEW o \in Operations, NEW key, Send(c, o, key)
  PROVE  Submitted!Mean(o) \/ UNCHANGED <<intent, open, tasks>>
<1>1. CASE o \in open
  BY <1>1 DEF Send, Meant, LeasesInv, LeasesTypeOK
<1>2. CASE o \notin open
  <2>1. intent[o] < MaxIntents
    BY <1>2, LeaseBounds DEF Send, Meant, LeasesInv, LeasesTypeOK
  <2> QED BY <1>2, <2>1 DEF Send, Meant, Submitted!Mean, LeasesInv, LeasesTypeOK
<1> QED BY <1>1, <1>2

(* The backend makes a task that the promise allows. *)
LEMMA AcceptKeepsPromise ==
  ASSUME LeasesInv, NEW c \in Calls, Accept(c)
  PROVE  \/ \E t \in Task : Submitted!Make(t)
         \/ UNCHANGED <<intent, open, tasks>>
<1>1. Used(c) \in Uses /\ Used(c) \in Task
  BY UsesType DEF Uses, InUse, Accept, LeasesInv
<1>2. CASE \E t \in tasks : t.key = call[c].key
  BY <1>2 DEF Accept
<1>3. CASE ~\E t \in tasks : t.key = call[c].key
  <2>1. tasks' = tasks \cup {Used(c)}
    BY <1>3 DEF Accept, Used
  <2>2. Used(c).intent \in 1..intent[Used(c).op]
    BY <1>1, LeaseBounds DEF LeasesInv, LeasesTypeOK, KnownIntents, Task, Intents
  <2>3. Used(c).op \in forgotten \/ \A u \in tasks : ~Submitted!SameIntent(Used(c), u)
    <3>1. \A u \in tasks : u \in Uses /\ u.key # Used(c).key
      BY <1>3 DEF Uses, Used
    <3> QED BY <1>1, <3>1 DEF LeasesInv, AllKept, Kept, Task, Submitted!SameIntent
  <2>4. UNCHANGED <<intent, open>>
    BY DEF Accept
  <2> QED BY <1>1, <2>1, <2>2, <2>3, <2>4 DEF Submitted!Make
<1> QED BY <1>2, <1>3

(* An intent is confirmed when its task is made. *)
LEMMA AnsweredKeepsPromise ==
  ASSUME LeasesInv, NEW c \in Calls, Answered(c)
  PROVE  \/ \E o \in Operations : Submitted!Confirm(o)
         \/ UNCHANGED <<intent, open, tasks>>
<1>1. UNCHANGED <<intent, tasks>> /\ call[c] \in Call
  BY AnsweredLeases DEF LeasesInv
<1> DEFINE o == call[c].op
<1>2. CASE o \in open /\ intent[o] = call[c].intent /\ open' # open
  <2>1. call[c].answer = "accepted" /\ open' = open \ {o}
    BY <1>2, AnsweredLeases DEF LeasesInv
  <2>2. o \in forgotten \/ \E t \in tasks : t.op = o /\ t.intent = intent[o]
    <3>1. PICK t \in tasks : t.key = call[c].key
      BY <2>1 DEF LeasesInv, AcceptedIsMade, Answered
    <3>2. t \in Uses /\ Used(c) \in Uses /\ Used(c).key = t.key
      BY <3>1 DEF Uses, InUse, Used, Answered
    <3>3. o \in forgotten \/ t = Used(c)
      BY <3>2, KeyIsOneSubmission DEF Used
    <3> QED BY <1>2, <3>3 DEF Used
  <2> QED BY <1>1, <1>2, <2>1, <2>2 DEF Submitted!Confirm, Call
<1>3. CASE ~(o \in open /\ intent[o] = call[c].intent /\ open' # open)
  <2>1. UNCHANGED open
    BY <1>3, AnsweredLeases DEF LeasesInv
  <2> QED BY <1>1, <2>1
<1> QED BY <1>2, <1>3

(* Every step of the leases is one of the promise. *)
LEMMA PromiseStep ==
  ASSUME LeasesInv, [LeasesNext]_leasesVars
  PROVE  [Submitted!Next]_Submitted!submittedVars
<1>1. CASE UNCHANGED leasesVars
  BY <1>1 DEF leasesVars, Submitted!submittedVars
<1>2. CASE LeasesNext
  <2>1. forgotten \subseteq forgotten'
    BY <1>2, AnsweredLeases DEF LeasesNext, SubmitAgain, SubmitFirst, Accept, Refuse,
      Reload, Tick, LeasesInv
  <2>2. CASE \E c \in Calls, o \in Operations : SubmitAgain(c, o) \/ SubmitFirst(c, o)
    <3>1. PICK c \in Calls, o \in Operations : \E key : Send(c, o, key)
      BY <2>2 DEF SubmitAgain, SubmitFirst
    <3> QED BY <2>1, <3>1, SendKeepsPromise DEF Submitted!Next
  <2>3. CASE \E c \in Calls : Accept(c)
    BY <2>1, <2>3, AcceptKeepsPromise DEF Submitted!Next
  <2>4. CASE \E c \in Calls : Answered(c)
    BY <2>1, <2>4, AnsweredKeepsPromise DEF Submitted!Next
  <2>5. CASE \/ \E c \in Calls : Refuse(c)
             \/ Reload
             \/ Tick
    BY <2>1, <2>5 DEF Refuse, Reload, Tick, Submitted!Next
  <2> QED BY <1>2, <2>2, <2>3, <2>4, <2>5 DEF LeasesNext
<1> QED BY <1>1, <1>2

(* The leases keep the promise of SubmittedTasks. *)
THEOREM LeasesKeepPromise == LeasesSpec => KeepsPromise
<1>1. LeasesInit => Submitted!Init
  BY PromiseInitially
<1>2. LeasesInv /\ [LeasesNext]_leasesVars => [Submitted!Next]_Submitted!submittedVars
  BY PromiseStep
<1> QED BY <1>1, <1>2, LeasesInvariant, PTL DEF LeasesSpec, KeepsPromise, Submitted!Spec

-----------------------------------------------------------------------------
(* What the promise itself gives, whoever keeps it *)

(* What the user was told is done has its task: the lease of an operation  *)
(* is dropped only when one of its calls has made the task, whatever else  *)
(* failed before, unless the promise was given up for the operation.       *)
ConfirmedIsMade ==
  \A o \in Operations :
    intent[o] # 0 /\ o \notin open /\ o \notin forgotten =>
      \E t \in tasks : t.op = o /\ t.intent = intent[o]

PromiseInv ==
  /\ intent \in [Operations -> Nat]
  /\ OneTaskPerIntent
  /\ ConfirmedIsMade

(* A step that the promise allows keeps the invariant. *)
LEMMA PromiseIsKept ==
  PromiseInv /\ [Submitted!Next]_Submitted!submittedVars => PromiseInv'
<1> SUFFICES ASSUME PromiseInv, [Submitted!Next]_Submitted!submittedVars
             PROVE  PromiseInv'
  OBVIOUS
<1> USE DEF PromiseInv, OneTaskPerIntent, ConfirmedIsMade
<1>1. CASE UNCHANGED Submitted!submittedVars
  BY <1>1 DEF Submitted!submittedVars
<1>2. CASE Submitted!Next
  <2>0. forgotten \subseteq forgotten'
    BY <1>2 DEF Submitted!Next
  <2>1. CASE UNCHANGED <<intent, open, tasks>>
    BY <2>0, <2>1
  <2>2. ASSUME NEW o \in Operations, Submitted!Mean(o) PROVE PromiseInv'
    BY <2>0, <2>2 DEF Submitted!Mean
  <2>3. ASSUME NEW o \in Operations, Submitted!Confirm(o) PROVE PromiseInv'
    BY <2>0, <2>3 DEF Submitted!Confirm
  <2>4. ASSUME NEW t \in Task, Submitted!Make(t) PROVE PromiseInv'
    <3>1. tasks' = tasks \cup {t} /\ UNCHANGED <<intent, open>>
      BY <2>4 DEF Submitted!Make
    <3>2. t.op \in forgotten \/
            \A u \in tasks : ~(t.op = u.op /\ t.intent = u.intent)
      BY <2>4 DEF Submitted!Make, Submitted!SameIntent
    <3> QED BY <2>0, <3>1, <3>2
  <2> QED BY <1>2, <2>1, <2>2, <2>3, <2>4 DEF Submitted!Next
<1> QED BY <1>1, <1>2

(* The promise of SubmittedTasks is worth its name: a call that keeps it   *)
(* makes one task for an intent, and confirms none that was not made.      *)
THEOREM PromiseIsEnough == KeepsPromise => [](OneTaskPerIntent /\ ConfirmedIsMade)
<1>1. Submitted!Init => PromiseInv
  BY DEF Submitted!Init, PromiseInv, OneTaskPerIntent, ConfirmedIsMade
<1>2. PromiseInv => OneTaskPerIntent /\ ConfirmedIsMade
  BY DEF PromiseInv
<1> QED BY <1>1, <1>2, PromiseIsKept, PTL DEF KeepsPromise, Submitted!Spec

(* So the leases confirm nothing that was not made.                        *)
THEOREM ConfirmedWasMade == LeasesSpec => []ConfirmedIsMade
BY LeasesKeepPromise, PromiseIsEnough, PTL
=============================================================================
