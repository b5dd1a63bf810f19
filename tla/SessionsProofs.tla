--------------------------- MODULE SessionsProofs ---------------------------
(***************************************************************************)
(* Proofs about Sessions, for any number of pods, requests and failures.   *)
(*                                                                         *)
(* The inductive invariant IInv says of every request that it is in order  *)
(* by itself (Local: it has the session it works for, leads the hydration  *)
(* or validation it runs, knows a true verdict) and of every connection    *)
(* that its commands and the requests that await them match.  A step of    *)
(* one request keeps it if that request is in order afterwards and the     *)
(* connections are rewired for it alone (AloneKeeps); the answers that     *)
(* reach several requests at once are treated by StepKeeps.                *)
(*                                                                         *)
(* EndInv adds to it which sessions nothing will make any more.  What a    *)
(* step may do to a request (Moves) and to the commands (WireEvolves) is   *)
(* enough to keep it (EndKept), and every step is of that kind             *)
(* (StepEvolves).                                                          *)
(***************************************************************************)
EXTENDS Sessions, SequenceTheorems, TLAPS

-----------------------------------------------------------------------------
(* What can happen to the commands of one connection                       *)

\* The command at place i of a connection is c instead.
LEMMA Replaced ==
    ASSUME TypeOK, NEW p \in Pods, NEW i \in 1..Len(wire[p]),
           NEW c \in Commands
    PROVE  [wire[p] EXCEPT ![i] = c] \in Seq(Commands)
BY ExceptSeq DEF TypeOK

\* The oldest command is answered.
LEMMA Shortened ==
    ASSUME TypeOK, NEW p \in Pods, wire[p] # <<>>
    PROVE  /\ Tail(wire[p]) \in Seq(Commands)
           /\ Len(Tail(wire[p])) = Len(wire[p]) - 1
           /\ \A i \in 1..Len(Tail(wire[p])) : Tail(wire[p])[i] = wire[p][i + 1]
           /\ 1 \in 1..Len(wire[p]) /\ Head(wire[p]) = wire[p][1]
<1>1. wire[p] \in Seq(Commands)
  BY DEF TypeOK
<1> QED BY <1>1, HeadTailProperties, EmptySeq

\* A command never sent is forgotten.
LEMMA Removed ==
    ASSUME TypeOK, NEW p \in Pods, NEW i \in 1..Len(wire[p])
    PROVE  LET w == SubSeq(wire[p], 1, i - 1)
                       \o SubSeq(wire[p], i + 1, Len(wire[p]))
           IN  /\ w \in Seq(Commands)
               /\ Len(w) = Len(wire[p]) - 1
               /\ \A j \in 1..Len(w) :
                     w[j] = IF j < i THEN wire[p][j] ELSE wire[p][j + 1]
<1> DEFINE s == wire[p]
           a == SubSeq(s, 1, i - 1)
           b == SubSeq(s, i + 1, Len(s))
<1>1. s \in Seq(Commands) /\ Len(s) \in Nat
  BY LenProperties DEF TypeOK
<1>2. \A j \in 1..Len(s) : s[j] \in Commands
  BY <1>1, ElementOfSeq
<1> HIDE DEF s
<1>3. /\ a \in Seq(Commands) /\ Len(a) = i - 1
      /\ \A j \in 1..(i - 1) : a[j] = s[j]
  <2>0. i \in 1..Len(s)
    BY DEF s
  <2>1. \A j \in 1..(i - 1) : s[j] \in Commands
    BY <1>1, <1>2, <2>0
  <2>2. /\ a \in Seq(Commands)
        /\ Len(a) = IF 1 <= i - 1 THEN (i - 1) - 1 + 1 ELSE 0
        /\ \A j \in 1..((i - 1) - 1 + 1) : a[j] = s[1 + j - 1]
    BY <1>1, <2>0, <2>1, SubSeqProperties
  <2> QED BY <1>1, <2>0, <2>2
<1>4. /\ b \in Seq(Commands) /\ Len(b) = Len(s) - i
      /\ \A j \in 1..(Len(s) - i) : b[j] = s[i + j]
  <2>0. i \in 1..Len(s)
    BY DEF s
  <2>1. \A j \in (i + 1)..Len(s) : s[j] \in Commands
    BY <1>1, <1>2, <2>0
  <2>2. /\ b \in Seq(Commands)
        /\ Len(b) = IF i + 1 <= Len(s) THEN Len(s) - (i + 1) + 1 ELSE 0
        /\ \A j \in 1..(Len(s) - (i + 1) + 1) : b[j] = s[i + 1 + j - 1]
    BY <1>1, <2>0, <2>1, SubSeqProperties
  <2> QED BY <1>1, <2>0, <2>2
<1> HIDE DEF a, b
<1>5. /\ a \o b \in Seq(Commands)
      /\ Len(a \o b) = Len(a) + Len(b)
      /\ \A j \in 1..(Len(a) + Len(b)) :
            (a \o b)[j] = IF j <= Len(a) THEN a[j] ELSE b[j - Len(a)]
  BY <1>3, <1>4, ConcatProperties
<1>6. /\ Len(a \o b) = Len(s) - 1
      /\ \A j \in 1..Len(a \o b) : (a \o b)[j] = IF j < i THEN s[j] ELSE s[j + 1]
  <2>0. i \in 1..Len(s)
    BY DEF s
  <2>1. Len(a \o b) = Len(s) - 1 /\ Len(a) + Len(b) = Len(s) - 1
    BY <1>1, <1>3, <1>4, <1>5, <2>0
  <2>2. ASSUME NEW j \in 1..(Len(s) - 1)
        PROVE  (a \o b)[j] = IF j < i THEN s[j] ELSE s[j + 1]
    <3>1. CASE j < i
      <4>1. j \in 1..(i - 1) /\ j <= Len(a)
        BY <3>1, <1>1, <1>3, <2>0
      <4> QED BY <3>1, <4>1, <1>3, <1>5, <2>1
    <3>2. CASE ~(j < i)
      <4>1. /\ j - (i - 1) \in 1..(Len(s) - i) /\ ~(j <= Len(a))
            /\ i + (j - (i - 1)) = j + 1 /\ Len(a) = i - 1
        BY <3>2, <1>1, <1>3, <2>0
      <4>2. (a \o b)[j] = b[j - (i - 1)]
        BY <4>1, <1>5, <2>1
      <4>3. b[j - (i - 1)] = s[i + (j - (i - 1))]
        BY <4>1, <1>4
      <4> QED BY <3>2, <4>1, <4>2, <4>3
    <3> QED BY <3>1, <3>2
  <2> QED BY <2>1, <2>2
<1> QED BY <1>5, <1>6 DEF s, a, b

-----------------------------------------------------------------------------
(* The inductive invariant                                                 *)

Carrying == CommandPcs \union (BackendPcs \ {"login"}) \union SharedPcs
                \union {"validated"}

\* A request that works for a session has one.
Carries(r) ==
    /\ pc[r] \in Carrying => sid[r] \in Sids
    /\ pc[r] = "hydrated" /\ got[r] = "session" => sid[r] \in Sids

CarriesSession == \A r \in Requests : Carries(r)

\* Who runs a hydration or a validation is its own leader; who shares a
\* validation has a leader that still runs it, for the same session.
Led(r) ==
    /\ pc[r] \in {"get", "touch", "validate"} => leader[r] = r
    /\ pc[r] = "sharing" => /\ leader[r] \in Requests
                           /\ pc[leader[r]] = "validate"
                           /\ pod[leader[r]] = pod[r]
                           /\ sid[leader[r]] = sid[r]

\* Only a validation has a verdict, and it stays true.
VerdictTrue(r) ==
    /\ verdict[r] # "pending"
          => pc[r] \in {"validate", "validated", "del", "answered", "done"}
    /\ verdict[r] = "expired" => sid[r] \in Sids /\ token[sid[r]] = "dead"

\* Two of the backend calls belong to one kind of request.
CallOfKind(r) ==
    /\ pc[r] = "signout" => kind[r] = "logout"
    /\ pc[r] = "identify" => kind[r] = "settings"

\* A request that destroys a session knows that its token is dead, unless
\* its handler does so whatever the backend says.
EndsRejected(r) ==
    pc[r] = "del" /\ kind[r] \notin {"logout", "settings"}
        => token[sid[r]] = "dead"

Local(r) == /\ Carries(r) /\ Led(r) /\ VerdictTrue(r)
            /\ CallOfKind(r) /\ EndsRejected(r)

\* The request that awaits a command, if any, is waiting for that command.
Matches(p, c) ==
    c.by # Nobody => pc[c.by] = c.op /\ pod[c.by] = p /\ sid[c.by] = c.sid

WireMatched ==
    \A p \in Pods : \A i \in 1..Len(wire[p]) :
        /\ Matches(p, wire[p][i])
        /\ \A j \in 1..Len(wire[p]) :
              wire[p][i].by = wire[p][j].by => i = j \/ wire[p][i].by = Nobody

IInv ==
    /\ TypeOK
    /\ \A r \in Requests : Local(r)
    /\ WireMatched
    /\ PendingIsRunning

\* Of the parts of the invariant that the lemmas on types need.
LEMMA Parts ==
    ASSUME IInv
    PROVE  TypeOK /\ CarriesSession /\ WireMatched /\ PendingIsRunning
BY DEF IInv, Local, CarriesSession

\* Whoever deletes a session waits for that, so the invariant has it that no
\* session is signed out without the backend's word.
LEMMA NotSignedOut ==
    ASSUME IInv
    PROVE  SignedOutOnlyIfRejected
<1> SUFFICES ASSUME NEW p \in Pods, NEW i \in 1..Len(wire[p]),
                    wire[p][i].op = "del", wire[p][i].by # Nobody,
                    kind[wire[p][i].by] \notin {"logout", "settings"}
             PROVE  token[wire[p][i].sid] = "dead"
  <2>1. \A p \in Pods : DOMAIN wire[p] = 1..Len(wire[p])
    BY LenProperties DEF IInv, TypeOK
  <2> QED BY <2>1 DEF SignedOutOnlyIfRejected, Ending
<1>1. wire[p][i] \in Commands
  BY ElementOfSeq DEF IInv, TypeOK
<1>2. wire[p][i].by \in Requests
  BY <1>1 DEF Commands
<1>3. /\ pc[wire[p][i].by] = "del"
      /\ sid[wire[p][i].by] = wire[p][i].sid
  BY DEF IInv, WireMatched, Matches
<1> QED BY <1>2, <1>3 DEF IInv, Local, EndsRejected

-----------------------------------------------------------------------------
(* Types                                                                   *)

\* A request moves to a program point.
LEMMA GoToType ==
    ASSUME TypeOK, NEW r \in Requests, NEW where \in Pcs, GoTo(r, where)
    PROVE  pc' \in [Requests -> Pcs]
BY DEF TypeOK, GoTo

\* A request sends a command for its session.
LEMMA IssueType ==
    ASSUME TypeOK, NEW r \in Requests, NEW op \in Ops, sid[r] \in Sids,
           Issue(r, op)
    PROVE  wire' \in [Pods -> Seq(Commands)] /\ pc' \in [Requests -> Pcs]
<1> DEFINE c == Command(r, op, sid[r])
<1>1. c \in Commands
  BY DEF Command, Commands
<1>2. pc' \in [Requests -> Pcs]
  BY GoToType DEF Issue, Pcs, Ops, CommandPcs
<1>3. wire' = [wire EXCEPT ![pod[r]] = Append(wire[pod[r]], c)]
  BY DEF Issue
<1> HIDE DEF c
<1>4. Append(wire[pod[r]], c) \in Seq(Commands)
  BY <1>1, AppendProperties DEF TypeOK
<1> QED BY <1>2, <1>3, <1>4 DEF TypeOK

\* An answer arrives.
LEMMA AnsweredType ==
    ASSUME TypeOK, NEW p \in Pods, wire[p] # <<>>, Answered(p)
    PROVE  wire' \in [Pods -> Seq(Commands)]
BY Shortened DEF Answered, TypeOK

\* A request is answered.
LEMMA AnswerType ==
    ASSUME TypeOK, NEW r \in Requests, NEW how \in Replies,
           NEW header \in Sids \union {KeepCookie, ClearCookie},
           Answer(r, how, header)
    PROVE  /\ pc' \in [Requests -> Pcs]
           /\ reply' \in [Requests -> Replies]
           /\ setCookie' \in [Requests -> Sids \union {KeepCookie, ClearCookie}]
<1>1. pc' \in [Requests -> Pcs]
  BY GoToType DEF Answer, Pcs
<1> QED BY <1>1 DEF Answer, TypeOK

\* The outcome of a hydration reaches those who await it.
LEMMA HydratedType ==
    ASSUME TypeOK, NEW r \in Requests,
           NEW outcome \in {"session", "none", "failed"}, Hydrated(r, outcome)
    PROVE  /\ pc' \in [Requests -> Pcs]
           /\ got' \in [Requests -> {"pending", "session", "none", "failed"}]
BY DEF Hydrated, TypeOK, Pcs, ReadyPcs

\* An entry of a map of running work is set.
LEMMA EntryType ==
    ASSUME NEW m \in [Pods -> [Sids -> Requests \union {Nobody}]],
           NEW p \in Pods, NEW s, NEW v \in Requests \union {Nobody}
    PROVE  [m EXCEPT ![p][s] = v] \in [Pods -> [Sids -> Requests \union {Nobody}]]
<1>1. [m[p] EXCEPT ![s] = v] \in [Sids -> Requests \union {Nobody}]
  OBVIOUS
<1> QED BY <1>1

\* A failure counts.
LEMMA FaultType ==
    ASSUME TypeOK, Fault \/ UNCHANGED faults
    PROVE  faults' \in 0..MaxFaults
BY BoundsAssumption DEF TypeOK, Fault

\* A token is issued, revoked or left alone.
LEMMA TokenType ==
    ASSUME TypeOK, NEW s, NEW v \in {"live", "dead"},
           token' = [token EXCEPT ![s] = v] \/ UNCHANGED token
    PROVE  token' \in [Sids -> {"none", "live", "dead"}]
BY DEF TypeOK

\* Entries of the maps go.
LEMMA ForgetType ==
    ASSUME TypeOK, NEW r \in Requests, ForgetHydration(r)
    PROVE  hydrating' \in [Pods -> [Sids -> Requests \union {Nobody}]]
<1> DEFINE old == hydrating[pod[r]][sid[r]]
           new == IF old = r THEN Nobody ELSE old
<1>1. /\ hydrating \in [Pods -> [Sids -> Requests \union {Nobody}]]
      /\ pod[r] \in Pods
  BY DEF TypeOK
<1>2. hydrating' = [hydrating EXCEPT ![pod[r]][sid[r]] = new]
  BY DEF ForgetHydration
<1>3. CASE old = r
  <2>1. hydrating' = [hydrating EXCEPT ![pod[r]][sid[r]] = Nobody]
    BY <1>2, <1>3
  <2> QED BY <1>1, <2>1, EntryType
<1>4. CASE old # r
  <2>1. hydrating' = [hydrating EXCEPT ![pod[r]][sid[r]] = old]
    BY <1>2, <1>4
  <2>2. hydrating' = hydrating
    BY <1>1, <2>1
  <2> QED BY <1>1, <2>2
<1> QED BY <1>3, <1>4

\* A session is destroyed.
LEMMA DestroyType ==
    ASSUME TypeOK, NEW r \in Requests, sid[r] \in Sids, Destroy(r)
    PROVE  /\ hydrating' \in [Pods -> [Sids -> Requests \union {Nobody}]]
           /\ validating' \in [Pods -> [Sids -> Requests \union {Nobody}]]
           /\ wire' \in [Pods -> Seq(Commands)]
           /\ pc' \in [Requests -> Pcs]
           /\ UNCHANGED <<reply, setCookie>>
<1>1. Issue(r, "del") /\ "del" \in Ops
  BY DEF Destroy, Ops
<1>2. /\ hydrating' = [hydrating EXCEPT ![pod[r]][sid[r]] = Nobody]
      /\ validating' = [validating EXCEPT ![pod[r]][sid[r]] = Nobody]
      /\ UNCHANGED <<reply, setCookie>>
  BY DEF Destroy, DropValidation, Unanswered
<1>3. /\ pod[r] \in Pods
      /\ hydrating \in [Pods -> [Sids -> Requests \union {Nobody}]]
      /\ validating \in [Pods -> [Sids -> Requests \union {Nobody}]]
  BY DEF TypeOK
<1>4. wire' \in [Pods -> Seq(Commands)] /\ pc' \in [Requests -> Pcs]
  BY <1>1, IssueType
<1> QED BY <1>2, <1>3, <1>4, EntryType

\* A validation is begun or joined.
LEMMA ValidateType ==
    ASSUME TypeOK, NEW r \in Requests, sid[r] \in Sids, Validate(r)
    PROVE  /\ validating' \in [Pods -> [Sids -> Requests \union {Nobody}]]
           /\ leader' \in [Requests -> Requests \union {Nobody}]
           /\ pc' \in [Requests -> Pcs]
           /\ UNCHANGED <<wire, hydrating, reply, setCookie>>
<1>1. "validate" \in Pcs /\ "sharing" \in Pcs
  BY DEF Pcs, BackendPcs, SharedPcs
<1>2. pc' \in [Requests -> Pcs]
  BY <1>1, GoToType DEF Validate
<1>3. UNCHANGED <<wire, hydrating, reply, setCookie>>
  BY DEF Validate, Unanswered
<1>4. CASE validating[pod[r]][sid[r]] = Nobody
  <2>1. /\ validating' = [validating EXCEPT ![pod[r]][sid[r]] = r]
        /\ leader' = [leader EXCEPT ![r] = r]
    BY <1>4 DEF Validate
  <2>2. validating' \in [Pods -> [Sids -> Requests \union {Nobody}]]
    BY <2>1, EntryType DEF TypeOK
  <2> QED BY <1>2, <1>3, <2>1, <2>2 DEF TypeOK
<1>5. CASE validating[pod[r]][sid[r]] # Nobody
  <2>1. /\ leader' = [leader EXCEPT ![r] = validating[pod[r]][sid[r]]]
        /\ UNCHANGED validating
    BY <1>5 DEF Validate
  <2> QED BY <1>2, <1>3, <2>1 DEF TypeOK
<1> QED BY <1>4, <1>5

\* The browser sends a request.
LEMMA SendType ==
    ASSUME TypeOK, NEW r \in Requests, NEW k \in Kinds, NEW p \in Pods,
           SendLogin(r, p) \/ SendWithCookie(r, k, p)
    PROVE  TypeOK'
<1>1. CASE SendLogin(r, p)
  <2>1. pc' \in [Requests -> Pcs]
    BY <1>1, GoToType DEF SendLogin, Pcs, BackendPcs
  <2>2. "login" \in Kinds
    BY DEF Kinds
  <2> QED BY <1>1, <2>1, <2>2 DEF SendLogin, Send, Unanswered, TypeOK
<1>2. CASE SendWithCookie(r, k, p) /\ cookie = NoSid
  <2>1. pc' \in [Requests -> Pcs]
    BY <1>2, GoToType DEF SendWithCookie, Pcs, ReadyPcs
  <2> QED BY <1>2, <2>1 DEF SendWithCookie, Send, Unanswered, TypeOK
<1>3. CASE SendWithCookie(r, k, p) /\ cookie # NoSid
  <2>1. Hydrate(r, p, cookie) /\ cookie \in Sids /\ UNCHANGED got
    BY <1>3 DEF SendWithCookie, TypeOK
  <2>2. pc' \in [Requests -> Pcs]
    BY <2>1, GoToType DEF Hydrate, Pcs, CommandPcs, SharedPcs
  <2>3. /\ wire' \in [Pods -> Seq(Commands)]
        /\ hydrating' \in [Pods -> [Sids -> Requests \union {Nobody}]]
        /\ leader' \in [Requests -> Requests \union {Nobody}]
    <3>1. CASE hydrating[p][cookie] = Nobody
      <4> DEFINE c == Command(r, "get", cookie)
      <4>1. c \in Commands
        BY <2>1 DEF Command, Commands, Ops
      <4>2. wire' = [wire EXCEPT ![p] = Append(wire[p], c)]
        BY <2>1, <3>1 DEF Hydrate
      <4> HIDE DEF c
      <4>3. Append(wire[p], c) \in Seq(Commands)
        BY <4>1, AppendProperties DEF TypeOK
      <4>4. hydrating' = [hydrating EXCEPT ![p][cookie] = r]
        BY <2>1, <3>1 DEF Hydrate
      <4>5. leader' = [leader EXCEPT ![r] = r]
        BY <2>1, <3>1 DEF Hydrate
      <4> QED BY <4>2, <4>3, <4>4, <4>5, EntryType DEF TypeOK
    <3>2. CASE hydrating[p][cookie] # Nobody
      <4>1. /\ UNCHANGED <<hydrating, wire>>
            /\ leader' = [leader EXCEPT ![r] = hydrating[p][cookie]]
        BY <2>1, <3>2 DEF Hydrate
      <4>2. hydrating[p][cookie] \in Requests \union {Nobody}
        BY <2>1 DEF TypeOK
      <4> QED BY <4>1, <4>2 DEF TypeOK
    <3> QED BY <3>1, <3>2
  <2> QED BY <1>3, <2>1, <2>2, <2>3 DEF SendWithCookie, Send, Unanswered, TypeOK
<1> QED BY <1>1, <1>2, <1>3

\* The browser receives an answer.
LEMMA ReceiveType ==
    ASSUME TypeOK, NEW r \in Requests, Receive(r)
    PROVE  TypeOK'
<1>1. pc' \in [Requests -> Pcs]
  BY GoToType DEF Receive, Pcs
<1> QED BY <1>1 DEF Receive, TypeOK, ClearCookie, shared

\* Valkey executes a command, or its answer comes too late.
LEMMA ExecuteType ==
    ASSUME TypeOK, NEW p \in Pods, Execute(p) \/ LateAnswer(p)
    PROVE  TypeOK'
<1> USE DEF shared, request
<1>1. CASE Execute(p)
  <2>1. PICK i \in 1..Len(wire[p]) :
            /\ store' = Effect(wire[p][i])
            /\ wire' = [wire EXCEPT ![p][i].result = Outcome(wire[p][i])]
    BY <1>1 DEF Execute
  <2>2. wire[p] \in Seq(Commands) /\ wire[p][i] \in Commands
    BY ElementOfSeq DEF TypeOK
  <2> DEFINE c == wire[p][i]
             d == [c EXCEPT !.result = Outcome(c)]
  <2>3. Outcome(c) \in Found \union {"unsent", "ok"}
    BY <2>2 DEF Outcome, Found, TypeOK, Commands
  <2>4. d \in Commands
    BY <2>2, <2>3 DEF Commands
  <2>5. wire' = [wire EXCEPT ![p] = [wire[p] EXCEPT ![i] = d]]
    BY <2>1
  <2>6. store' \in [Sids -> {"absent", "fresh", "stale"}]
    BY <2>1, <2>2 DEF Effect, TypeOK, Commands
  <2> HIDE DEF c, d
  <2>7. [wire[p] EXCEPT ![i] = d] \in Seq(Commands)
    BY <2>4, Replaced
  <2>8. wire' \in [Pods -> Seq(Commands)]
    BY <2>5, <2>7 DEF TypeOK
  <2> QED BY <1>1, <2>6, <2>8 DEF Execute, TypeOK
<1>2. CASE LateAnswer(p)
  BY <1>2, AnsweredType DEF LateAnswer, TypeOK
<1> QED BY <1>1, <1>2

\* A hydration goes on or ends.
LEMMA HydrationType ==
    ASSUME TypeOK, WireMatched, CarriesSession, NEW r \in Requests,
           GetAnswered(r) \/ TouchAnswered(r)
    PROVE  TypeOK'
<1> DEFINE p == pod[r]
<1>1. /\ p \in Pods /\ wire[p] # <<>> /\ Head(wire[p]).by = r
      /\ Head(wire[p]).op \in {"get", "touch"}
  BY DEF GetAnswered, TouchAnswered, Answers, TypeOK
<1>2. pc[r] \in {"get", "touch"} /\ sid[r] \in Sids
  <2>1. 1 \in 1..Len(wire[p]) /\ Head(wire[p]) = wire[p][1]
    BY <1>1, Shortened
  <2>2. pc[r] \in {"get", "touch"}
    BY <1>1, <2>1, NobodyAssumption DEF WireMatched, Matches
  <2> QED BY <2>2 DEF CarriesSession, Carries, Carrying, CommandPcs
<1>3. CASE GetAnswered(r) /\ Result(r) = "stale"
  <2> DEFINE c == Command(r, "touch", sid[r])
  <2>1. c \in Commands
    BY <1>2 DEF Command, Commands, Ops
  <2>2. wire' = [wire EXCEPT ![p] = Append(Tail(wire[p]), c)]
    BY <1>3 DEF GetAnswered
  <2>3. pc' \in [Requests -> Pcs]
    BY <1>3, GoToType DEF GetAnswered, Pcs, CommandPcs
  <2> HIDE DEF c
  <2>4. Append(Tail(wire[p]), c) \in Seq(Commands)
    BY <1>1, <2>1, Shortened, AppendProperties
  <2>5. wire' \in [Pods -> Seq(Commands)]
    BY <1>1, <2>2, <2>4 DEF TypeOK
  <2> QED BY <1>3, <2>3, <2>5 DEF GetAnswered, Unanswered, TypeOK
<1>4. ASSUME NEW outcome \in {"none", "session"}, SettleHydration(r, outcome),
             Answered(p), Unanswered,
             UNCHANGED <<token, store, validating, cookie, kind, pod, sid,
                         leader, verdict, faults>>
      PROVE  TypeOK'
  BY <1>1, <1>4, HydratedType, ForgetType, AnsweredType
     DEF SettleHydration, Unanswered, TypeOK
<1>5. CASE GetAnswered(r) /\ Result(r) # "stale"
  BY <1>4, <1>5 DEF GetAnswered
<1>6. CASE TouchAnswered(r)
  BY <1>4, <1>6 DEF TouchAnswered
<1> QED BY <1>3, <1>5, <1>6

\* A command, of a login or a destruction, is answered.
LEMMA AnsweredCommandType ==
    ASSUME TypeOK, WireMatched, CarriesSession, NEW r \in Requests,
           CreateAnswered(r) \/ DelAnswered(r)
    PROVE  TypeOK'
<1> DEFINE p == pod[r]
<1>1. /\ p \in Pods /\ wire[p] # <<>> /\ Head(wire[p]).by = r
      /\ Head(wire[p]).op \in {"create", "del"}
  BY DEF CreateAnswered, DelAnswered, Answers, TypeOK
<1>2. sid[r] \in Sids
  <2>1. 1 \in 1..Len(wire[p]) /\ Head(wire[p]) = wire[p][1]
    BY <1>1, Shortened
  <2>2. pc[r] \in {"create", "del"}
    BY <1>1, <2>1, NobodyAssumption DEF WireMatched, Matches
  <2> QED BY <2>2 DEF CarriesSession, Carries, Carrying, CommandPcs
<1>3. CASE CreateAnswered(r)
  <2>1. Answer(r, "ok", sid[r]) /\ "ok" \in Replies /\ Answered(p)
    BY <1>3 DEF CreateAnswered, Replies
  <2>2. UNCHANGED <<Settled, token, shared, sid, leader, faults>>
    BY <1>3 DEF CreateAnswered
  <2> QED BY <1>1, <1>2, <2>1, <2>2, AnswerType, AnsweredType
          DEF Settled, shared, TypeOK
<1>4. CASE DelAnswered(r)
  <2>1. /\ Answer(r, DestroyedReply(kind[r]), DestroyedCookie(kind[r]))
        /\ Answered(p)
        /\ UNCHANGED <<token, store, shared, cookie, kind, pod, sid, leader,
                       got, verdict, faults>>
    BY <1>4 DEF DelAnswered
  <2>2. /\ DestroyedReply(kind[r]) \in Replies
        /\ DestroyedCookie(kind[r]) \in Sids \union {KeepCookie, ClearCookie}
    BY DEF DestroyedReply, DestroyedCookie, Replies
  <2> QED BY <1>1, <2>1, <2>2, AnswerType, AnsweredType DEF shared, TypeOK
<1> QED BY <1>3, <1>4

\* A handler goes on with what its hydration resolved to.
LEMMA ContinueType ==
    ASSUME TypeOK, CarriesSession, NEW r \in Requests, Continue(r)
    PROVE  TypeOK'
<1> USE DEF shared
<1>0. UNCHANGED <<token, store, cookie, kind, pod, sid, got, verdict, faults>>
  BY DEF Continue
<1>1. ASSUME NEW how \in Replies,
             NEW header \in Sids \union {KeepCookie, ClearCookie},
             Answer(r, how, header), UNCHANGED <<wire, shared, leader>>
      PROVE  TypeOK'
  BY <1>0, <1>1, AnswerType DEF TypeOK
<1>2. CASE HydrationFailed(r)
  BY <1>1, <1>2 DEF HydrationFailed, Replies
<1>3. CASE NoSession(r)
  <2>1. /\ NoSessionReply(kind[r]) \in Replies
        /\ NoSessionCookie(kind[r]) \in Sids \union {KeepCookie, ClearCookie}
    BY DEF NoSessionReply, NoSessionCookie, Replies
  <2> QED BY <1>1, <1>3, <2>1 DEF NoSession
<1>4. CASE HasSession(r) /\ Validate(r)
  <2>1. sid[r] \in Sids
    BY <1>4 DEF Continue, HasSession, CarriesSession, Carries
  <2> QED BY <1>0, <1>4, <2>1, ValidateType DEF TypeOK
<1>5. CASE HasSession(r) /\ Answer(r, "ok", KeepCookie)
                        /\ UNCHANGED <<wire, shared, leader>>
  BY <1>1, <1>5 DEF Replies
<1>6. CASE /\ UNCHANGED <<wire, shared, leader>> /\ Unanswered
           /\ \E where \in {"signout", "upstream", "probe", "identify"} :
                 GoTo(r, where)
  <2>1. pc' \in [Requests -> Pcs]
    BY <1>6, GoToType DEF Pcs, BackendPcs
  <2> QED BY <1>0, <1>6, <2>1 DEF Unanswered, TypeOK
<1> QED BY <1>2, <1>3, <1>4, <1>5, <1>6 DEF Continue, HasSession

\* The calls of a login.
LEMMA LoginType ==
    ASSUME TypeOK, CarriesSession, NEW r \in Requests,
           \/ LoginAccepted(r) \/ LoginRefused(r) \/ WhoamiMatches(r)
           \/ WhoamiMismatch(r) \/ Revoke(r)
    PROVE  TypeOK'
<1> USE DEF shared, Settled
<1>1. "whoami" \in Pcs /\ "revoke" \in Pcs /\ "refused" \in Replies
      /\ "create" \in Ops
  BY DEF Pcs, BackendPcs, Replies, Ops
<1>2. CASE LoginAccepted(r)
  <2>1. pc' \in [Requests -> Pcs]
    BY <1>1, <1>2, GoToType DEF LoginAccepted
  <2>2. PICK s \in Sids : /\ token' = [token EXCEPT ![s] = "live"]
                          /\ sid' = [sid EXCEPT ![r] = s]
    BY <1>2 DEF LoginAccepted
  <2> QED BY <1>2, <2>1, <2>2 DEF LoginAccepted, Unanswered, TypeOK
<1>3. CASE LoginRefused(r)
  BY <1>1, <1>3, AnswerType DEF LoginRefused, TypeOK
<1>4. CASE WhoamiMatches(r)
  <2>1. sid[r] \in Sids
    BY <1>4 DEF WhoamiMatches, CarriesSession, Carries, Carrying, BackendPcs
  <2>2. wire' \in [Pods -> Seq(Commands)] /\ pc' \in [Requests -> Pcs]
    BY <1>1, <1>4, <2>1, IssueType DEF WhoamiMatches
  <2> QED BY <1>4, <2>2 DEF WhoamiMatches, Unanswered, TypeOK
<1>5. CASE WhoamiMismatch(r)
  BY <1>1, <1>5, GoToType DEF WhoamiMismatch, Unanswered, TypeOK
<1>6. CASE Revoke(r)
  <2>1. Answer(r, "refused", KeepCookie)
    BY <1>6 DEF Revoke
  <2>2. token' \in [Sids -> {"none", "live", "dead"}] /\ faults' \in 0..MaxFaults
    BY <1>6, FaultType, TokenType DEF Revoke
  <2> QED BY <1>1, <1>6, <2>1, <2>2, AnswerType DEF Revoke, TypeOK
<1> QED BY <1>2, <1>3, <1>4, <1>5, <1>6

\* The backend calls of a handler with a session.
LEMMA CallType ==
    ASSUME TypeOK, CarriesSession, NEW r \in Requests,
           SignOut(r) \/ Upstream(r) \/ Probe(r) \/ Identify(r)
    PROVE  TypeOK'
<1> USE DEF shared, Settled
<1>1. /\ "upstream" \in Pcs /\ "ok" \in Replies /\ "refused" \in Replies
  BY DEF Pcs, BackendPcs, Replies
<1>2. sid[r] \in Sids
  BY DEF CarriesSession, Carries, Carrying, BackendPcs, SignOut, Upstream, Probe, Identify
<1>3. CASE SignOut(r)
  <2>1. token' \in [Sids -> {"none", "live", "dead"}] /\ faults' \in 0..MaxFaults
    BY <1>3, FaultType, TokenType DEF SignOut
  <2>2. Destroy(r) /\ UNCHANGED <<Settled, sid, leader>>
    BY <1>3 DEF SignOut
  <2> QED BY <1>2, <2>1, <2>2, DestroyType DEF TypeOK
<1>4. CASE Upstream(r)
  <2>1. CASE Destroy(r) /\ UNCHANGED <<Settled, token, sid, leader, faults>>
    BY <1>2, <2>1, DestroyType DEF TypeOK
  <2>2. CASE /\ Answer(r, "ok", KeepCookie) /\ UNCHANGED <<wire, shared>>
             /\ UNCHANGED <<Settled, token, sid, leader, faults>>
    BY <1>1, <2>2, AnswerType DEF TypeOK
  <2> QED BY <1>4, <2>1, <2>2 DEF Upstream
<1>5. CASE Probe(r)
  <2>0. UNCHANGED <<Settled, token, sid, faults>>
    BY <1>5 DEF Probe
  <2>1. CASE Validate(r)
    BY <1>2, <2>0, <2>1, ValidateType DEF TypeOK
  <2>2. CASE GoTo(r, "upstream") /\ Unanswered /\ UNCHANGED <<wire, shared, leader>>
    BY <1>1, <2>0, <2>2, GoToType DEF Unanswered, TypeOK
  <2>3. CASE /\ Answer(r, "ok", KeepCookie) \/ Answer(r, "refused", KeepCookie)
             /\ UNCHANGED <<wire, shared, leader>>
    BY <1>1, <2>0, <2>3, AnswerType DEF TypeOK
  <2> QED BY <1>5, <2>1, <2>2, <2>3 DEF Probe, ProbeUnauthorized
<1>6. CASE Identify(r)
  <2>0. faults' \in 0..MaxFaults /\ UNCHANGED <<Settled, token, sid, leader>>
    BY <1>6, BoundsAssumption DEF Identify, Fault, TypeOK
  <2>1. CASE Destroy(r)
    BY <1>2, <2>0, <2>1, DestroyType DEF TypeOK
  <2>2. CASE GoTo(r, "upstream") /\ Unanswered /\ UNCHANGED <<wire, shared>>
    BY <1>1, <2>0, <2>2, GoToType DEF Unanswered, TypeOK
  <2> QED BY <1>6, <2>1, <2>2 DEF Identify
<1> QED BY <1>3, <1>4, <1>5, <1>6

\* A validation, from the backend's answer to its consequence.
LEMMA ValidationType ==
    ASSUME TypeOK, CarriesSession, NEW r \in Requests,
           BackendValidates(r) \/ ValidationSettles(r) \/ Conclude(r)
    PROVE  TypeOK'
<1> USE DEF shared, Settled
<1>1. CASE BackendValidates(r)
  <2>1. faults' \in 0..MaxFaults
    BY <1>1, FaultType DEF BackendValidates
  <2>2. verdict' \in [Requests -> {"pending", "valid", "expired", "unavailable"}]
    <3>1. \/ verdict' = [verdict EXCEPT ![r] =
                             IF token[sid[r]] = "live" THEN "valid" ELSE "expired"]
          \/ verdict' = [verdict EXCEPT ![r] = "unavailable"]
      BY <1>1 DEF BackendValidates
    <3>2. \E v \in {"valid", "expired", "unavailable"} :
             verdict' = [verdict EXCEPT ![r] = v]
      <4>1. CASE token[sid[r]] = "live"
        BY <3>1, <4>1
      <4>2. CASE token[sid[r]] # "live"
        BY <3>1, <4>2
      <4> QED BY <4>1, <4>2
    <3> QED BY <3>2 DEF TypeOK
  <2> QED BY <1>1, <2>1, <2>2 DEF BackendValidates, TypeOK
<1>2. CASE ValidationSettles(r)
  <2>1. "validated" \in Pcs
    BY DEF Pcs, ReadyPcs
  <2>2. /\ pc' \in [Requests -> Pcs]
        /\ verdict' \in [Requests -> {"pending", "valid", "expired", "unavailable"}]
    BY <1>2, <2>1 DEF ValidationSettles, TypeOK
  <2>3. validating' \in [Pods -> [Sids -> Requests \union {Nobody}]]
    <3> DEFINE old == validating[pod[r]][sid[r]]
    <3>1. /\ validating \in [Pods -> [Sids -> Requests \union {Nobody}]]
          /\ pod[r] \in Pods
      BY DEF TypeOK
    <3>2. sid[r] \in Sids /\ old \in Requests \union {Nobody}
      BY <1>2, <3>1 DEF ValidationSettles, CarriesSession, Carries, Carrying, BackendPcs
    <3>3. validating' = [validating EXCEPT ![pod[r]][sid[r]] =
                            IF old = r THEN Nobody ELSE old]
      BY <1>2 DEF ValidationSettles
    <3> HIDE DEF old
    <3>4. (IF old = r THEN Nobody ELSE old) \in Requests \union {Nobody}
      BY <3>2
    <3> QED BY <3>1, <3>3, <3>4, EntryType
  <2> QED BY <1>2, <2>2, <2>3 DEF ValidationSettles, Unanswered, TypeOK
<1>3. CASE Conclude(r)
  <2>0. UNCHANGED <<Settled, token, sid, leader, faults>>
    BY <1>3 DEF Conclude
  <2>1. CASE Destroy(r)
    <3>1. sid[r] \in Sids
      BY <1>3 DEF Conclude, CarriesSession, Carries, Carrying
    <3> QED BY <2>0, <2>1, <3>1, DestroyType DEF TypeOK
  <2>2. CASE /\ \E how \in Replies : Answer(r, how, KeepCookie)
             /\ UNCHANGED <<wire, shared>>
    BY <2>0, <2>2, AnswerType DEF TypeOK
  <2> QED BY <1>3, <2>1, <2>2 DEF Conclude, Replies
<1> QED BY <1>1, <1>2, <1>3

\* A command that times out, and what becomes of its request.
LEMMA CommandFailsType ==
    ASSUME TypeOK, WireMatched, CarriesSession, NEW p \in Pods,
           NEW i \in 1..Len(wire[p]), CommandFails(p, i)
    PROVE  TypeOK'
<1> DEFINE r == wire[p][i].by
<1>1. /\ wire[p] \in Seq(Commands) /\ wire[p][i] \in Commands
  BY ElementOfSeq DEF TypeOK
<1>2. /\ r \in Requests /\ pc[r] \in Ops
      /\ faults' \in 0..MaxFaults /\ Rejected(r)
      /\ UNCHANGED <<token, store, validating, cookie, kind, pod, sid, leader,
                     verdict>>
  BY <1>1, BoundsAssumption
     DEF CommandFails, Fault, TypeOK, Commands, WireMatched, Matches
<1>3. wire' \in [Pods -> Seq(Commands)]
  <2>1. CASE wire' = [wire EXCEPT ![p][i].by = Nobody]
    <3> DEFINE d == [wire[p][i] EXCEPT !.by = Nobody]
    <3>1. d \in Commands
      BY <1>1 DEF Commands
    <3>2. wire' = [wire EXCEPT ![p] = [wire[p] EXCEPT ![i] = d]]
      BY <2>1
    <3> HIDE DEF d
    <3>3. [wire[p] EXCEPT ![i] = d] \in Seq(Commands)
      BY <3>1, Replaced
    <3> QED BY <3>2, <3>3 DEF TypeOK
  <2>2. CASE wire' = [wire EXCEPT ![p] = SubSeq(@, 1, i - 1)
                                           \o SubSeq(@, i + 1, Len(@))]
    BY <2>2, Removed DEF TypeOK
  <2> QED BY <2>1, <2>2 DEF CommandFails
<1> HIDE DEF r
<1>4. CASE pc[r] \in {"get", "touch"}
  <2>1. RejectHydration(r) /\ Unanswered
    BY <1>2, <1>4 DEF Rejected
  <2> QED BY <1>2, <1>3, <2>1, HydratedType, ForgetType
          DEF RejectHydration, Unanswered, TypeOK
<1>5. CASE pc[r] = "create"
  <2>1. GoTo(r, "revoke") /\ Unanswered /\ UNCHANGED <<hydrating, got>>
    BY <1>2, <1>5 DEF Rejected, CreateRejected
  <2>2. pc' \in [Requests -> Pcs]
    BY <1>2, <2>1, GoToType DEF Pcs, BackendPcs
  <2> QED BY <1>2, <1>3, <2>1, <2>2 DEF Unanswered, TypeOK
<1>6. CASE pc[r] = "del"
  <2>1. Answer(r, "error", KeepCookie) /\ UNCHANGED <<hydrating, got>>
    BY <1>2, <1>6 DEF Rejected, DelRejected
  <2> QED BY <1>2, <1>3, <2>1, AnswerType DEF Replies, TypeOK
<1> QED BY <1>2, <1>4, <1>5, <1>6 DEF Ops

\* A backend call fails.
LEMMA CallFailsType ==
    ASSUME TypeOK, NEW r \in Requests, CallFails(r)
    PROVE  TypeOK'
<1>1. /\ Answer(r, "error", KeepCookie) /\ "error" \in Replies
      /\ Fault /\ UNCHANGED <<Settled, wire, shared, sid, leader>>
  BY DEF CallFails, Replies
<1>2. token' \in [Sids -> {"none", "live", "dead"}]
  BY TokenType DEF CallFails
<1>3. faults' \in 0..MaxFaults
  BY <1>1, FaultType
<1> QED BY <1>1, <1>2, <1>3, AnswerType DEF Settled, shared, TypeOK

\* A pod is lost.
LEMMA RestartType ==
    ASSUME TypeOK, NEW p \in Pods, Restart(p)
    PROVE  TypeOK'
<1>1. /\ pc' = [r \in Requests |->
                  IF pod[r] = p /\ pc[r] \notin {"idle", "answered"}
                  THEN "done" ELSE pc[r]]
      /\ "done" \in Pcs
  BY DEF Restart, Pcs
<1>2. pc' \in [Requests -> Pcs]
  BY <1>1 DEF TypeOK
<1>3. reply' \in [Requests -> Replies]
  BY DEF Restart, TypeOK, Replies
<1>4. /\ hydrating' \in [Pods -> [Sids -> Requests \union {Nobody}]]
      /\ validating' \in [Pods -> [Sids -> Requests \union {Nobody}]]
      /\ faults' \in 0..MaxFaults
  BY FaultType DEF Restart, TypeOK
<1>5. wire' \in [Pods -> Seq(Commands)]
  <2>1. wire[p] \in Seq(Commands)
    BY DEF TypeOK
  <2>2. CASE wire' = [wire EXCEPT ![p] = <<>>]
    BY <2>2 DEF TypeOK
  <2>3. CASE wire' = [wire EXCEPT ![p] =
                         [j \in DOMAIN @ |-> [@[j] EXCEPT !.by = Nobody]]]
    <3> DEFINE w == [j \in 1..Len(wire[p]) |-> [wire[p][j] EXCEPT !.by = Nobody]]
    <3>1. Len(wire[p]) \in Nat /\ DOMAIN wire[p] = 1..Len(wire[p])
      BY <2>1, LenProperties
    <3>2. ASSUME NEW j \in 1..Len(wire[p])
          PROVE  [wire[p][j] EXCEPT !.by = Nobody] \in Commands
      <4>1. wire[p][j] \in Commands
        BY <2>1, ElementOfSeq
      <4> QED BY <4>1 DEF Commands
    <3>3. w \in [1..Len(wire[p]) -> Commands]
      BY <3>2
    <3>4. w \in Seq(Commands)
      BY <3>1, <3>3, SeqDef
    <3>5. wire' = [wire EXCEPT ![p] = w]
      BY <2>3, <3>1
    <3> HIDE DEF w
    <3> QED BY <3>4, <3>5 DEF TypeOK
  <2> QED BY <2>2, <2>3 DEF Restart
<1> QED BY <1>2, <1>3, <1>4, <1>5 DEF Restart, TypeOK

-----------------------------------------------------------------------------
(* The commands of a connection and the requests that await them           *)

\* After the step p's commands are those it had, in any case without one that
\* r awaited, and at most one new one, which r awaits.
Rewired(p, r) ==
    \E f \in [1..Len(wire'[p]) -> 0..Len(wire[p])] :
        /\ \A i, j \in 1..Len(wire'[p]) : f[i] = f[j] => i = j
        /\ \A i \in 1..Len(wire'[p]) :
              \/ /\ f[i] = 0
                 /\ wire'[p][i].by = r
                 /\ pc'[r] = wire'[p][i].op
                 /\ pod'[r] = p
                 /\ sid'[r] = wire'[p][i].sid
              \/ /\ f[i] # 0
                 /\ wire'[p][i].op = wire[p][f[i]].op
                 /\ wire'[p][i].sid = wire[p][f[i]].sid
                 /\ \/ wire'[p][i].by = Nobody
                    \/ /\ wire'[p][i].by = wire[p][f[i]].by
                       /\ wire[p][f[i]].by # r

\* A request awaits the same command after the step.
Kept(q) == /\ pc'[q] = pc[q] /\ pod'[q] = pod[q] /\ sid'[q] = sid[q]
           /\ kind'[q] = kind[q]

\* Then the requests and the commands still match.
LEMMA RewiredMatched ==
    ASSUME TypeOK, TypeOK', WireMatched, NEW r,
           \A p \in Pods : Rewired(p, r),
           \A q \in Requests : q # r /\ pc[q] \in Ops => Kept(q)
    PROVE  WireMatched'
<1> SUFFICES ASSUME NEW p \in Pods, NEW i \in 1..Len(wire'[p])
             PROVE  /\ Matches(p, wire[p][i])'
                    /\ \A j \in 1..Len(wire'[p]) :
                          wire'[p][i].by = wire'[p][j].by
                             => i = j \/ wire'[p][i].by = Nobody
  BY DEF WireMatched
<1>1. PICK f \in [1..Len(wire'[p]) -> 0..Len(wire[p])] :
        /\ \A k, j \in 1..Len(wire'[p]) : f[k] = f[j] => k = j
        /\ \A k \in 1..Len(wire'[p]) :
              \/ /\ f[k] = 0
                 /\ wire'[p][k].by = r
                 /\ pc'[r] = wire'[p][k].op
                 /\ pod'[r] = p
                 /\ sid'[r] = wire'[p][k].sid
              \/ /\ f[k] # 0
                 /\ wire'[p][k].op = wire[p][f[k]].op
                 /\ wire'[p][k].sid = wire[p][f[k]].sid
                 /\ \/ wire'[p][k].by = Nobody
                    \/ /\ wire'[p][k].by = wire[p][f[k]].by
                       /\ wire[p][f[k]].by # r
  BY DEF Rewired
<1>2. wire[p] \in Seq(Commands) /\ Len(wire[p]) \in Nat
  BY LenProperties DEF TypeOK
<1>3. \A k \in 1..Len(wire'[p]) : f[k] # 0 => f[k] \in 1..Len(wire[p])
  BY <1>1, <1>2
<1>4. \A k \in 1..Len(wire[p]) : wire[p][k] \in Commands
  BY <1>2, ElementOfSeq
<1>5. Matches(p, wire[p][i])'
  <2>1. CASE f[i] = 0
    BY <1>1, <2>1 DEF Matches
  <2>2. CASE f[i] # 0 /\ wire'[p][i].by = Nobody
    BY <2>2 DEF Matches
  <2>3. CASE f[i] # 0 /\ wire'[p][i].by # Nobody
    <3> DEFINE q == wire[p][f[i]].by
    <3>1. /\ wire'[p][i].by = q /\ q # r /\ q \in Requests
          /\ wire[p][f[i]].op \in Ops
          /\ wire'[p][i].op = wire[p][f[i]].op
          /\ wire'[p][i].sid = wire[p][f[i]].sid
      BY <1>1, <1>3, <1>4, <2>3 DEF Commands
    <3>2. /\ pc[q] = wire[p][f[i]].op /\ pod[q] = p /\ sid[q] = wire[p][f[i]].sid
      BY <1>3, <2>3, <3>1 DEF WireMatched, Matches
    <3>3. Kept(q)
      BY <3>1, <3>2
    <3> QED BY <3>1, <3>2, <3>3 DEF Matches, Kept
  <2> QED BY <2>1, <2>2, <2>3
<1>6. ASSUME NEW j \in 1..Len(wire'[p]), wire'[p][i].by = wire'[p][j].by,
             wire'[p][i].by # Nobody
      PROVE  i = j
  <2>0. /\ f[i] = 0 <=> wire'[p][i].by = r
        /\ f[j] = 0 <=> wire'[p][j].by = r
    <3> SUFFICES ASSUME NEW k \in 1..Len(wire'[p]), wire'[p][k].by # Nobody
                 PROVE  f[k] = 0 <=> wire'[p][k].by = r
      BY <1>6
    <3>1. CASE f[k] = 0
      BY <1>1, <3>1
    <3>2. CASE f[k] # 0
      <4>1. \/ wire'[p][k].by = Nobody
            \/ wire'[p][k].by = wire[p][f[k]].by /\ wire[p][f[k]].by # r
        BY <1>1, <3>2
      <4> QED BY <3>2, <4>1
    <3> QED BY <3>1, <3>2
  <2>1. CASE f[i] = 0 \/ f[j] = 0
    <3>1. f[i] = f[j]
      BY <1>6, <2>0, <2>1
    <3>2. \A k, m \in 1..Len(wire'[p]) : f[k] = f[m] => k = m
      BY <1>1
    <3> QED BY <3>1, <3>2
  <2>2. CASE f[i] # 0 /\ f[j] # 0
    <3>1. /\ wire[p][f[i]].by = wire[p][f[j]].by /\ wire[p][f[i]].by # Nobody
      BY <1>1, <1>6, <2>2
    <3>2. f[i] = f[j]
      BY <1>3, <2>2, <3>1 DEF WireMatched
    <3> QED BY <1>1, <3>2
  <2> QED BY <2>1, <2>2
<1> QED BY <1>5, <1>6

\* The places the step may give a request in the maps of its pod.
Entered(p, s, r) ==
    /\ hydrating'[p][s] \in {Nobody, hydrating[p][s], r}
    /\ validating'[p][s] \in {Nobody, validating[p][s], r}
    /\ hydrating'[p][s] = r /\ r # Nobody
          => pc'[r] \in {"get", "touch"} /\ pod'[r] = p /\ sid'[r] = s
    /\ validating'[p][s] = r /\ r # Nobody
          => pc'[r] = "validate" /\ pod'[r] = p /\ sid'[r] = s

\* What a step of r, or of nobody, has to respect.
LEMMA StepKeeps ==
    ASSUME IInv, TypeOK', NEW r,
           \A q \in Requests :
              q # r /\ pc[q] \in Ops \union {"validate"} => Kept(q),
           \A q \in Requests : Local(q)',
           \A p \in Pods, s \in Sids : Entered(p, s, r),
           \A p \in Pods : Rewired(p, r)
    PROVE  IInv'
<1>1. WireMatched'
  BY RewiredMatched DEF IInv
<1>2. PendingIsRunning'
  <2> SUFFICES ASSUME NEW p \in Pods, NEW s \in Sids
               PROVE  /\ hydrating'[p][s] # Nobody
                            => /\ pc'[hydrating'[p][s]] \in {"get", "touch"}
                               /\ pod'[hydrating'[p][s]] = p
                               /\ sid'[hydrating'[p][s]] = s
                      /\ validating'[p][s] # Nobody
                            => /\ pc'[validating'[p][s]] = "validate"
                               /\ pod'[validating'[p][s]] = p
                               /\ sid'[validating'[p][s]] = s
    BY DEF PendingIsRunning
  <2>1. /\ hydrating[p][s] \in Requests \union {Nobody}
        /\ validating[p][s] \in Requests \union {Nobody}
    BY DEF IInv, TypeOK
  <2>2. Entered(p, s, r)
    OBVIOUS
  <2>3. /\ hydrating[p][s] # Nobody => /\ pc[hydrating[p][s]] \in {"get", "touch"}
                                       /\ pod[hydrating[p][s]] = p
                                       /\ sid[hydrating[p][s]] = s
        /\ validating[p][s] # Nobody => /\ pc[validating[p][s]] = "validate"
                                        /\ pod[validating[p][s]] = p
                                        /\ sid[validating[p][s]] = s
    BY DEF IInv, PendingIsRunning
  <2>4. ASSUME NEW q \in Requests, q # r, pc[q] \in {"get", "touch", "validate"}
        PROVE  pc'[q] = pc[q] /\ pod'[q] = pod[q] /\ sid'[q] = sid[q]
    BY <2>4 DEF Kept, Ops
  <2> QED BY <2>1, <2>2, <2>3, <2>4 DEF Entered
<1> QED BY <1>1, <1>2 DEF IInv

\* No request but r changes.
Alone(r) ==
    \A q \in Requests :
        q # r => /\ pc'[q] = pc[q] /\ pod'[q] = pod[q] /\ sid'[q] = sid[q]
                 /\ kind'[q] = kind[q] /\ leader'[q] = leader[q]
                 /\ got'[q] = got[q] /\ verdict'[q] = verdict[q]

DeadStays == \A s \in Sids : token[s] = "dead" => token'[s] = "dead"

\* Who shares r's validation still does.
StillValidates(r) ==
    pc[r] = "validate"
        => pc'[r] = "validate" /\ pod'[r] = pod[r] /\ sid'[r] = sid[r]

\* A step of one request, which finds itself in order after it.
LEMMA AloneKeeps ==
    ASSUME IInv, TypeOK', NEW r, Alone(r), DeadStays,
           r \in Requests => Local(r)' /\ StillValidates(r),
           \A p \in Pods, s \in Sids : Entered(p, s, r),
           \A p \in Pods : Rewired(p, r)
    PROVE  IInv'
<1>1. ASSUME NEW q \in Requests
      PROVE  Local(q)'
  <2>1. CASE q = r
    BY <2>1
  <2>2. CASE q # r
    <3>1. /\ pc'[q] = pc[q] /\ pod'[q] = pod[q] /\ sid'[q] = sid[q]
          /\ kind'[q] = kind[q] /\ leader'[q] = leader[q]
          /\ got'[q] = got[q] /\ verdict'[q] = verdict[q]
      BY <2>2 DEF Alone
    <3>2. Local(q)
      BY DEF IInv
    <3>3. Carries(q)' /\ CallOfKind(q)'
      BY <3>1, <3>2 DEF Local, Carries, CallOfKind
    <3>4. Led(q)'
      <4>1. CASE pc[q] = "sharing"
        <5>1. /\ leader[q] \in Requests /\ pc[leader[q]] = "validate"
              /\ pod[leader[q]] = pod[q] /\ sid[leader[q]] = sid[q]
          BY <3>2, <4>1 DEF Local, Led
        <5>2. /\ pc'[leader[q]] = "validate" /\ pod'[leader[q]] = pod[leader[q]]
              /\ sid'[leader[q]] = sid[leader[q]]
          BY <5>1 DEF Alone, StillValidates
        <5> QED BY <3>1, <4>1, <5>1, <5>2 DEF Led
      <4>2. CASE pc[q] # "sharing"
        BY <3>1, <3>2, <4>2 DEF Local, Led
      <4> QED BY <4>1, <4>2
    <3>5. VerdictTrue(q)'
      BY <3>1, <3>2 DEF Local, VerdictTrue, DeadStays
    <3>6. EndsRejected(q)'
      <4>1. CASE pc[q] = "del"
        BY <3>1, <3>2, <4>1
           DEF Local, EndsRejected, Carries, Carrying, CommandPcs, DeadStays
      <4>2. CASE pc[q] # "del"
        BY <3>1, <4>2 DEF EndsRejected
      <4> QED BY <4>1, <4>2
    <3> QED BY <3>3, <3>4, <3>5, <3>6 DEF Local
  <2> QED BY <2>1, <2>2
<1>2. \A q \in Requests :
        q # r /\ pc[q] \in Ops \union {"validate"} => Kept(q)
  BY DEF Alone, Kept
<1> QED BY <1>1, <1>2, StepKeeps

-----------------------------------------------------------------------------
(* The ways in which a step rewires the connections                        *)

\* Only a request that waits for a command has one on its way.
LEMMA NoneAwaited ==
    ASSUME IInv, NEW r \in Requests, pc[r] \notin Ops,
           NEW p \in Pods, NEW i \in 1..Len(wire[p])
    PROVE  wire[p][i].by # r
<1>1. wire[p][i] \in Commands
  BY ElementOfSeq DEF IInv, TypeOK
<1> QED BY <1>1, NobodyAssumption DEF IInv, WireMatched, Matches, Commands

\* A connection that the step leaves alone.
LEMMA SameWire ==
    ASSUME TypeOK, NEW r, NEW p \in Pods, wire'[p] = wire[p],
           \A i \in 1..Len(wire[p]) : wire[p][i].by # r \/ wire[p][i].by = Nobody
    PROVE  Rewired(p, r)
<1> DEFINE f == [i \in 1..Len(wire'[p]) |-> i]
<1>1. Len(wire[p]) \in Nat
  BY LenProperties DEF TypeOK
<1>2. f \in [1..Len(wire'[p]) -> 0..Len(wire[p])]
  BY <1>1
<1>3. \A i \in 1..Len(wire'[p]) :
        /\ f[i] # 0 /\ f[i] = i /\ wire'[p][i] = wire[p][f[i]]
        /\ wire[p][f[i]].by # r \/ wire[p][f[i]].by = Nobody
  BY <1>1
<1> HIDE DEF f
<1> QED BY <1>2, <1>3 DEF Rewired

\* No command is sent or answered.
LEMMA WireUntouched ==
    ASSUME IInv, NEW r, r \in Requests => pc[r] \notin Ops,
           UNCHANGED wire, NEW p \in Pods
    PROVE  Rewired(p, r)
<1>1. \A i \in 1..Len(wire[p]) : wire[p][i] \in Commands
  BY ElementOfSeq DEF IInv, TypeOK
<1>2. \A i \in 1..Len(wire[p]) : wire[p][i].by # r \/ wire[p][i].by = Nobody
  BY <1>1, NoneAwaited DEF Commands
<1> QED BY <1>2, SameWire DEF IInv

\* r sends a command on the connection of p0.
LEMMA WireAppended ==
    ASSUME IInv, NEW r \in Requests, pc[r] \notin Ops,
           NEW p0 \in Pods, NEW op \in Ops, NEW s \in Sids,
           wire' = [wire EXCEPT ![p0] = Append(wire[p0], Command(r, op, s))],
           pc'[r] = op, pod'[r] = p0, sid'[r] = s, NEW p \in Pods
    PROVE  Rewired(p, r)
<1> DEFINE c == Command(r, op, s)
           f == [i \in 1..Len(wire'[p]) |-> IF i = Len(wire'[p]) THEN 0 ELSE i]
<1>0. /\ TypeOK /\ wire[p] \in Seq(Commands) /\ Len(wire[p]) \in Nat
      /\ c \in Commands /\ c.by = r /\ c.op = op /\ c.sid = s
  BY LenProperties DEF IInv, TypeOK, Command, Commands
<1>1. CASE p # p0
  <2>1. wire'[p] = wire[p]
    BY <1>1 DEF IInv, TypeOK
  <2> QED BY <1>0, <2>1, NoneAwaited, SameWire
<1>2. CASE p = p0
  <2>1. wire'[p] = Append(wire[p], c)
    BY <1>2 DEF IInv, TypeOK
  <2> HIDE DEF c
  <2>2. /\ Len(wire'[p]) = Len(wire[p]) + 1
        /\ wire'[p][Len(wire[p]) + 1] = c
        /\ \A i \in 1..Len(wire[p]) : wire'[p][i] = wire[p][i]
    BY <1>0, <2>1, AppendProperties
  <2>3. f \in [1..Len(wire'[p]) -> 0..Len(wire[p])]
    BY <1>0, <2>2
  <2>4. \A i, j \in 1..Len(wire'[p]) : f[i] = f[j] => i = j
    BY <1>0, <2>2
  <2>5. ASSUME NEW i \in 1..Len(wire'[p])
        PROVE  \/ /\ f[i] = 0 /\ wire'[p][i].by = r /\ pc'[r] = wire'[p][i].op
                  /\ pod'[r] = p /\ sid'[r] = wire'[p][i].sid
               \/ /\ f[i] # 0
                  /\ wire'[p][i].op = wire[p][f[i]].op
                  /\ wire'[p][i].sid = wire[p][f[i]].sid
                  /\ wire'[p][i].by = wire[p][f[i]].by
                  /\ wire[p][f[i]].by # r
    <3>1. CASE i = Len(wire[p]) + 1
      BY <1>0, <1>2, <2>2, <3>1
    <3>2. CASE i # Len(wire[p]) + 1
      <4>1. i \in 1..Len(wire[p]) /\ f[i] = i
        BY <1>0, <2>2, <3>2
      <4> QED BY <1>0, <2>2, <4>1, NoneAwaited
    <3> QED BY <3>1, <3>2
  <2> HIDE DEF f
  <2> QED BY <2>3, <2>4, <2>5 DEF Rewired
<1> QED BY <1>1, <1>2

\* The oldest command of a connection is answered, and its request, if one
\* awaits it, moves on, perhaps with a command that follows it.
LEMMA WireAnswered ==
    ASSUME IInv, NEW r, NEW p0 \in Pods,
           wire[p0] # <<>>, Head(wire[p0]).by = r,
           \/ wire' = [wire EXCEPT ![p0] = Tail(wire[p0])]
           \/ \E op \in Ops, s \in Sids :
                 /\ wire' = [wire EXCEPT ![p0] =
                                Append(Tail(wire[p0]), Command(r, op, s))]
                 /\ r \in Requests /\ pc'[r] = op /\ pod'[r] = p0 /\ sid'[r] = s,
           NEW p \in Pods
    PROVE  Rewired(p, r)
<1>0. /\ TypeOK /\ WireMatched /\ wire[p] \in Seq(Commands) /\ Len(wire[p]) \in Nat
      /\ wire[p0] \in Seq(Commands) /\ Len(wire[p0]) \in Nat
  BY LenProperties DEF IInv, TypeOK
<1>1. /\ Tail(wire[p0]) \in Seq(Commands)
      /\ Len(Tail(wire[p0])) = Len(wire[p0]) - 1
      /\ \A i \in 1..Len(Tail(wire[p0])) : Tail(wire[p0])[i] = wire[p0][i + 1]
      /\ 1 \in 1..Len(wire[p0]) /\ wire[p0][1].by = r
  BY <1>0, Shortened
<1>2. \A i \in 2..Len(wire[p0]) : wire[p0][i].by # r \/ wire[p0][i].by = Nobody
  BY <1>0, <1>1 DEF WireMatched
<1>3. CASE p # p0
  <2>1. wire'[p] = wire[p]
    BY <1>0, <1>3 DEF TypeOK
  <2>2. ASSUME NEW i \in 1..Len(wire[p])
        PROVE  wire[p][i].by # r \/ wire[p][i].by = Nobody
    <3>1. r # Nobody => pod[r] = p0
      BY <1>0, <1>1 DEF WireMatched, Matches
    <3>2. wire[p][i].by # Nobody => pod[wire[p][i].by] = p
      BY <1>0 DEF WireMatched, Matches
    <3> QED BY <1>3, <3>1, <3>2
  <2> QED BY <1>0, <2>1, <2>2, SameWire
<1>4. CASE p = p0 /\ wire' = [wire EXCEPT ![p0] = Tail(wire[p0])]
  <2> DEFINE f == [i \in 1..Len(wire'[p]) |-> i + 1]
  <2>1. wire'[p] = Tail(wire[p])
    BY <1>0, <1>4 DEF TypeOK
  <2>7. wire[p] # <<>>
    BY <1>4
  <2>8. /\ Len(Tail(wire[p])) = Len(wire[p]) - 1
        /\ \A i \in 1..Len(Tail(wire[p])) : Tail(wire[p])[i] = wire[p][i + 1]
    BY <1>0, <2>7, Shortened
  <2>0. /\ Len(wire'[p]) = Len(wire[p]) - 1
        /\ \A i \in 1..(Len(wire[p]) - 1) : wire'[p][i] = wire[p][i + 1]
    BY <2>1, <2>8
  <2>2. f \in [1..Len(wire'[p]) -> 0..Len(wire[p])]
    BY <1>0, <2>0
  <2>3. \A i \in 1..Len(wire'[p]) : f[i] = i + 1 /\ f[i] \in 2..Len(wire[p])
    BY <1>0, <2>0
  <2>4. \A i, j \in 1..Len(wire'[p]) : f[i] = f[j] => i = j
    BY <1>0, <2>0
  <2> HIDE DEF f
  <2>5. \A i \in 1..Len(wire'[p]) :
           /\ f[i] # 0 /\ wire'[p][i] = wire[p][f[i]]
           /\ wire[p][f[i]].by # r \/ wire[p][f[i]].by = Nobody
    BY <1>2, <1>4, <2>0, <2>3
  <2> QED BY <2>2, <2>4, <2>5 DEF Rewired
<1>5. ASSUME p = p0, NEW op \in Ops, NEW s \in Sids,
             wire' = [wire EXCEPT ![p0] = Append(Tail(wire[p0]), Command(r, op, s))],
             r \in Requests, pc'[r] = op, pod'[r] = p0, sid'[r] = s
      PROVE  Rewired(p, r)
  <2> DEFINE c == Command(r, op, s)
             w == Tail(wire[p])
             f == [i \in 1..Len(wire'[p]) |-> IF i = Len(wire[p]) THEN 0 ELSE i + 1]
  <2>1. /\ c \in Commands /\ c.by = r /\ c.op = op /\ c.sid = s
    BY <1>5 DEF Command, Commands
  <2>2. wire'[p] = Append(w, c)
    BY <1>0, <1>5 DEF TypeOK
  <2>3. w \in Seq(Commands) /\ Len(w) = Len(wire[p]) - 1
        /\ \A i \in 1..Len(w) : w[i] = wire[p][i + 1]
    BY <1>1, <1>5
  <2> HIDE DEF c, w
  <2>4. /\ Len(wire'[p]) = Len(wire[p])
        /\ wire'[p][Len(wire[p])] = c
        /\ \A i \in 1..(Len(wire[p]) - 1) : wire'[p][i] = wire[p][i + 1]
    BY <1>0, <2>1, <2>2, <2>3, AppendProperties
  <2>5. f \in [1..Len(wire'[p]) -> 0..Len(wire[p])]
    BY <1>0, <2>4
  <2>6. \A i, j \in 1..Len(wire'[p]) : f[i] = f[j] => i = j
    BY <1>0, <2>4
  <2>7. ASSUME NEW i \in 1..Len(wire'[p])
        PROVE  \/ /\ f[i] = 0 /\ wire'[p][i].by = r /\ pc'[r] = wire'[p][i].op
                  /\ pod'[r] = p /\ sid'[r] = wire'[p][i].sid
               \/ /\ f[i] # 0 /\ wire'[p][i] = wire[p][f[i]]
                  /\ wire[p][f[i]].by # r \/ wire[p][f[i]].by = Nobody
    <3>1. CASE i = Len(wire[p])
      BY <1>0, <1>5, <2>1, <2>4, <3>1
    <3>2. CASE i # Len(wire[p])
      <4>1. f[i] = i + 1 /\ i + 1 \in 2..Len(wire[p])
        BY <1>0, <2>4, <3>2
      <4>2. wire'[p][i] = wire[p][i + 1]
        BY <1>0, <2>4, <4>1
      <4> QED BY <1>2, <1>5, <4>1, <4>2
    <3> QED BY <3>1, <3>2
  <2> HIDE DEF f
  <2> QED BY <2>5, <2>6, <2>7 DEF Rewired
<1> QED BY <1>3, <1>4, <1>5

-----------------------------------------------------------------------------
(* The steps a request takes                                               *)

\* A step that leaves the maps alone.
LEMMA EntriesUntouched ==
    ASSUME IInv, NEW r,
           r \in Requests /\ pc[r] \in {"get", "touch"}
              => /\ pc'[r] \in {"get", "touch"}
                 /\ pod'[r] = pod[r] /\ sid'[r] = sid[r],
           r \in Requests => StillValidates(r),
           UNCHANGED shared, NEW p \in Pods, NEW s \in Sids
    PROVE  Entered(p, s, r)
<1>1. /\ hydrating' = hydrating /\ validating' = validating
      /\ hydrating[p][s] \in Requests \union {Nobody}
      /\ validating[p][s] \in Requests \union {Nobody}
  BY DEF shared, IInv, TypeOK
<1>2. /\ hydrating[p][s] # Nobody => /\ pc[hydrating[p][s]] \in {"get", "touch"}
                                     /\ pod[hydrating[p][s]] = p
                                     /\ sid[hydrating[p][s]] = s
      /\ validating[p][s] # Nobody => /\ pc[validating[p][s]] = "validate"
                                      /\ pod[validating[p][s]] = p
                                      /\ sid[validating[p][s]] = s
  BY DEF IInv, PendingIsRunning
<1> QED BY <1>1, <1>2 DEF Entered, StillValidates

\* A request moves on, with no effect on the connections and the maps.
LEMMA MoveKeeps ==
    ASSUME IInv, TypeOK', NEW r \in Requests, NEW where, GoTo(r, where),
           pc[r] \notin Ops \union {"validate"}, UNCHANGED <<wire, shared>>,
           UNCHANGED <<kind, pod, leader, got, verdict>>,
           \A q \in Requests : q # r => sid'[q] = sid[q],
           DeadStays, Local(r)'
    PROVE  IInv'
<1>1. Alone(r)
  BY DEF GoTo, Alone, IInv, TypeOK
<1>2. \A p \in Pods : Rewired(p, r)
  BY WireUntouched
<1>3. \A p \in Pods, s \in Sids : Entered(p, s, r)
  BY EntriesUntouched DEF StillValidates, Ops
<1> QED BY <1>1, <1>2, <1>3, AloneKeeps DEF StillValidates

\* A request that works for no session after the step is in order.
LEMMA LocalAnswered ==
    ASSUME NEW r \in Requests, IInv, pc'[r] = "answered", DeadStays,
           verdict'[r] = verdict[r], sid'[r] = sid[r]
    PROVE  Local(r)'
<1>1. VerdictTrue(r)
  BY DEF IInv, Local
<1> QED BY <1>1
        DEF Local, Carries, Carrying, CommandPcs, BackendPcs, SharedPcs, Led,
            VerdictTrue, CallOfKind, EndsRejected, DeadStays

\* A request is answered without having sent a command.
LEMMA AnswerKeeps ==
    ASSUME IInv, TypeOK', NEW r \in Requests, NEW how, NEW header,
           Answer(r, how, header),
           pc[r] \notin Ops \union {"validate"},
           UNCHANGED <<wire, shared>>,
           UNCHANGED <<kind, pod, sid, leader, got, verdict>>, DeadStays
    PROVE  IInv'
<1>1. GoTo(r, "answered") /\ pc'[r] = "answered"
  BY DEF Answer, GoTo, IInv, TypeOK
<1>2. Local(r)'
  BY <1>1, LocalAnswered
<1> QED BY <1>1, <1>2, MoveKeeps

\* A request sends the command that creates or deletes its session.
LEMMA IssueKeeps ==
    ASSUME IInv, TypeOK', NEW r \in Requests, NEW op \in {"create", "del"},
           Issue(r, op), pc[r] \notin Ops \union {"validate"}, sid[r] \in Sids,
           UNCHANGED <<kind, pod, sid, leader, got, verdict>>, DeadStays,
           \A p \in Pods, s \in Sids :
              /\ hydrating'[p][s] \in {Nobody, hydrating[p][s]}
              /\ validating'[p][s] \in {Nobody, validating[p][s]},
           verdict[r] = "pending" \/ op = "del",
           op = "del" /\ kind[r] \notin {"logout", "settings"}
              => token'[sid[r]] = "dead"
    PROVE  IInv'
<1>0. op \in Ops /\ pod[r] \in Pods
  BY DEF Ops, IInv, TypeOK
<1>1. pc'[r] = op /\ pod'[r] = pod[r] /\ sid'[r] = sid[r]
      /\ GoTo(r, op)
      /\ wire' = [wire EXCEPT ![pod[r]] =
                     Append(wire[pod[r]], Command(r, op, sid[r]))]
  BY DEF Issue, GoTo, IInv, TypeOK
<1>2. Alone(r)
  BY <1>1 DEF GoTo, Alone, IInv, TypeOK
<1>3. \A p \in Pods : Rewired(p, r)
  BY <1>0, <1>1, WireAppended
<1>4. ASSUME NEW p \in Pods, NEW s \in Sids
      PROVE  Entered(p, s, r)
  <2>1. hydrating[p][s] # r /\ validating[p][s] # r
    BY NobodyAssumption DEF IInv, PendingIsRunning, Ops
  <2> QED BY <2>1, NobodyAssumption DEF Entered
<1>5. Local(r)'
  <2>1. VerdictTrue(r)
    BY DEF IInv, Local
  <2> QED BY <1>1, <2>1
          DEF Local, Carries, Carrying, CommandPcs, BackendPcs, SharedPcs, Led,
              VerdictTrue, CallOfKind, EndsRejected, DeadStays
<1> QED BY <1>2, <1>3, <1>4, <1>5, AloneKeeps DEF StillValidates

\* A request destroys its session.
LEMMA DestroyKeeps ==
    ASSUME IInv, TypeOK', NEW r \in Requests, Destroy(r),
           pc[r] \notin Ops \union {"validate"}, sid[r] \in Sids,
           UNCHANGED <<kind, pod, sid, leader, got, verdict>>, DeadStays,
           kind[r] \notin {"logout", "settings"} => token'[sid[r]] = "dead"
    PROVE  IInv'
<1>1. ASSUME NEW p \in Pods, NEW s \in Sids
      PROVE  /\ hydrating'[p][s] \in {Nobody, hydrating[p][s]}
             /\ validating'[p][s] \in {Nobody, validating[p][s]}
  BY DEF Destroy, DropValidation, IInv, TypeOK
<1> QED BY <1>1, IssueKeeps DEF Destroy

\* A request validates its session or shares the validation of another.
LEMMA ValidateKeeps ==
    ASSUME IInv, TypeOK', NEW r \in Requests, Validate(r),
           pc[r] \in {"hydrated", "probe"}, sid[r] \in Sids,
           UNCHANGED <<kind, pod, sid, got, verdict, token>>
    PROVE  IInv'
<1> DEFINE v == validating[pod[r]][sid[r]]
<1>0. /\ pod[r] \in Pods /\ v \in Requests \union {Nobody}
      /\ pc[r] \notin Ops \union {"validate"} /\ TypeOK /\ VerdictTrue(r)
      /\ UNCHANGED <<wire, hydrating>> /\ DeadStays
  BY DEF IInv, TypeOK, Ops, Validate, Local, DeadStays
<1>1. verdict[r] = "pending"
  BY <1>0 DEF VerdictTrue
<1>2. \A p \in Pods : Rewired(p, r)
  BY <1>0, WireUntouched
<1>3. \A p \in Pods, s \in Sids : hydrating[p][s] # r /\ validating[p][s] # r
  BY <1>0, NobodyAssumption DEF IInv, PendingIsRunning, Ops
<1>4. CASE v = Nobody
  <2>1. /\ validating' = [validating EXCEPT ![pod[r]][sid[r]] = r]
        /\ leader' = [leader EXCEPT ![r] = r] /\ pc' = [pc EXCEPT ![r] = "validate"]
    BY <1>4 DEF Validate, GoTo
  <2>2. Alone(r) /\ pc'[r] = "validate" /\ leader'[r] = r
    BY <1>0, <2>1 DEF Alone, TypeOK
  <2>3. ASSUME NEW p \in Pods, NEW s \in Sids
        PROVE  Entered(p, s, r)
    <3>1. validating'[p][s] = IF p = pod[r] /\ s = sid[r] THEN r
                              ELSE validating[p][s]
      BY <1>0, <2>1 DEF TypeOK
    <3> QED BY <1>0, <1>3, <2>2, <3>1 DEF Entered
  <2>4. Local(r)'
    BY <1>0, <1>1, <2>2
       DEF Local, Carries, Carrying, CommandPcs, BackendPcs, SharedPcs, Led,
           VerdictTrue, CallOfKind, EndsRejected
  <2> QED BY <1>0, <1>2, <2>2, <2>3, <2>4, AloneKeeps DEF StillValidates
<1>5. CASE v # Nobody
  <2>1. /\ UNCHANGED validating
        /\ leader' = [leader EXCEPT ![r] = v] /\ pc' = [pc EXCEPT ![r] = "sharing"]
    BY <1>5 DEF Validate, GoTo
  <2>2. Alone(r) /\ pc'[r] = "sharing" /\ leader'[r] = v
    BY <1>0, <2>1 DEF Alone, TypeOK
  <2>3. \A p \in Pods, s \in Sids : Entered(p, s, r)
    BY <1>0, <1>3, <2>1 DEF Entered
  <2>4. v \in Requests /\ pc[v] = "validate" /\ pod[v] = pod[r] /\ sid[v] = sid[r]
    BY <1>0, <1>5 DEF IInv, PendingIsRunning
  <2>5. pc'[v] = "validate" /\ pod'[v] = pod[v] /\ sid'[v] = sid[v]
    BY <1>0, <2>1, <2>4 DEF TypeOK
  <2> HIDE DEF v
  <2>6. Local(r)'
    BY <1>0, <1>1, <2>2, <2>4, <2>5
       DEF Local, Carries, Carrying, CommandPcs, BackendPcs, SharedPcs, Led,
           VerdictTrue, CallOfKind, EndsRejected
  <2> QED BY <1>0, <1>2, <2>2, <2>3, <2>6, AloneKeeps DEF StillValidates
<1> QED BY <1>4, <1>5

-----------------------------------------------------------------------------
(* The actions                                                             *)

\* The browser sends a request.
LEMMA SendKeeps ==
    ASSUME IInv, NEW r \in Requests, NEW k \in Kinds, NEW p \in Pods,
           SendLogin(r, p) \/ SendWithCookie(r, k, p)
    PROVE  IInv'
<1>0. /\ TypeOK' /\ TypeOK /\ pc[r] = "idle" /\ verdict[r] = "pending"
      /\ UNCHANGED <<token, verdict, validating>> /\ DeadStays
      /\ pod' = [pod EXCEPT ![r] = p]
      /\ \E kk \in Kinds : kind' = [kind EXCEPT ![r] = kk]
  <2>1. TypeOK' /\ TypeOK
    BY Parts, SendType
  <2>2. VerdictTrue(r)
    BY DEF IInv, Local
  <2> QED BY <2>1, <2>2
          DEF SendLogin, SendWithCookie, Send, VerdictTrue, DeadStays, Kinds
<1>1. \A q \in Requests : q # r => /\ pod'[q] = pod[q] /\ kind'[q] = kind[q]
                                   /\ verdict'[q] = verdict[q]
  BY <1>0 DEF TypeOK
<1>2. pod'[r] = p /\ verdict'[r] = "pending" /\ pc[r] \notin Ops
  BY <1>0 DEF TypeOK, Ops
<1>3. \A q \in Pods, s \in Sids : hydrating[q][s] # r /\ validating[q][s] # r
  BY <1>0, NobodyAssumption DEF IInv, PendingIsRunning
<1>4. ASSUME NEW where \in {"login", "hydrated", "joined"}, GoTo(r, where),
             UNCHANGED <<wire, hydrating>>,
             \A q \in Requests : q # r => /\ sid'[q] = sid[q] /\ got'[q] = got[q]
                                          /\ leader'[q] = leader[q],
             where = "hydrated" => got'[r] = "none",
             where = "joined" => sid'[r] \in Sids
      PROVE  IInv'
  <2>1. Alone(r) /\ pc'[r] = where
    BY <1>0, <1>1, <1>4 DEF Alone, GoTo, TypeOK
  <2>2. \A q \in Pods : Rewired(q, r)
    BY <1>2, <1>4, WireUntouched
  <2>3. \A q \in Pods, s \in Sids : Entered(q, s, r)
    BY <1>0, <1>2, <1>4, EntriesUntouched DEF StillValidates, shared
  <2>4. Local(r)'
    BY <1>2, <1>4, <2>1
       DEF Local, Carries, Carrying, CommandPcs, BackendPcs, SharedPcs, Led,
           VerdictTrue, CallOfKind, EndsRejected
  <2> QED BY <1>0, <2>1, <2>2, <2>3, <2>4, AloneKeeps DEF StillValidates
<1>5. CASE SendLogin(r, p)
  BY <1>4, <1>5 DEF SendLogin
<1>6. CASE SendWithCookie(r, k, p) /\ cookie = NoSid
  <2>1. /\ GoTo(r, "hydrated") /\ UNCHANGED <<wire, hydrating, leader>>
        /\ sid' = [sid EXCEPT ![r] = cookie] /\ got' = [got EXCEPT ![r] = "none"]
    BY <1>6 DEF SendWithCookie
  <2>2. /\ got'[r] = "none"
        /\ \A q \in Requests : q # r => sid'[q] = sid[q] /\ got'[q] = got[q]
    BY <1>0, <2>1 DEF TypeOK
  <2> QED BY <1>4, <2>1, <2>2
<1>7. CASE SendWithCookie(r, k, p) /\ cookie # NoSid
  <2>1. /\ Hydrate(r, p, cookie) /\ UNCHANGED got /\ cookie \in Sids
        /\ sid' = [sid EXCEPT ![r] = cookie]
    BY <1>0, <1>7 DEF SendWithCookie, TypeOK
  <2>2. sid'[r] = cookie /\ \A q \in Requests : q # r => sid'[q] = sid[q]
    BY <1>0, <2>1 DEF TypeOK
  <2>3. CASE hydrating[p][cookie] # Nobody
    <3>1. /\ GoTo(r, "joined") /\ UNCHANGED <<wire, hydrating>>
          /\ leader' = [leader EXCEPT ![r] = hydrating[p][cookie]]
      BY <2>1, <2>3 DEF Hydrate
    <3>2. \A q \in Requests : q # r => leader'[q] = leader[q]
      BY <1>0, <3>1 DEF TypeOK
    <3> QED BY <1>4, <2>1, <2>2, <3>1, <3>2
  <2>4. CASE hydrating[p][cookie] = Nobody
    <3>1. /\ hydrating' = [hydrating EXCEPT ![p][cookie] = r]
          /\ wire' = [wire EXCEPT ![p] =
                         Append(wire[p], Command(r, "get", cookie))]
          /\ leader' = [leader EXCEPT ![r] = r] /\ pc' = [pc EXCEPT ![r] = "get"]
      BY <2>1, <2>4 DEF Hydrate, GoTo
    <3>2. /\ pc'[r] = "get" /\ leader'[r] = r
          /\ \A q \in Requests : q # r => leader'[q] = leader[q] /\ pc'[q] = pc[q]
      BY <1>0, <3>1 DEF TypeOK
    <3>3. Alone(r)
      BY <1>1, <2>1, <2>2, <3>2 DEF Alone
    <3>4. \A q \in Pods : Rewired(q, r)
      BY <1>2, <2>1, <2>2, <3>1, <3>2, WireAppended DEF Ops
    <3>5. ASSUME NEW q \in Pods, NEW s \in Sids
          PROVE  Entered(q, s, r)
      <4>1. hydrating'[q][s] = IF q = p /\ s = cookie THEN r ELSE hydrating[q][s]
        BY <1>0, <2>1, <3>1 DEF TypeOK
      <4> QED BY <1>0, <1>2, <1>3, <2>2, <3>2, <4>1 DEF Entered
    <3>6. Local(r)'
      BY <1>2, <2>1, <2>2, <3>2
         DEF Local, Carries, Carrying, CommandPcs, BackendPcs, SharedPcs, Led,
             VerdictTrue, CallOfKind, EndsRejected
    <3> QED BY <1>0, <3>3, <3>4, <3>5, <3>6, AloneKeeps DEF StillValidates
  <2> QED BY <2>3, <2>4
<1> QED BY <1>5, <1>6, <1>7

\* The browser receives an answer.
LEMMA ReceiveKeeps ==
    ASSUME IInv, NEW r \in Requests, Receive(r)
    PROVE  IInv'
<1>1. TypeOK'
  BY Parts, ReceiveType
<1>2. /\ GoTo(r, "done") /\ pc[r] = "answered" /\ pc'[r] = "done" /\ DeadStays
      /\ UNCHANGED <<wire, shared>> /\ UNCHANGED <<kind, pod, sid, leader, got, verdict, token>>
  BY DEF Receive, GoTo, IInv, TypeOK, DeadStays
<1>3. VerdictTrue(r)
  BY DEF IInv, Local
<1>4. Local(r)'
  BY <1>2, <1>3
     DEF Local, Carries, Carrying, CommandPcs, BackendPcs, SharedPcs, Led,
         VerdictTrue, CallOfKind, EndsRejected
<1> QED BY <1>1, <1>2, <1>4, MoveKeeps DEF Ops

\* Sessions and tokens age, wherever requests are.
LEMMA AgeKeeps ==
    ASSUME IInv, NEW s \in Sids,
           SessionAges(s) \/ SessionExpires(s) \/ TokenExpires(s)
    PROVE  IInv'
<1>0. UNCHANGED <<wire, shared, request>>
  BY DEF SessionAges, SessionExpires, TokenExpires
<1>1. TypeOK' /\ DeadStays
  <2>1. CASE SessionAges(s) \/ SessionExpires(s)
    BY <2>1 DEF SessionAges, SessionExpires, IInv, TypeOK, shared, request, DeadStays
  <2>2. CASE TokenExpires(s)
    BY <2>2 DEF TokenExpires, IInv, TypeOK, shared, request, DeadStays
  <2> QED BY <2>1, <2>2
<1>2. /\ Alone(Nobody)
      /\ \A p \in Pods : Rewired(p, Nobody)
      /\ \A p \in Pods, t \in Sids : Entered(p, t, Nobody)
  <2>1. Alone(Nobody)
    BY <1>0 DEF Alone, request
  <2>2. \A p \in Pods : Rewired(p, Nobody)
    BY <1>0, WireUntouched, NobodyAssumption
  <2>3. \A p \in Pods, t \in Sids : Entered(p, t, Nobody)
    BY <1>0, EntriesUntouched, NobodyAssumption
  <2> QED BY <2>1, <2>2, <2>3
<1> QED BY <1>1, <1>2, AloneKeeps, NobodyAssumption

\* Valkey executes a command: who awaits it and what it is stay the same.
LEMMA ExecuteKeeps ==
    ASSUME IInv, NEW p0 \in Pods, Execute(p0) \/ LateAnswer(p0)
    PROVE  IInv'
<1>0. /\ TypeOK' /\ TypeOK /\ UNCHANGED <<token, shared, request>> /\ DeadStays
  BY Parts, ExecuteType DEF Execute, LateAnswer, DeadStays
<1>1. Alone(Nobody)
  BY <1>0 DEF Alone, request
<1>2. \A p \in Pods, s \in Sids : Entered(p, s, Nobody)
  BY <1>0, EntriesUntouched, NobodyAssumption
<1>3. ASSUME NEW p \in Pods
      PROVE  Rewired(p, Nobody)
  <2>1. CASE LateAnswer(p0)
    <3>1. /\ wire[p0] # <<>> /\ Head(wire[p0]).by = Nobody
          /\ wire' = [wire EXCEPT ![p0] = Tail(wire[p0])]
      BY <2>1 DEF LateAnswer, Answered
    <3> QED BY <3>1, WireAnswered
  <2>2. CASE Execute(p0) /\ p # p0
    <3>1. wire'[p] = wire[p]
      BY <1>0, <2>2 DEF Execute, TypeOK
    <3> QED BY <1>0, <3>1, SameWire
  <2>3. CASE Execute(p0) /\ p = p0
    <3>1. PICK k \in 1..Len(wire[p]) :
             wire' = [wire EXCEPT ![p][k].result = Outcome(wire[p][k])]
      BY <2>3 DEF Execute
    <3> DEFINE c == wire[p][k]
               d == [c EXCEPT !.result = Outcome(c)]
               f == [i \in 1..Len(wire'[p]) |-> i]
    <3>2. /\ wire[p] \in Seq(Commands) /\ Len(wire[p]) \in Nat
          /\ \A i \in 1..Len(wire[p]) : wire[p][i] \in Commands
      BY <1>0, LenProperties, ElementOfSeq DEF TypeOK
    <3>3. d.by = c.by /\ d.op = c.op /\ d.sid = c.sid
      BY <3>2 DEF Commands
    <3>4. wire'[p] = [wire[p] EXCEPT ![k] = d]
      BY <1>0, <3>1 DEF TypeOK
    <3>5. d \in Commands
      <4>1. Outcome(c) \in Found \union {"unsent", "ok"}
        BY <1>0, <3>2 DEF Outcome, Found, TypeOK, Commands
      <4> QED BY <3>2, <4>1 DEF Commands
    <3> HIDE DEF d
    <3>6. /\ Len(wire'[p]) = Len(wire[p])
          /\ \A i \in 1..Len(wire[p]) :
                wire'[p][i] = IF i = k THEN d ELSE wire[p][i]
      BY <3>2, <3>4, <3>5, ExceptSeq
    <3>7. f \in [1..Len(wire'[p]) -> 0..Len(wire[p])]
      BY <3>2, <3>6
    <3>8. \A i \in 1..Len(wire'[p]) :
            /\ f[i] # 0 /\ f[i] = i
            /\ wire'[p][i].op = wire[p][i].op /\ wire'[p][i].sid = wire[p][i].sid
            /\ wire'[p][i].by = wire[p][i].by
      BY <3>2, <3>3, <3>6
    <3> HIDE DEF f
    <3> QED BY <3>7, <3>8 DEF Rewired
  <2> QED BY <2>1, <2>2, <2>3
<1> QED BY <1>0, <1>1, <1>2, <1>3, AloneKeeps, NobodyAssumption

\* The command of a login or a destruction is answered, and so is its request.
LEMMA AnsweredCommandKeeps ==
    ASSUME IInv, NEW r \in Requests, CreateAnswered(r) \/ DelAnswered(r)
    PROVE  IInv'
<1>0. TypeOK' /\ TypeOK
  BY Parts, AnsweredCommandType
<1>1. /\ wire[pod[r]] # <<>> /\ Head(wire[pod[r]]).by = r
      /\ Head(wire[pod[r]]).op \in {"create", "del"} /\ pod[r] \in Pods
      /\ wire' = [wire EXCEPT ![pod[r]] = Tail(wire[pod[r]])]
      /\ UNCHANGED <<token, shared, kind, pod, sid, leader, got, verdict>>
      /\ pc' = [pc EXCEPT ![r] = "answered"]
  BY <1>0 DEF CreateAnswered, DelAnswered, Answers, Answered, Answer, GoTo, Settled,
              TypeOK
<1>2. pc[r] \in {"create", "del"}
  BY <1>0, <1>1, Shortened, NobodyAssumption DEF IInv, WireMatched, Matches
<1>3. Alone(r) /\ pc'[r] = "answered" /\ DeadStays
  BY <1>0, <1>1 DEF Alone, TypeOK, DeadStays
<1>4. \A p \in Pods : Rewired(p, r)
  BY <1>1, WireAnswered
<1>5. \A p \in Pods, s \in Sids : Entered(p, s, r)
  BY <1>1, <1>2, EntriesUntouched DEF StillValidates
<1>6. Local(r)'
  BY <1>1, <1>3, LocalAnswered
<1> QED BY <1>0, <1>2, <1>3, <1>4, <1>5, <1>6, AloneKeeps DEF StillValidates

\* A handler goes on with what its hydration resolved to.
LEMMA ContinueKeeps ==
    ASSUME IInv, NEW r \in Requests, Continue(r)
    PROVE  IInv'
<1>0. /\ TypeOK' /\ TypeOK /\ CarriesSession /\ pc[r] = "hydrated" /\ DeadStays
      /\ UNCHANGED <<token, kind, pod, sid, got, verdict>>
      /\ pc[r] \notin Ops \union {"validate"}
  BY Parts, ContinueType DEF Continue, DeadStays, Ops
<1>1. ASSUME NEW how, NEW header, Answer(r, how, header),
             UNCHANGED <<wire, shared, leader>>
      PROVE  IInv'
  BY <1>0, <1>1, AnswerKeeps
<1>2. CASE HydrationFailed(r) \/ NoSession(r)
  BY <1>1, <1>2 DEF HydrationFailed, NoSession
<1>3. CASE HasSession(r)
  <2>1. sid[r] \in Sids
    BY <1>0, <1>3 DEF HasSession, CarriesSession, Carries
  <2>2. CASE Validate(r)
    BY <1>0, <2>1, <2>2, ValidateKeeps
  <2>3. ASSUME NEW where, GoTo(r, where), UNCHANGED <<wire, shared, leader>>,
               \/ kind[r] = "logout" /\ where = "signout"
               \/ kind[r] = "settings" /\ where = "identify"
               \/ where \in {"upstream", "probe"}
        PROVE  IInv'
    <3>1. pc'[r] = where
      BY <1>0, <2>3 DEF GoTo, TypeOK
    <3>2. VerdictTrue(r)
      BY DEF IInv, Local
    <3>3. Local(r)'
      BY <1>0, <2>1, <2>3, <3>1, <3>2
         DEF Local, Carries, Carrying, CommandPcs, BackendPcs, SharedPcs, Led,
             VerdictTrue, CallOfKind, EndsRejected
    <3> QED BY <1>0, <2>3, <3>3, MoveKeeps
  <2> QED BY <1>1, <1>3, <2>2, <2>3 DEF HasSession
<1> QED BY <1>2, <1>3 DEF Continue

\* The calls of a login.
LEMMA LoginKeeps ==
    ASSUME IInv, NEW r \in Requests,
           \/ LoginAccepted(r) \/ LoginRefused(r) \/ WhoamiMatches(r)
           \/ WhoamiMismatch(r) \/ Revoke(r)
    PROVE  IInv'
<1>0. /\ TypeOK' /\ TypeOK /\ CarriesSession /\ DeadStays
      /\ UNCHANGED <<kind, pod, got, verdict, leader>>
      /\ pc[r] \in {"login", "whoami", "revoke"}
      /\ pc[r] \notin Ops \union {"validate"}
      /\ verdict[r] = "pending"
  <2>1. TypeOK' /\ TypeOK /\ CarriesSession
    BY Parts, LoginType
  <2>2. DeadStays
    BY <2>1 DEF LoginAccepted, LoginRefused, WhoamiMatches, WhoamiMismatch, Revoke,
                Unissued, DeadStays, TypeOK
  <2>3. UNCHANGED <<kind, pod, got, verdict, leader>>
    BY DEF LoginAccepted, LoginRefused, WhoamiMatches, WhoamiMismatch, Revoke, Settled
  <2>4. pc[r] \in {"login", "whoami", "revoke"}
    BY DEF LoginAccepted, LoginRefused, WhoamiMatches, WhoamiMismatch, Revoke
  <2>5. VerdictTrue(r)
    BY DEF IInv, Local
  <2> QED BY <2>1, <2>2, <2>3, <2>4, <2>5 DEF Ops, VerdictTrue
<1>1. CASE LoginRefused(r) \/ Revoke(r)
  BY <1>0, <1>1, AnswerKeeps DEF LoginRefused, Revoke
<1>2. CASE WhoamiMatches(r)
  <2>1. sid[r] \in Sids
    BY <1>0, <1>2
       DEF WhoamiMatches, CarriesSession, Carries, Carrying, BackendPcs
  <2>2. Issue(r, "create") /\ UNCHANGED <<shared, sid>>
    BY <1>2 DEF WhoamiMatches
  <2>3. ASSUME NEW p \in Pods, NEW s \in Sids
        PROVE  /\ hydrating'[p][s] \in {Nobody, hydrating[p][s]}
               /\ validating'[p][s] \in {Nobody, validating[p][s]}
    BY <2>2 DEF shared
  <2> QED BY <1>0, <2>1, <2>2, <2>3, IssueKeeps
<1>3. ASSUME NEW where \in {"whoami", "revoke"}, GoTo(r, where),
             UNCHANGED <<wire, shared>>, sid'[r] \in Sids,
             \A q \in Requests : q # r => sid'[q] = sid[q]
      PROVE  IInv'
  <2>1. pc'[r] = where /\ verdict'[r] = "pending"
    BY <1>0, <1>3 DEF GoTo, TypeOK
  <2>2. Local(r)'
    BY <1>3, <2>1
       DEF Local, Carries, Carrying, CommandPcs, BackendPcs, SharedPcs, Led,
           VerdictTrue, CallOfKind, EndsRejected
  <2> QED BY <1>0, <1>3, <2>2, MoveKeeps
<1>4. CASE LoginAccepted(r)
  <2>1. PICK s \in Sids : sid' = [sid EXCEPT ![r] = s]
    BY <1>4 DEF LoginAccepted
  <2>2. sid'[r] \in Sids /\ \A q \in Requests : q # r => sid'[q] = sid[q]
    BY <1>0, <2>1 DEF TypeOK
  <2> QED BY <1>3, <1>4, <2>2 DEF LoginAccepted
<1>5. CASE WhoamiMismatch(r)
  <2>1. sid'[r] \in Sids /\ \A q \in Requests : sid'[q] = sid[q]
    BY <1>0, <1>5
       DEF WhoamiMismatch, CarriesSession, Carries, Carrying, BackendPcs
  <2> QED BY <1>3, <1>5, <2>1 DEF WhoamiMismatch
<1> QED BY <1>1, <1>2, <1>4, <1>5

\* The backend calls of a handler with a session.
LEMMA CallKeeps ==
    ASSUME IInv, NEW r \in Requests,
           SignOut(r) \/ Upstream(r) \/ Probe(r) \/ Identify(r)
    PROVE  IInv'
<1>0. /\ TypeOK' /\ TypeOK /\ sid[r] \in Sids /\ DeadStays
      /\ UNCHANGED <<kind, pod, sid, got, verdict>>
      /\ pc[r] \in {"signout", "upstream", "probe", "identify"}
      /\ pc[r] \notin Ops \union {"validate"}
      /\ CallOfKind(r) /\ VerdictTrue(r)
  <2>1. TypeOK' /\ TypeOK /\ CarriesSession
    BY Parts, CallType
  <2>2. DeadStays
    BY <2>1 DEF SignOut, Upstream, Probe, Identify, DeadStays, TypeOK
  <2>3. UNCHANGED <<kind, pod, sid, got, verdict>>
    BY DEF SignOut, Upstream, Probe, Identify, Settled
  <2>4. pc[r] \in {"signout", "upstream", "probe", "identify"}
    BY DEF SignOut, Upstream, Probe, Identify
  <2>5. sid[r] \in Sids
    BY <2>1, <2>4 DEF CarriesSession, Carries, Carrying, BackendPcs
  <2>6. CallOfKind(r) /\ VerdictTrue(r)
    BY DEF IInv, Local
  <2> QED BY <2>1, <2>2, <2>3, <2>4, <2>5, <2>6 DEF Ops
<1>1. ASSUME NEW how, NEW header, Answer(r, how, header),
             UNCHANGED <<wire, shared, leader>>
      PROVE  IInv'
  BY <1>0, <1>1, AnswerKeeps
<1>2. ASSUME GoTo(r, "upstream"), UNCHANGED <<wire, shared, leader>>
      PROVE  IInv'
  <2>1. pc'[r] = "upstream" /\ verdict'[r] = "pending"
    BY <1>0, <1>2 DEF GoTo, TypeOK, VerdictTrue
  <2>2. Local(r)'
    BY <1>0, <2>1
       DEF Local, Carries, Carrying, CommandPcs, BackendPcs, SharedPcs, Led,
           VerdictTrue, CallOfKind, EndsRejected
  <2> QED BY <1>0, <1>2, <2>2, MoveKeeps
<1>3. ASSUME Destroy(r), UNCHANGED leader,
             kind[r] \in {"logout", "settings"} \/ token[sid[r]] = "dead"
      PROVE  IInv'
  <2>1. kind[r] \notin {"logout", "settings"} => token'[sid[r]] = "dead"
    BY <1>0, <1>3 DEF DeadStays
  <2> QED BY <1>0, <1>3, <2>1, DestroyKeeps
<1>4. CASE SignOut(r)
  BY <1>0, <1>3, <1>4 DEF SignOut, CallOfKind
<1>5. CASE Upstream(r)
  BY <1>1, <1>3, <1>5 DEF Upstream
<1>6. CASE Identify(r)
  BY <1>0, <1>2, <1>3, <1>6 DEF Identify, CallOfKind
<1>7. CASE Probe(r)
  <2>1. CASE Validate(r)
    BY <1>0, <1>7, <2>1, ValidateKeeps DEF Probe
  <2> QED BY <1>1, <1>2, <1>7, <2>1 DEF Probe, ProbeUnauthorized
<1> QED BY <1>4, <1>5, <1>6, <1>7

\* A backend call fails.
LEMMA CallFailsKeeps ==
    ASSUME IInv, NEW r \in Requests, CallFails(r)
    PROVE  IInv'
<1>1. TypeOK' /\ TypeOK
  BY Parts, CallFailsType
<1>2. DeadStays
  BY <1>1 DEF CallFails, DeadStays, Unissued, TypeOK
<1> QED BY <1>1, <1>2, AnswerKeeps DEF CallFails, Settled, Ops

-----------------------------------------------------------------------------
(* Every session id in use has been issued with a token                    *)

\* The ids in cookies, requests and answers.
Known ==
    /\ cookie \in Sids => token[cookie] # "none"
    /\ \A r \in Requests :
          /\ sid[r] \in Sids => token[sid[r]] # "none"
          /\ setCookie[r] \in Sids => token[setCookie[r]] # "none"

\* A token once issued stays issued.
IssuedStays == \A s \in Sids : token[s] # "none" => token'[s] # "none"

\* The steps that use the ids there are.
LEMMA KnownStays ==
    ASSUME TypeOK, Known, IssuedStays,
           cookie' \in {cookie, NoSid} \/ \E r \in Requests : cookie' = setCookie[r],
           \A r \in Requests :
              /\ sid'[r] = sid[r] \/ sid'[r] = cookie
                 \/ (sid'[r] \in Sids => token'[sid'[r]] # "none")
              /\ setCookie'[r] \in {setCookie[r], KeepCookie, ClearCookie, sid[r]}
    PROVE  Known'
<1>1. NoSid \notin Sids /\ KeepCookie \notin Sids /\ ClearCookie \notin Sids
  BY BoundsAssumption DEF Sids, NoSid, KeepCookie, ClearCookie
<1>2. cookie' \in Sids => token'[cookie'] # "none"
  BY <1>1 DEF Known, IssuedStays
<1>3. ASSUME NEW r \in Requests
      PROVE  /\ sid'[r] \in Sids => token'[sid'[r]] # "none"
             /\ setCookie'[r] \in Sids => token'[setCookie'[r]] # "none"
  BY <1>1 DEF Known, IssuedStays
<1> QED BY <1>2, <1>3 DEF Known

\* An answer that sets the cookie sets it to the id of its request.
LEMMA AnswerKnown ==
    ASSUME TypeOK, NEW r \in Requests, NEW how, NEW header, Answer(r, how, header)
    PROVE  \A q \in Requests :
              setCookie'[q] = IF q = r THEN header ELSE setCookie[q]
BY DEF Answer, TypeOK

\* An issue of a token.
LEMMA TokenKnown ==
    ASSUME TypeOK,
           \/ UNCHANGED token
           \/ \E s \in Sids, v \in {"live", "dead"} : token' = [token EXCEPT ![s] = v]
    PROVE  IssuedStays
BY DEF TypeOK, IssuedStays

\* No step uses an id that has not been issued.
LEMMA KnownKeeps ==
    ASSUME IInv, Known, [Next]_vars
    PROVE  Known'
<1>0. TypeOK /\ CarriesSession
  BY Parts
<1> USE <1>0
<1>1. ASSUME UNCHANGED cookie, UNCHANGED setCookie, UNCHANGED sid, UNCHANGED token
      PROVE  Known'
  BY <1>1 DEF Known
<1>2. ASSUME UNCHANGED <<cookie, sid>>, NEW r \in Requests,
             UNCHANGED setCookie \/ \E how \in Replies :
                \E header \in {KeepCookie, ClearCookie, sid[r]} :
                   Answer(r, how, header),
             IssuedStays
      PROVE  Known'
  <2>1. \A q \in Requests :
           setCookie'[q] \in {setCookie[q], KeepCookie, ClearCookie, sid[q]}
    BY <1>2, AnswerKnown
  <2>2. cookie' = cookie /\ \A q \in Requests : sid'[q] = sid[q]
    BY <1>2
  <2> QED BY <1>2, <2>1, <2>2, KnownStays
<1>3. ASSUME NEW r \in Requests, NEW k \in Kinds, NEW p \in Pods,
             SendLogin(r, p) \/ SendWithCookie(r, k, p)
      PROVE  Known'
  <2>1. UNCHANGED <<token, cookie, setCookie>>
    BY <1>3 DEF SendLogin, SendWithCookie, Send, Unanswered
  <2>2. UNCHANGED sid \/ sid' = [sid EXCEPT ![r] = cookie]
    BY <1>3 DEF SendLogin, SendWithCookie
  <2>3. \A q \in Requests : sid'[q] = sid[q] \/ sid'[q] = cookie
    BY <2>2 DEF TypeOK
  <2> QED BY <2>1, <2>3, KnownStays DEF IssuedStays
<1>4. ASSUME NEW r \in Requests, Receive(r)
      PROVE  Known'
  <2>1. /\ UNCHANGED <<token, sid, setCookie>>
        /\ cookie' = cookie \/ cookie' = setCookie[r]
    BY <1>4 DEF Receive
  <2> QED BY <2>1, KnownStays DEF IssuedStays
<1>5. ASSUME NEW r \in Requests, LoginAccepted(r)
      PROVE  Known'
  <2>1. PICK s \in Sids : /\ token' = [token EXCEPT ![s] = "live"]
                          /\ sid' = [sid EXCEPT ![r] = s]
    BY <1>5 DEF LoginAccepted
  <2>2. UNCHANGED <<cookie, setCookie>>
    BY <1>5 DEF LoginAccepted, Unanswered, Settled
  <2>3. IssuedStays
    BY <2>1, TokenKnown
  <2>4. \A q \in Requests : sid'[q] = sid[q] \/ token'[sid'[q]] # "none"
    BY <2>1 DEF TypeOK
  <2> QED BY <2>2, <2>3, <2>4, KnownStays
<1>6. ASSUME NEW r \in Requests, Handler(r), ~LoginAccepted(r)
      PROVE  Known'
  <2> USE DEF Settled, shared, request, Unanswered
  <2>1. UNCHANGED <<cookie, sid>>
    BY <1>6 DEF Handler, GetAnswered, TouchAnswered, CreateAnswered, DelAnswered,
         Continue, WhoamiMatches, WhoamiMismatch, LoginRefused, Revoke, SignOut,
         Upstream, Probe, Identify, BackendValidates, ValidationSettles, Conclude
  <2>2. IssuedStays
    <3>1. SignOut(r) \/ Revoke(r) => sid[r] \in Sids
      BY DEF SignOut, Revoke, CarriesSession, Carries, Carrying, BackendPcs
    <3>2. \/ UNCHANGED token
          \/ \E s \in Sids, v \in {"live", "dead"} : token' = [token EXCEPT ![s] = v]
      BY <1>6, <3>1 DEF Handler, GetAnswered, TouchAnswered, CreateAnswered,
         DelAnswered, Continue, WhoamiMatches, WhoamiMismatch, LoginRefused, Revoke,
         SignOut, Upstream, Probe, Identify, BackendValidates, ValidationSettles,
         Conclude
    <3> QED BY <3>2, TokenKnown
  <2>3. UNCHANGED setCookie \/ \E how \in Replies :
            \E header \in {KeepCookie, ClearCookie, sid[r]} : Answer(r, how, header)
    <3>1. CASE \/ GetAnswered(r) \/ TouchAnswered(r) \/ WhoamiMatches(r)
               \/ WhoamiMismatch(r) \/ SignOut(r) \/ BackendValidates(r)
               \/ ValidationSettles(r)
      BY <3>1 DEF GetAnswered, TouchAnswered, WhoamiMatches, WhoamiMismatch, SignOut,
         BackendValidates, ValidationSettles, Destroy
    <3>2. CASE CreateAnswered(r) \/ DelAnswered(r)
      BY <3>2 DEF CreateAnswered, DelAnswered, DestroyedCookie, DestroyedReply, Replies
    <3>3. CASE Continue(r)
      BY <3>3 DEF Continue, HydrationFailed, NoSession, HasSession, Validate,
         NoSessionCookie, NoSessionReply, Replies
    <3>4. CASE LoginRefused(r) \/ Revoke(r) \/ Upstream(r) \/ Probe(r) \/ Identify(r)
      BY <3>4 DEF LoginRefused, Revoke, Upstream, Probe, Identify, Destroy, Validate,
         ProbeUnauthorized, Replies
    <3>5. CASE Conclude(r)
      BY <3>5 DEF Conclude, Destroy, Replies
    <3> QED BY <1>6, <3>1, <3>2, <3>3, <3>4, <3>5 DEF Handler
  <2> QED BY <1>2, <2>1, <2>2, <2>3
<1>7. ASSUME NEW p \in Pods, Execute(p) \/ LateAnswer(p) \/ Restart(p)
      PROVE  Known'
  BY <1>1, <1>7 DEF Execute, LateAnswer, Restart, request
<1>8. CASE Environment
  <2>1. IssuedStays
    BY <1>8, TokenKnown DEF Environment, SessionAges, SessionExpires, TokenExpires
  <2>2. UNCHANGED <<cookie, sid, setCookie>>
    BY <1>8 DEF Environment, SessionAges, SessionExpires, TokenExpires, request
  <2> QED BY <2>1, <2>2, KnownStays
<1>9. ASSUME NEW r \in Requests, CallFails(r)
      PROVE  Known'
  <2>1. IssuedStays
    BY <1>9, TokenKnown DEF CallFails
  <2> QED BY <1>2, <1>9, <2>1 DEF CallFails, Settled, Replies
<1>10. ASSUME NEW p \in Pods, NEW i \in 1..Len(wire[p]), CommandFails(p, i)
       PROVE  Known'
  <2> DEFINE r == wire[p][i].by
  <2>1. UNCHANGED <<token, cookie, sid>> /\ Rejected(r) /\ r \in Requests
        /\ pc[r] \in Ops
    <3>1. wire[p][i] \in Commands
      BY ElementOfSeq DEF TypeOK
    <3> QED BY <1>10, <3>1 DEF CommandFails, Commands, IInv, WireMatched, Matches
  <2>2. UNCHANGED setCookie \/ Answer(r, "error", KeepCookie)
    BY <2>1 DEF Rejected, CreateRejected, DelRejected, Unanswered, Ops
  <2> QED BY <1>2, <2>1, <2>2 DEF IssuedStays, Replies
<1>11. CASE UNCHANGED vars
  BY <1>1, <1>11 DEF vars, request
<1>12. "status" \in Kinds
  BY DEF Kinds
<1> QED BY <1>3, <1>4, <1>5, <1>6, <1>7, <1>8, <1>9, <1>10, <1>11, <1>12
        DEF Next, Sending, Failing

-----------------------------------------------------------------------------
(* Validations, hydrations and failures                                    *)

\* The backend answers a validation, truthfully.
LEMMA BackendValidatesKeeps ==
    ASSUME IInv, Known, NEW r \in Requests, BackendValidates(r)
    PROVE  IInv'
<1>0. /\ TypeOK' /\ TypeOK /\ sid[r] \in Sids /\ pc[r] = "validate"
      /\ UNCHANGED <<token, wire, shared, kind, pod, sid, leader, got, pc>>
      /\ DeadStays /\ Local(r)
  <2>1. TypeOK' /\ TypeOK /\ CarriesSession
    BY Parts, ValidationType
  <2> QED BY <2>1
          DEF BackendValidates, CarriesSession, Carries, Carrying, BackendPcs,
              DeadStays, IInv
<1>1. \A q \in Requests : q # r => verdict'[q] = verdict[q]
  BY <1>0 DEF BackendValidates, TypeOK
<1>2. verdict'[r] = "expired" => token[sid[r]] = "dead"
  <2>1. token[sid[r]] \in {"live", "dead"}
    BY <1>0 DEF Known, TypeOK
  <2> QED BY <1>0, <2>1 DEF BackendValidates, TypeOK
<1>3. Local(r)'
  BY <1>0, <1>2
     DEF Local, Carries, Carrying, CommandPcs, BackendPcs, SharedPcs, Led,
         VerdictTrue, CallOfKind, EndsRejected
<1>4. Alone(r)
  BY <1>0, <1>1 DEF Alone
<1>5. \A p \in Pods : Rewired(p, r)
  BY <1>0, WireUntouched DEF Ops
<1>6. \A p \in Pods, s \in Sids : Entered(p, s, r)
  BY <1>0, EntriesUntouched DEF StillValidates
<1> QED BY <1>0, <1>3, <1>4, <1>5, <1>6, AloneKeeps DEF StillValidates

\* A handler ends its session, or does not, as its validation says.
LEMMA ConcludeKeeps ==
    ASSUME IInv, NEW r \in Requests, Conclude(r)
    PROVE  IInv'
<1>0. /\ TypeOK' /\ TypeOK /\ CarriesSession /\ pc[r] = "validated"
      /\ UNCHANGED <<token, kind, pod, sid, leader, got, verdict>>
      /\ DeadStays /\ Local(r) /\ pc[r] \notin Ops \union {"validate"}
  BY Parts, ValidationType DEF Conclude, Settled, DeadStays, Ops, IInv
<1>1. sid[r] \in Sids
  BY <1>0 DEF CarriesSession, Carries, Carrying
<1>2. CASE Destroy(r) /\ Expired(r)
  BY <1>0, <1>1, <1>2, DestroyKeeps DEF Expired, Local, VerdictTrue
<1>3. ASSUME NEW how, Answer(r, how, KeepCookie), UNCHANGED <<wire, shared>>
      PROVE  IInv'
  BY <1>0, <1>3, AnswerKeeps
<1> QED BY <1>2, <1>3 DEF Conclude

\* The answer to a validation arrives at all who share it.
LEMMA SettlesKeeps ==
    ASSUME IInv, NEW r \in Requests, ValidationSettles(r)
    PROVE  IInv'
<1>0. /\ TypeOK' /\ TypeOK /\ pc[r] = "validate" /\ verdict[r] # "pending"
      /\ UNCHANGED <<token, wire, hydrating, kind, pod, sid, leader, got>>
      /\ pod[r] \in Pods /\ sid[r] \in Sids
  <2>1. TypeOK' /\ TypeOK /\ CarriesSession
    BY Parts, ValidationType
  <2> QED BY <2>1
          DEF ValidationSettles, CarriesSession, Carries, Carrying, BackendPcs,
              TypeOK
<1>1. ASSUME NEW q \in Requests, leader[q] = r, pc[q] \in {"validate", "sharing"}
      PROVE  /\ pc'[q] = "validated" /\ verdict'[q] = verdict[r]
             /\ sid[q] = sid[r]
  <2>1. /\ pc'[q] = "validated" /\ verdict'[q] = verdict[r]
    BY <1>1 DEF ValidationSettles
  <2>2. Led(q)
    BY DEF IInv, Local
  <2> QED BY <1>1, <2>1, <2>2 DEF Led
<1>2. ASSUME NEW q \in Requests, leader[q] # r \/ pc[q] \notin {"validate", "sharing"}
      PROVE  pc'[q] = pc[q] /\ verdict'[q] = verdict[q]
  BY <1>2 DEF ValidationSettles
<1>3. ASSUME NEW q \in Requests, pc[q] \in {"get", "touch", "validate"}
      PROVE  leader[q] = q
  BY <1>3 DEF IInv, Local, Led
<1>4. ASSUME NEW q \in Requests
      PROVE  Local(q)'
  <2>1. Local(q)
    BY DEF IInv
  <2>2. CASE leader[q] = r /\ pc[q] \in {"validate", "sharing"}
    <3>1. VerdictTrue(r)
      BY DEF IInv, Local
    <3> QED BY <1>0, <1>1, <2>2, <3>1
            DEF Local, Carries, Carrying, CommandPcs, BackendPcs, SharedPcs, Led,
                VerdictTrue, CallOfKind, EndsRejected
  <2>3. CASE leader[q] # r \/ pc[q] \notin {"validate", "sharing"}
    <3>1. pc'[q] = pc[q] /\ verdict'[q] = verdict[q]
      BY <1>2, <2>3
    <3>2. Led(q)'
      <4>1. CASE pc[q] = "sharing"
        <5>1. leader[q] \in Requests /\ pc[leader[q]] = "validate"
          BY <2>1, <4>1 DEF Local, Led
        <5>2. leader[q] # r /\ leader[leader[q]] = leader[q]
          BY <1>3, <2>3, <4>1, <5>1
        <5>3. pc'[leader[q]] = "validate"
          BY <1>2, <5>1, <5>2
        <5> QED BY <1>0, <2>1, <3>1, <4>1, <5>1, <5>3 DEF Local, Led
      <4>2. CASE pc[q] # "sharing"
        BY <1>0, <2>1, <3>1, <4>2 DEF Local, Led
      <4> QED BY <4>1, <4>2
    <3> QED BY <1>0, <2>1, <3>1, <3>2
            DEF Local, Carries, VerdictTrue, CallOfKind, EndsRejected
  <2> QED BY <2>2, <2>3
<1>5. \A q \in Requests :
         q # r /\ pc[q] \in Ops \union {"validate"} => Kept(q)
  BY <1>0, <1>2, <1>3 DEF Kept, Ops
<1>6. \A p \in Pods : Rewired(p, r)
  BY <1>0, WireUntouched DEF Ops
<1>7. ASSUME NEW p \in Pods, NEW s \in Sids
      PROVE  Entered(p, s, r)
  <2> DEFINE old == validating[pod[r]][sid[r]]
  <2>1. validating' = [validating EXCEPT ![pod[r]][sid[r]] =
                          IF old = r THEN Nobody ELSE old]
    BY DEF ValidationSettles
  <2>2. validating'[p][s] = IF p = pod[r] /\ s = sid[r]
                            THEN IF old = r THEN Nobody ELSE old
                            ELSE validating[p][s]
    BY <1>0, <2>1 DEF TypeOK
  <2>3. /\ validating[p][s] = r => pod[r] = p /\ sid[r] = s
        /\ hydrating[p][s] # r
    BY <1>0, NobodyAssumption DEF IInv, PendingIsRunning
  <2> QED BY <1>0, <2>2, <2>3, NobodyAssumption DEF Entered
<1> QED BY <1>0, <1>4, <1>5, <1>6, <1>7, StepKeeps

\* A hydration that r runs resolves or fails, for all who await it.
LEMMA HydrationSettles ==
    ASSUME IInv, TypeOK', NEW r \in Requests, NEW outcome,
           pc[r] \in {"get", "touch"}, sid[r] \in Sids,
           SettleHydration(r, outcome),
           UNCHANGED <<token, validating, kind, pod, sid, leader, verdict>>,
           \A p \in Pods : Rewired(p, r)
    PROVE  IInv'
<1>0. TypeOK /\ pod[r] \in Pods
  BY DEF IInv, TypeOK
<1>1. ASSUME NEW q \in Requests, leader[q] = r, pc[q] \in {"get", "touch", "joined"}
      PROVE  /\ pc'[q] = "hydrated" /\ sid[q] \in Sids /\ verdict[q] = "pending"
  <2>1. pc'[q] = "hydrated"
    BY <1>1 DEF SettleHydration, Hydrated
  <2>2. Carries(q) /\ VerdictTrue(q)
    BY DEF IInv, Local
  <2> QED BY <1>1, <2>1, <2>2
          DEF Carries, Carrying, CommandPcs, SharedPcs, VerdictTrue
<1>2. ASSUME NEW q \in Requests,
             leader[q] # r \/ pc[q] \notin {"get", "touch", "joined"}
      PROVE  pc'[q] = pc[q] /\ got'[q] = got[q]
  BY <1>2 DEF SettleHydration, Hydrated
<1>3. ASSUME NEW q \in Requests, pc[q] \in {"get", "touch", "validate"}
      PROVE  leader[q] = q
  BY <1>3 DEF IInv, Local, Led
<1>4. ASSUME NEW q \in Requests
      PROVE  Local(q)'
  <2>1. Local(q)
    BY DEF IInv
  <2>2. CASE leader[q] = r /\ pc[q] \in {"get", "touch", "joined"}
    BY <1>1, <2>2
       DEF Local, Carries, Carrying, CommandPcs, BackendPcs, SharedPcs, Led,
           VerdictTrue, CallOfKind, EndsRejected
  <2>3. CASE leader[q] # r \/ pc[q] \notin {"get", "touch", "joined"}
    <3>1. pc'[q] = pc[q] /\ got'[q] = got[q]
      BY <1>2, <2>3
    <3>2. Led(q)'
      <4>1. CASE pc[q] = "sharing"
        <5>1. leader[q] \in Requests /\ pc[leader[q]] = "validate"
          BY <2>1, <4>1 DEF Local, Led
        <5>2. pc'[leader[q]] = "validate"
          BY <1>2, <5>1
        <5> QED BY <2>1, <3>1, <4>1, <5>1, <5>2 DEF Local, Led
      <4>2. CASE pc[q] # "sharing"
        BY <2>1, <3>1, <4>2 DEF Local, Led
      <4> QED BY <4>1, <4>2
    <3> QED BY <2>1, <3>1, <3>2
            DEF Local, Carries, VerdictTrue, CallOfKind, EndsRejected
  <2> QED BY <2>2, <2>3
<1>5. \A q \in Requests :
         q # r /\ pc[q] \in Ops \union {"validate"} => Kept(q)
  BY <1>2, <1>3 DEF Kept, Ops
<1>6. ASSUME NEW p \in Pods, NEW s \in Sids
      PROVE  Entered(p, s, r)
  <2> DEFINE old == hydrating[pod[r]][sid[r]]
  <2>1. hydrating' = [hydrating EXCEPT ![pod[r]][sid[r]] =
                         IF old = r THEN Nobody ELSE old]
    BY DEF SettleHydration, ForgetHydration
  <2>2. hydrating'[p][s] = IF p = pod[r] /\ s = sid[r]
                           THEN IF old = r THEN Nobody ELSE old
                           ELSE hydrating[p][s]
    BY <1>0, <2>1 DEF TypeOK
  <2>3. /\ hydrating[p][s] = r => pod[r] = p /\ sid[r] = s
        /\ validating[p][s] # r
    BY NobodyAssumption DEF IInv, PendingIsRunning
  <2> QED BY <1>0, <2>2, <2>3, NobodyAssumption DEF Entered
<1> QED BY <1>4, <1>5, <1>6, StepKeeps

\* A hydration goes on or ends.
LEMMA HydrationKeeps ==
    ASSUME IInv, NEW r \in Requests, GetAnswered(r) \/ TouchAnswered(r)
    PROVE  IInv'
<1>0. TypeOK' /\ TypeOK /\ CarriesSession
  BY Parts, HydrationType
<1>1. /\ wire[pod[r]] # <<>> /\ Head(wire[pod[r]]).by = r
      /\ Head(wire[pod[r]]).op \in {"get", "touch"} /\ pod[r] \in Pods
      /\ UNCHANGED <<token, validating, kind, pod, sid, leader, verdict>>
      /\ DeadStays
  BY <1>0 DEF GetAnswered, TouchAnswered, Answers, TypeOK, DeadStays
<1>2. pc[r] \in {"get", "touch"}
  BY <1>0, <1>1, Shortened, NobodyAssumption DEF IInv, WireMatched, Matches
<1>3. sid[r] \in Sids
  BY <1>0, <1>2 DEF CarriesSession, Carries, Carrying, CommandPcs
<1>4. ASSUME NEW outcome, SettleHydration(r, outcome), Answered(pod[r])
      PROVE  IInv'
  <2>1. \A p \in Pods : Rewired(p, r)
    BY <1>1, <1>4, WireAnswered DEF Answered
  <2> QED BY <1>0, <1>1, <1>2, <1>3, <1>4, <2>1, HydrationSettles
<1>5. CASE GetAnswered(r) /\ Result(r) = "stale"
  <2>1. /\ wire' = [wire EXCEPT ![pod[r]] =
                       Append(Tail(wire[pod[r]]), Command(r, "touch", sid[r]))]
        /\ pc' = [pc EXCEPT ![r] = "touch"] /\ UNCHANGED <<hydrating, got>>
    BY <1>5 DEF GetAnswered, GoTo
  <2>2. Alone(r) /\ pc'[r] = "touch"
    BY <1>0, <1>1, <2>1 DEF Alone, TypeOK
  <2>3. pod'[r] = pod[r] /\ sid'[r] = sid[r] /\ "touch" \in Ops
    BY <1>1 DEF Ops
  <2>4. \A p \in Pods : Rewired(p, r)
    BY <1>1, <1>3, <2>1, <2>2, <2>3, WireAnswered
  <2>5. \A p \in Pods, s \in Sids : Entered(p, s, r)
    BY <1>1, <1>2, <2>1, <2>2, <2>3, EntriesUntouched DEF StillValidates, shared
  <2>6. Local(r)'
    <3>1. Led(r) /\ VerdictTrue(r)
      BY DEF IInv, Local
    <3> QED BY <1>1, <1>2, <1>3, <2>2, <3>1
            DEF Local, Carries, Carrying, CommandPcs, BackendPcs, SharedPcs, Led,
                VerdictTrue, CallOfKind, EndsRejected
  <2> QED BY <1>0, <1>1, <1>2, <2>2, <2>4, <2>5, <2>6, AloneKeeps DEF StillValidates
<1>6. CASE GetAnswered(r) /\ Result(r) # "stale"
  BY <1>4, <1>6 DEF GetAnswered
<1>7. CASE TouchAnswered(r)
  BY <1>4, <1>7 DEF TouchAnswered
<1> QED BY <1>5, <1>6, <1>7

\* The connection of a command that fails: it is awaited no more, or gone.
LEMMA WireFailed ==
    ASSUME IInv, NEW p0 \in Pods, NEW k \in 1..Len(wire[p0]),
           CommandFails(p0, k), NEW p \in Pods
    PROVE  Rewired(p, wire[p0][k].by)
<1> DEFINE r == wire[p0][k].by
<1>0. /\ TypeOK /\ WireMatched /\ r # Nobody
      /\ wire[p] \in Seq(Commands) /\ Len(wire[p]) \in Nat
      /\ \A i \in 1..Len(wire[p]) : wire[p][i] \in Commands
      /\ Len(wire[p0]) \in Nat
  BY LenProperties, ElementOfSeq DEF IInv, TypeOK, CommandFails
<1>1. CASE p # p0
  <2>1. wire'[p] = wire[p]
    BY <1>0, <1>1 DEF CommandFails, TypeOK
  <2>2. ASSUME NEW i \in 1..Len(wire[p])
        PROVE  wire[p][i].by # r \/ wire[p][i].by = Nobody
    <3>1. pod[r] = p0
      BY <1>0 DEF WireMatched, Matches
    <3>2. wire[p][i].by # Nobody => pod[wire[p][i].by] = p
      BY <1>0 DEF WireMatched, Matches
    <3> QED BY <1>1, <3>1, <3>2
  <2> QED BY <1>0, <2>1, <2>2, SameWire
<1>2. CASE p = p0
  <2>0. \A i \in 1..Len(wire[p]) : i # k => wire[p][i].by # r
    BY <1>0, <1>2 DEF WireMatched
  <2>1. CASE wire' = [wire EXCEPT ![p0][k].by = Nobody]
    <3> DEFINE c == wire[p][k]
               d == [c EXCEPT !.by = Nobody]
               f == [i \in 1..Len(wire'[p]) |-> i]
    <3>1. d \in Commands /\ d.by = Nobody /\ d.op = c.op /\ d.sid = c.sid
      BY <1>0, <1>2 DEF Commands
    <3>2. wire'[p] = [wire[p] EXCEPT ![k] = d]
      BY <1>0, <1>2, <2>1 DEF TypeOK
    <3> HIDE DEF d
    <3>3. /\ Len(wire'[p]) = Len(wire[p])
          /\ \A i \in 1..Len(wire[p]) :
                wire'[p][i] = IF i = k THEN d ELSE wire[p][i]
      BY <1>0, <1>2, <3>1, <3>2, ExceptSeq
    <3>4. f \in [1..Len(wire'[p]) -> 0..Len(wire[p])]
      BY <1>0, <3>3
    <3>5. \A i \in 1..Len(wire'[p]) :
            /\ f[i] # 0 /\ f[i] = i
            /\ wire'[p][i].op = wire[p][i].op /\ wire'[p][i].sid = wire[p][i].sid
            /\ \/ wire'[p][i].by = Nobody
               \/ wire'[p][i].by = wire[p][i].by /\ wire[p][i].by # r
      BY <1>0, <2>0, <3>1, <3>3
    <3>7. \A i, j \in 1..Len(wire'[p]) : f[i] = f[j] => i = j
      BY <3>5
    <3> HIDE DEF f, r
    <3>6. Rewired(p, r)
      <4>1. \A i \in 1..Len(wire'[p]) :
              /\ f[i] # 0
              /\ wire'[p][i].op = wire[p][f[i]].op
              /\ wire'[p][i].sid = wire[p][f[i]].sid
              /\ \/ wire'[p][i].by = Nobody
                 \/ /\ wire'[p][i].by = wire[p][f[i]].by
                    /\ wire[p][f[i]].by # r
        BY <3>5
      <4> QED BY <3>4, <3>7, <4>1 DEF Rewired
    <3> QED BY <3>6 DEF r
  <2>2. CASE wire' = [wire EXCEPT ![p0] = SubSeq(@, 1, k - 1)
                                            \o SubSeq(@, k + 1, Len(@))]
    <3> DEFINE w == SubSeq(wire[p], 1, k - 1) \o SubSeq(wire[p], k + 1, Len(wire[p]))
               f == [i \in 1..Len(wire'[p]) |-> IF i < k THEN i ELSE i + 1]
    <3>1. wire'[p] = w
      BY <1>0, <1>2, <2>2 DEF TypeOK
    <3>2. /\ Len(w) = Len(wire[p]) - 1
          /\ \A i \in 1..Len(w) :
                w[i] = IF i < k THEN wire[p][i] ELSE wire[p][i + 1]
      BY <1>0, <1>2, Removed
    <3> HIDE DEF w
    <3>3. /\ Len(wire'[p]) = Len(wire[p]) - 1
          /\ \A i \in 1..(Len(wire[p]) - 1) :
                wire'[p][i] = IF i < k THEN wire[p][i] ELSE wire[p][i + 1]
      BY <3>1, <3>2
    <3>4. f \in [1..Len(wire'[p]) -> 0..Len(wire[p])]
      BY <1>0, <3>3
    <3>5. \A i, j \in 1..Len(wire'[p]) : f[i] = f[j] => i = j
      BY <1>0, <1>2, <3>3
    <3>6. \A i \in 1..Len(wire'[p]) : f[i] # k /\ f[i] \in 1..Len(wire[p])
      BY <1>0, <1>2, <3>3
    <3>7. \A i \in 1..Len(wire'[p]) : wire'[p][i] = wire[p][f[i]]
      BY <1>0, <1>2, <3>3
    <3> HIDE DEF f
    <3>8. \A i \in 1..Len(wire'[p]) :
             f[i] # 0 /\ wire'[p][i] = wire[p][f[i]] /\ wire[p][f[i]].by # r
      BY <2>0, <3>6, <3>7
    <3> HIDE DEF r
    <3>9. Rewired(p, r)
      BY <3>4, <3>5, <3>8 DEF Rewired
    <3> QED BY <3>9 DEF r
  <2> QED BY <2>1, <2>2 DEF CommandFails
<1> QED BY <1>1, <1>2

\* A command times out, and its request goes on with that.
LEMMA CommandFailsKeeps ==
    ASSUME IInv, NEW p0 \in Pods, NEW k \in 1..Len(wire[p0]), CommandFails(p0, k)
    PROVE  IInv'
<1>0. TypeOK' /\ TypeOK /\ CarriesSession
  BY Parts, CommandFailsType
<1>A. wire[p0][k].by \in Requests
  <2>1. wire[p0][k] \in Commands
    BY <1>0, ElementOfSeq DEF TypeOK
  <2> QED BY <2>1 DEF Commands, CommandFails
<1>B. PICK r \in Requests : r = wire[p0][k].by
  BY <1>A
<1>1. /\ pc[r] \in Ops /\ pod[r] = p0 /\ Rejected(r)
      /\ UNCHANGED <<token, validating, kind, pod, sid, leader, verdict>>
      /\ DeadStays
  <2>1. wire[p0][k] \in Commands
    BY <1>0, ElementOfSeq DEF TypeOK
  <2>2. Matches(p0, wire[p0][k]) /\ r # Nobody
    BY <1>B DEF IInv, WireMatched, CommandFails
  <2>3. /\ Rejected(wire[p0][k].by)
        /\ UNCHANGED <<token, validating, kind, pod, sid, leader, verdict>>
    BY DEF CommandFails
  <2> QED BY <1>B, <2>1, <2>2, <2>3 DEF Matches, Commands, DeadStays
<1>2. \A p \in Pods : Rewired(p, r)
  BY <1>B, WireFailed
<1>3. sid[r] \in Sids /\ VerdictTrue(r)
  BY <1>0, <1>1
     DEF CarriesSession, Carries, Carrying, CommandPcs, Ops, IInv, Local
<1>4. CASE pc[r] \in {"get", "touch"}
  <2>1. SettleHydration(r, "failed")
    BY <1>1, <1>4 DEF Rejected, RejectHydration, SettleHydration
  <2> QED BY <1>0, <1>1, <1>2, <1>3, <1>4, <2>1, HydrationSettles
<1>5. ASSUME pc[r] \in {"create", "del"}, NEW where, GoTo(r, where),
             UNCHANGED <<hydrating, got>>,
             where = "answered" \/ (where = "revoke" /\ pc[r] = "create")
      PROVE  IInv'
  <2>1. Alone(r) /\ pc'[r] = where
    BY <1>0, <1>1, <1>5 DEF Alone, GoTo, TypeOK
  <2>2. \A p \in Pods, s \in Sids : Entered(p, s, r)
    BY <1>1, <1>5, EntriesUntouched DEF StillValidates, shared
  <2>3. Local(r)'
    BY <1>1, <1>3, <1>5, <2>1
       DEF Local, Carries, Carrying, CommandPcs, BackendPcs, SharedPcs, Led,
           VerdictTrue, CallOfKind, EndsRejected
  <2> QED BY <1>0, <1>1, <1>2, <1>5, <2>1, <2>2, <2>3, AloneKeeps
          DEF StillValidates
<1>6. CASE pc[r] = "create"
  BY <1>1, <1>5, <1>6 DEF Rejected, CreateRejected
<1>7. CASE pc[r] = "del"
  BY <1>1, <1>5, <1>7 DEF Rejected, DelRejected, Answer
<1> QED BY <1>1, <1>4, <1>6, <1>7 DEF Ops

\* A pod is lost: whoever waits there for a call is gone with it.
LEMMA RestartKeeps ==
    ASSUME IInv, NEW p0 \in Pods, Restart(p0)
    PROVE  IInv'
<1>0. /\ TypeOK' /\ TypeOK
      /\ UNCHANGED <<token, kind, pod, sid, leader, got, verdict>>
  BY Parts, RestartType DEF Restart
<1>1. /\ \A q \in Requests : pod[q] # p0 => pc'[q] = pc[q]
      /\ \A q \in Requests :
            pod[q] = p0 => \/ pc'[q] = "done"
                           \/ pc'[q] = pc[q] /\ pc[q] \in {"idle", "answered"}
  <2>1. pc' = [q \in Requests |->
                  IF pod[q] = p0 /\ pc[q] \notin {"idle", "answered"}
                  THEN "done" ELSE pc[q]]
    BY DEF Restart
  <2> QED BY <2>1
<1>2. /\ \A s \in Sids : hydrating'[p0][s] = Nobody /\ validating'[p0][s] = Nobody
      /\ \A p \in Pods : p # p0 => /\ hydrating'[p] = hydrating[p]
                                   /\ validating'[p] = validating[p]
                                   /\ wire'[p] = wire[p]
  BY <1>0 DEF Restart, TypeOK
<1>3. ASSUME NEW q \in Requests
      PROVE  Local(q)'
  <2>1. Local(q)
    BY DEF IInv
  <2>2. CASE pod[q] = p0
    BY <1>0, <1>1, <2>1, <2>2
       DEF Local, Carries, Carrying, CommandPcs, BackendPcs, SharedPcs, Led,
           VerdictTrue, CallOfKind, EndsRejected
  <2>3. CASE pod[q] # p0
    <3>1. pc'[q] = pc[q]
      BY <1>1, <2>3
    <3>2. Led(q)'
      BY <1>0, <1>1, <2>1, <2>3, <3>1 DEF Local, Led
    <3> QED BY <1>0, <2>1, <3>1, <3>2
            DEF Local, Carries, VerdictTrue, CallOfKind, EndsRejected
  <2> QED BY <2>2, <2>3
<1>4. WireMatched'
  <2> SUFFICES ASSUME NEW p \in Pods, NEW i \in 1..Len(wire'[p])
               PROVE  /\ Matches(p, wire[p][i])'
                      /\ \A j \in 1..Len(wire'[p]) :
                            wire'[p][i].by = wire'[p][j].by
                               => i = j \/ wire'[p][i].by = Nobody
    BY DEF WireMatched
  <2>0. /\ wire[p] \in Seq(Commands) /\ Len(wire[p]) \in Nat
        /\ DOMAIN wire[p] = 1..Len(wire[p])
        /\ \A j \in 1..Len(wire[p]) : wire[p][j] \in Commands
    BY <1>0, LenProperties, ElementOfSeq DEF TypeOK
  <2>1. CASE p # p0
    <3>1. i \in 1..Len(wire[p]) /\ wire'[p] = wire[p]
      BY <1>2, <2>1
    <3>2. Matches(p, wire[p][i])
      BY <3>1 DEF IInv, WireMatched
    <3>3. wire[p][i].by # Nobody => wire[p][i].by \in Requests
      BY <2>0, <3>1 DEF Commands
    <3>4. Matches(p, wire[p][i])'
      BY <1>0, <1>1, <2>1, <3>1, <3>2, <3>3 DEF Matches
    <3> QED BY <3>1, <3>4 DEF IInv, WireMatched
  <2>2. CASE p = p0
    <3>1. CASE wire' = [wire EXCEPT ![p0] = <<>>]
      <4>1. wire'[p] = <<>>
        BY <1>0, <2>2, <3>1 DEF TypeOK
      <4> QED BY <4>1
    <3>2. CASE wire' = [wire EXCEPT ![p0] =
                           [j \in DOMAIN @ |-> [@[j] EXCEPT !.by = Nobody]]]
      <4> DEFINE w == [j \in 1..Len(wire[p]) |-> [wire[p][j] EXCEPT !.by = Nobody]]
      <4>1. wire'[p] = w
        BY <1>0, <2>0, <2>2, <3>2 DEF TypeOK
      <4>2. \A j \in 1..Len(wire[p]) : w[j].by = Nobody
        BY <2>0 DEF Commands
      <4>3. DOMAIN w = 1..Len(wire[p]) /\ DOMAIN wire'[p] = 1..Len(wire'[p])
        BY <1>0, LenProperties DEF TypeOK
      <4> HIDE DEF w
      <4>4. \A j \in 1..Len(wire'[p]) : wire'[p][j].by = Nobody
        BY <4>1, <4>2, <4>3
      <4> QED BY <4>4 DEF Matches
    <3> QED BY <3>1, <3>2 DEF Restart
  <2> QED BY <2>1, <2>2
<1>5. PendingIsRunning'
  <2> SUFFICES ASSUME NEW p \in Pods, NEW s \in Sids
               PROVE  /\ hydrating'[p][s] # Nobody
                            => /\ pc'[hydrating'[p][s]] \in {"get", "touch"}
                               /\ pod'[hydrating'[p][s]] = p
                               /\ sid'[hydrating'[p][s]] = s
                      /\ validating'[p][s] # Nobody
                            => /\ pc'[validating'[p][s]] = "validate"
                               /\ pod'[validating'[p][s]] = p
                               /\ sid'[validating'[p][s]] = s
    BY DEF PendingIsRunning
  <2>1. CASE p = p0
    BY <1>2, <2>1
  <2>2. CASE p # p0
    <3>1. /\ hydrating'[p][s] = hydrating[p][s]
          /\ validating'[p][s] = validating[p][s]
          /\ hydrating[p][s] \in Requests \union {Nobody}
          /\ validating[p][s] \in Requests \union {Nobody}
      BY <1>0, <1>2, <2>2 DEF TypeOK
    <3>2. /\ hydrating[p][s] # Nobody => /\ pc[hydrating[p][s]] \in {"get", "touch"}
                                         /\ pod[hydrating[p][s]] = p
                                         /\ sid[hydrating[p][s]] = s
          /\ validating[p][s] # Nobody => /\ pc[validating[p][s]] = "validate"
                                          /\ pod[validating[p][s]] = p
                                          /\ sid[validating[p][s]] = s
      BY DEF IInv, PendingIsRunning
    <3> QED BY <1>0, <1>1, <2>2, <3>1, <3>2
  <2> QED BY <2>1, <2>2
<1> QED BY <1>0, <1>3, <1>4, <1>5 DEF IInv

-----------------------------------------------------------------------------
(* The theorems                                                            *)

\* A pod has sent nothing, and no request is on its way.
LEMMA InitIInv == Init => IInv /\ Known
<1> SUFFICES ASSUME Init PROVE IInv /\ Known
  OBVIOUS
<1>0. /\ 1 \in Sids /\ NoSid \notin Sids /\ KeepCookie \notin Sids /\ 0 \in 0..MaxFaults
  BY BoundsAssumption DEF Sids, NoSid, KeepCookie
<1>1. TypeOK
  <2>1. wire \in [Pods -> Seq(Commands)]
    BY DEF Init
  <2> QED BY <1>0, <2>1 DEF Init, TypeOK, Pcs, Kinds, Replies
<1>2. \A r \in Requests : pc[r] = "idle" /\ verdict[r] = "pending"
  BY DEF Init
<1>3. \A r \in Requests : Local(r)
  BY <1>2 DEF Local, Carries, Carrying, CommandPcs, BackendPcs, SharedPcs, Led,
              VerdictTrue, CallOfKind, EndsRejected
<1>4. WireMatched /\ PendingIsRunning
  BY DEF Init, WireMatched, PendingIsRunning
<1>5. Known
  BY <1>0 DEF Init, Known
<1> QED BY <1>1, <1>3, <1>4, <1>5 DEF IInv

\* Nothing changes.
LEMMA StutterKeeps ==
    ASSUME IInv, UNCHANGED vars
    PROVE  IInv'
BY DEF IInv, TypeOK, Local, Carries, Led, VerdictTrue, CallOfKind, EndsRejected,
       WireMatched, Matches, PendingIsRunning, vars, shared, request

\* Every step keeps the invariant.
LEMMA NextKeeps ==
    ASSUME IInv, Known, [Next]_vars
    PROVE  IInv'
<1>1. ASSUME NEW r \in Requests, Handler(r)
      PROVE  IInv'
  BY <1>1, HydrationKeeps, AnsweredCommandKeeps, ContinueKeeps, LoginKeeps, CallKeeps,
     BackendValidatesKeeps, SettlesKeeps, ConcludeKeeps DEF Handler
<1>2. ASSUME NEW r \in Requests, Sending(r)
      PROVE  IInv'
  <2>1. "status" \in Kinds
    BY DEF Kinds
  <2> QED BY <1>2, <2>1, SendKeeps DEF Sending
<1>3. CASE Environment
  BY <1>3, AgeKeeps DEF Environment
<1>4. CASE Failing
  BY <1>4, CallFailsKeeps, RestartKeeps, CommandFailsKeeps DEF Failing
<1> QED BY <1>1, <1>2, <1>3, <1>4, ReceiveKeeps, ExecuteKeeps, StutterKeeps DEF Next

\* The invariant holds throughout.
LEMMA Inductive == Spec => [](IInv /\ Known)
BY InitIInv, NextKeeps, KnownKeeps, PTL DEF Spec

\* Every variable of the sessions keeps its type.
THEOREM TypeCorrect == Spec => []TypeOK
<1>1. IInv => TypeOK
  BY DEF IInv
<1> QED BY <1>1, Inductive, PTL

\* Whoever joins a pending hydration or validation joins one whose request is
\* still waiting for it, on the same pod and for the same session.
THEOREM SharedIsRunning == Spec => []PendingIsRunning
<1>1. IInv => PendingIsRunning
  BY DEF IInv
<1> QED BY <1>1, Inductive, PTL

\* But for logouts and the settings route, no command deletes a session whose
\* token the backend would still accept.
THEOREM EndedOnlyIfRejected == Spec => []SignedOutOnlyIfRejected
BY NotSignedOut, Inductive, PTL

\* Only the create command of a login brings a session into Valkey.
LEMMA StoreKeeps ==
    ASSUME TypeOK, [Next]_vars, NEW s \in Sids,
           store[s] = "absent", store'[s] # "absent"
    PROVE  \E p \in Pods : \E i \in DOMAIN wire[p] :
              /\ wire[p][i].op = "create" /\ wire[p][i].sid = s
              /\ wire[p][i].result = "unsent"
<1>1. ASSUME NEW p \in Pods, Execute(p)
      PROVE  \E i \in DOMAIN wire[p] :
                /\ wire[p][i].op = "create" /\ wire[p][i].sid = s
                /\ wire[p][i].result = "unsent"
  <2>1. PICK i \in 1..Len(wire[p]) : /\ wire[p][i].result = "unsent"
                                     /\ store' = Effect(wire[p][i])
    BY <1>1 DEF Execute
  <2>2. /\ DOMAIN wire[p] = 1..Len(wire[p]) /\ wire[p][i] \in Commands
    BY LenProperties, ElementOfSeq DEF TypeOK
  <2>3. wire[p][i].op = "create" /\ wire[p][i].sid = s
    BY <2>1, <2>2 DEF Effect, TouchApplies, TypeOK, Commands
  <2> QED BY <2>1, <2>2, <2>3
<1>2. CASE Environment
  BY <1>2 DEF Environment, SessionAges, SessionExpires, TokenExpires, TypeOK
<1>3. ASSUME NEW r \in Requests, Handler(r)
      PROVE  UNCHANGED store
  BY <1>3 DEF Handler, GetAnswered, TouchAnswered, CreateAnswered, DelAnswered,
     Continue, WhoamiMatches, WhoamiMismatch, LoginAccepted, LoginRefused, Revoke,
     SignOut, Upstream, Probe, Identify, BackendValidates, ValidationSettles,
     Conclude, Settled
<1>4. ASSUME NEW r \in Requests, Sending(r) \/ Receive(r)
      PROVE  UNCHANGED store
  BY <1>4 DEF Sending, SendLogin, SendWithCookie, Send, Receive
<1>5. ASSUME NEW p \in Pods, LateAnswer(p)
      PROVE  UNCHANGED store
  BY <1>5 DEF LateAnswer
<1>6. CASE Failing
  BY <1>6 DEF Failing, CallFails, Restart, CommandFails, Settled
<1>7. CASE UNCHANGED vars
  BY <1>7 DEF vars
<1> QED BY <1>1, <1>2, <1>3, <1>4, <1>5, <1>6, <1>7 DEF Next

\* A session that is gone from Valkey stays gone: no touch and no late command
\* brings it back.
THEOREM GoneStaysGone == Spec => NeverResurrected
<1>1. ASSUME TypeOK, [Next]_vars
      PROVE  [\A s \in Sids :
                 store[s] = "absent" /\ store'[s] # "absent"
                 => \E p \in Pods : \E i \in DOMAIN wire[p] :
                        /\ wire[p][i].op = "create" /\ wire[p][i].sid = s
                        /\ wire[p][i].result = "unsent"]_store
  BY <1>1, StoreKeeps
<1> QED BY <1>1, TypeCorrect, PTL DEF Spec, NeverResurrected
-----------------------------------------------------------------------------
(* Sessions that nothing will make any more                                *)

\* c will make the session s when it is executed.
Makes(c, s) == c.op = "create" /\ c.sid = s /\ c.result = "unsent"

\* The login for s is over, so nothing will make it again.
Over(s) ==
    /\ token[s] # "none"
    /\ \A r \in Requests : pc[r] = "whoami" => sid[r] # s
    /\ \A p \in Pods : \A i \in 1..Len(wire[p]) : ~Makes(wire[p][i], s)

\* s is gone for good.
Gone(s) == store[s] = "absent" /\ Over(s)

\* The login of r is about to make its session, or waits for its create.
Making(r) == pc[r] \in {"whoami", "create"}

\* The program points of a request that is not a login.
Using ==
    {"get", "touch", "joined", "hydrated", "validate", "sharing", "validated",
     "signout", "upstream", "probe", "identify", "del"}

\* A login makes the one session that was issued with its token.
MakesOwn(r) ==
    /\ pc[r] \in {"idle", "login"} => sid[r] = NoSid
    /\ Making(r) => \A q \in Requests : Making(q) /\ sid[q] = sid[r] => q = r
    /\ pc[r] = "whoami" => store[sid[r]] = "absent"
    /\ Making(r) =>
          \A p \in Pods : \A i \in 1..Len(wire[p]) :
              wire[p][i].op = "create" /\ wire[p][i].sid = sid[r]
                 => pc[r] = "create" /\ wire[p][i].by = r

\* Cookies and requests carry sessions whose login is over, and who is told
\* that a session is gone is told the truth.
CarriesOver(r) ==
    /\ kind[r] # "login" /\ sid[r] # NoSid => Over(sid[r])
    /\ pc[r] \in Using => kind[r] # "login"
    /\ pc[r] = "login" => kind[r] = "login"
    /\ setCookie[r] \in Sids => Over(setCookie[r])
    /\ pc[r] = "joined" => /\ leader[r] \in Requests
                           /\ sid[leader[r]] = sid[r]
                           /\ pc[leader[r]] \notin {"idle", "login"}
    /\ pc[r] = "hydrated" /\ got[r] = "none" /\ sid[r] # NoSid => Gone(sid[r])
    /\ pc[r] = "answered" /\ setCookie[r] = ClearCookie /\ sid[r] # NoSid
          => Gone(sid[r])

\* A login that is refused has left nothing to use, or something failed: the
\* create before its token is revoked, and the revocation as well.
Refuses(r) ==
    /\ pc[r] = "revoke" => faults >= 1 \/ Gone(sid[r])
    /\ reply[r] = "refused" =>
          /\ pc[r] \in {"answered", "done"}
          /\ kind[r] = "login" /\ sid[r] # NoSid
                => token[sid[r]] = "dead" \/ faults >= 2 \/ Gone(sid[r])

\* All commands but the create are about sessions whose login is over, and
\* one that deleted its session or did not find it has it gone for good.
Truthful(c) ==
    /\ c.op # "create" => Over(c.sid)
    /\ c.op = "del" /\ c.result # "unsent" => Gone(c.sid)
    /\ c.result = "none" => Gone(c.sid)
    /\ c.op = "touch" => c.result \in {"unsent", "ok", "none"}

\* A session that was not issued is neither there nor on its way.
Unmade ==
    \A s \in Sids : token[s] = "none" =>
        /\ store[s] = "absent"
        /\ \A p \in Pods : \A i \in 1..Len(wire[p]) : wire[p][i].sid # s

EndInv ==
    /\ IInv /\ Known /\ Unmade
    /\ cookie # NoSid => Over(cookie)
    /\ \A r \in Requests : MakesOwn(r) /\ CarriesOver(r) /\ Refuses(r)
    /\ \A p \in Pods : \A i \in 1..Len(wire[p]) : Truthful(wire[p][i])

-----------------------------------------------------------------------------
(* What a step may do                                                      *)

\* A command stays, is executed, or is given up by the request that awaits it.
Carried(p, c) ==
    \E j \in 1..Len(wire[p]) :
        LET d == wire[p][j] IN
        /\ c.op = d.op /\ c.sid = d.sid
        /\ \/ c.by = d.by
           \/ c.by = Nobody /\ (d.by \in Requests => pc'[d.by] # "create")
        /\ \/ c.result = d.result
           \/ /\ d.result = "unsent" /\ c.result = Outcome(d)
              /\ store' = Effect(d)

\* A command is sent: the create by a login for its own session, any other
\* for a session whose login is over.
Issued(c) ==
    /\ c.result = "unsent"
    /\ \/ /\ c.op = "create" /\ c.by \in Requests
          /\ pc[c.by] = "whoami" /\ pc'[c.by] = "create" /\ sid[c.by] = c.sid
       \/ /\ c.op # "create" /\ c.sid \in Sids /\ Over(c.sid)

WireEvolves ==
    \A p \in Pods : \A i \in 1..Len(wire'[p]) :
        Carried(p, wire'[p][i]) \/ Issued(wire'[p][i])

\* A request goes on.
Moves(q) ==
    /\ pc[q] \notin {"idle", "login"}
          => /\ pc'[q] \notin {"idle", "login"}
             /\ sid'[q] = sid[q] /\ kind'[q] = kind[q]
    /\ pc'[q] \in {"idle", "login"} => sid'[q] = sid[q]
    /\ pc'[q] = "create" => Making(q)
    /\ pc'[q] = "whoami" =>
          \/ pc[q] = "whoami"
          \/ /\ pc[q] = "login" /\ sid'[q] \in Sids /\ token[sid'[q]] = "none"
             /\ \A o \in Requests : o # q => pc'[o] = pc[o] /\ sid'[o] = sid[o]
    /\ kind'[q] # "login" /\ sid'[q] # NoSid
          => (kind[q] # "login" /\ sid'[q] = sid[q]) \/ sid'[q] = cookie
    /\ pc'[q] \in Using => kind'[q] # "login"
    /\ pc'[q] = "login" => kind'[q] = "login"
    /\ setCookie'[q] \in Sids
          => setCookie'[q] = setCookie[q] \/ Over(setCookie'[q])
    /\ pc'[q] = "joined" =>
          \/ pc[q] = "joined" /\ leader'[q] = leader[q]
          \/ /\ leader'[q] \in Requests /\ sid'[leader'[q]] = sid'[q]
             /\ pc'[leader'[q]] \notin {"idle", "login"}
    /\ pc'[q] = "hydrated" /\ got'[q] = "none" /\ sid'[q] # NoSid
          => (pc[q] = "hydrated" /\ got[q] = "none") \/ Gone(sid'[q])
    /\ pc'[q] = "answered" /\ setCookie'[q] = ClearCookie /\ sid'[q] # NoSid
          => (pc[q] = "answered" /\ setCookie[q] = ClearCookie) \/ Gone(sid'[q])
    /\ pc'[q] = "revoke" => pc[q] \in {"revoke", "whoami"} \/ faults' >= 1
    /\ reply'[q] = "refused" =>
          \/ reply[q] = "refused" /\ pc'[q] \in {"answered", "done"}
          \/ /\ pc'[q] = "answered"
             /\ kind'[q] = "login" /\ sid'[q] # NoSid
                   => \/ token'[sid'[q]] = "dead" \/ faults' >= 2
                      \/ Gone(sid'[q])

Evolves == WireEvolves /\ \A q \in Requests : Moves(q)

\* Tokens are issued once and stay dead; failures are not forgotten.
TokensAge == IssuedStays /\ DeadStays /\ faults' >= faults

\* Every step is of that kind.
LEMMA TokensAgeAlways ==
    ASSUME IInv, [Next]_vars
    PROVE  TokensAge
<1>0. /\ TypeOK /\ CarriesSession /\ faults \in Nat
  BY Parts, BoundsAssumption DEF TypeOK
<1>1. ASSUME UNCHANGED token PROVE IssuedStays /\ DeadStays
  BY <1>1 DEF IssuedStays, DeadStays
<1>2. ASSUME NEW s \in Sids, token' = [token EXCEPT ![s] = "dead"]
      PROVE  IssuedStays /\ DeadStays
  BY <1>0, <1>2 DEF TypeOK, IssuedStays, DeadStays
<1>3. ASSUME NEW s \in Sids, Unissued(s), token' = [token EXCEPT ![s] = "live"]
      PROVE  IssuedStays /\ DeadStays
  BY <1>0, <1>3 DEF TypeOK, IssuedStays, DeadStays, Unissued
<1>4. ASSUME NEW r \in Requests, Sending(r) \/ Receive(r)
      PROVE  UNCHANGED <<token, faults>>
  BY <1>4 DEF Sending, SendLogin, SendWithCookie, Send, Receive
<1>5. ASSUME NEW r \in Requests,
             \/ GetAnswered(r) \/ TouchAnswered(r) \/ CreateAnswered(r)
             \/ DelAnswered(r) \/ Continue(r) \/ WhoamiMatches(r)
             \/ WhoamiMismatch(r) \/ LoginRefused(r) \/ Upstream(r) \/ Probe(r)
             \/ ValidationSettles(r) \/ Conclude(r)
      PROVE  UNCHANGED <<token, faults>>
  BY <1>5 DEF GetAnswered, TouchAnswered, CreateAnswered, DelAnswered, Continue,
     WhoamiMatches, WhoamiMismatch, LoginRefused, Upstream, Probe,
     ValidationSettles, Conclude, Settled
<1>6. ASSUME NEW r \in Requests, Revoke(r) \/ SignOut(r)
      PROVE  TokensAge
  <2>1. sid[r] \in Sids
    BY <1>0, <1>6 DEF SignOut, Revoke, CarriesSession, Carries, Carrying, BackendPcs
  <2>2. faults' = faults \/ faults' = faults + 1
    BY <1>6 DEF Revoke, SignOut, Fault
  <2>3. UNCHANGED token \/ token' = [token EXCEPT ![sid[r]] = "dead"]
    BY <1>6 DEF Revoke, SignOut
  <2> QED BY <1>0, <1>1, <1>2, <2>1, <2>2, <2>3 DEF TokensAge
<1>7. ASSUME NEW r \in Requests, Identify(r) \/ BackendValidates(r)
      PROVE  TokensAge
  <2>1. UNCHANGED token /\ (faults' = faults \/ faults' = faults + 1)
    BY <1>7 DEF Identify, BackendValidates, Fault
  <2> QED BY <1>0, <1>1, <2>1 DEF TokensAge
<1>8. ASSUME NEW r \in Requests, LoginAccepted(r)
      PROVE  TokensAge
  <2>1. PICK s \in Sids : Unissued(s) /\ token' = [token EXCEPT ![s] = "live"]
    BY <1>8 DEF LoginAccepted
  <2>2. IssuedStays /\ DeadStays
    BY <1>3, <2>1
  <2>3. faults' = faults
    BY <1>8 DEF LoginAccepted
  <2> QED BY <1>0, <2>2, <2>3 DEF TokensAge
<1>9. ASSUME NEW r \in Requests, CallFails(r)
      PROVE  TokensAge
  BY <1>0, <1>1, <1>3, <1>9 DEF CallFails, TokensAge, Fault
<1>10. ASSUME NEW p \in Pods, Execute(p) \/ LateAnswer(p)
       PROVE  UNCHANGED <<token, faults>>
  BY <1>10 DEF Execute, LateAnswer
<1>11. ASSUME NEW p \in Pods,
              Restart(p) \/ \E i \in 1..Len(wire[p]) : CommandFails(p, i)
       PROVE  TokensAge
  <2>1. UNCHANGED token /\ faults' = faults + 1
    BY <1>11 DEF Restart, CommandFails, Fault
  <2> QED BY <1>0, <1>1, <2>1 DEF TokensAge
<1>12. CASE Environment
  BY <1>0, <1>1, <1>2, <1>12
     DEF Environment, SessionAges, SessionExpires, TokenExpires, TokensAge
<1>13. ASSUME UNCHANGED <<token, faults>>
       PROVE  TokensAge
  BY <1>0, <1>1, <1>13 DEF TokensAge
<1>14. CASE UNCHANGED vars
  BY <1>13, <1>14 DEF vars
<1> QED BY <1>4, <1>5, <1>6, <1>7, <1>8, <1>9, <1>10, <1>11, <1>12, <1>13, <1>14
        DEF Next, Handler, Failing

\* What nothing makes stays absent.
LEMMA AbsentStays ==
    ASSUME TypeOK, [Next]_vars, NEW s \in Sids, store[s] = "absent",
           \A p \in Pods : \A i \in 1..Len(wire[p]) : ~Makes(wire[p][i], s)
    PROVE  store'[s] = "absent"
<1>1. \A p \in Pods : DOMAIN wire[p] = 1..Len(wire[p])
  BY LenProperties DEF TypeOK
<1> QED BY <1>1, StoreKeeps DEF Makes

\* A login that is over stays over.
LEMMA OverStays ==
    ASSUME TypeOK, Evolves, TokensAge, NEW s \in Sids, Over(s)
    PROVE  Over(s)'
<1>1. token'[s] # "none"
  BY DEF Over, TokensAge, IssuedStays
<1>2. ASSUME NEW q \in Requests, pc'[q] = "whoami" PROVE sid'[q] # s
  <2>1. Moves(q)
    BY DEF Evolves
  <2> QED BY <1>2, <2>1 DEF Moves, Over
<1>3. ASSUME NEW p \in Pods, NEW i \in 1..Len(wire'[p])
      PROVE  ~Makes(wire'[p][i], s)
  <2> SUFFICES ASSUME Makes(wire'[p][i], s) PROVE FALSE
    OBVIOUS
  <2>1. CASE Carried(p, wire'[p][i])
    <3>1. PICK j \in 1..Len(wire[p]) :
             /\ wire'[p][i].op = wire[p][j].op /\ wire'[p][i].sid = wire[p][j].sid
             /\ \/ wire'[p][i].result = wire[p][j].result
                \/ wire[p][j].result = "unsent"
      BY <2>1 DEF Carried
    <3> QED BY <3>1 DEF Over, Makes
  <2>2. CASE Issued(wire'[p][i])
    BY <2>2 DEF Issued, Over, Makes
  <2> QED BY <2>1, <2>2 DEF Evolves, WireEvolves
<1> QED BY <1>1, <1>2, <1>3 DEF Over

\* A session that is gone for good stays gone.
LEMMA GoneStays ==
    ASSUME TypeOK, [Next]_vars, Evolves, TokensAge, NEW s \in Sids, Gone(s)
    PROVE  Gone(s)'
BY OverStays, AbsentStays DEF Gone, Over

\* The commands of a connection, and the ids in use.
LEMMA WireTypes ==
    ASSUME TypeOK, NEW p \in Pods, NEW i \in 1..Len(wire[p])
    PROVE  /\ wire[p][i] \in Commands
           /\ wire[p][i].sid \in Sids /\ wire[p][i].op \in Ops
           /\ wire[p][i].by \in Requests \union {Nobody}
           /\ wire[p][i].result \in Found \union {"unsent", "ok"}
<1>1. wire[p][i] \in Commands
  BY ElementOfSeq DEF TypeOK
<1> QED BY <1>1 DEF Commands

\* To carry no session is to carry an id that is none.
LEMMA SidTypes ==
    ASSUME TypeOK, NEW r \in Requests
    PROVE  /\ sid[r] # NoSid <=> sid[r] \in Sids
           /\ cookie # NoSid <=> cookie \in Sids
           /\ NoSid \notin Sids /\ KeepCookie \notin Sids /\ KeepCookie # NoSid
BY BoundsAssumption DEF TypeOK, Sids, NoSid, KeepCookie

\* A login that makes its session has an issued one.
LEMMA MakerHasSession ==
    ASSUME IInv, Known, NEW q \in Requests, Making(q)
    PROVE  sid[q] \in Sids /\ token[sid[q]] # "none"
BY Parts DEF CarriesSession, Carries, Carrying, BackendPcs, CommandPcs, Making,
             Known

\* What was not issued is not on its way afterwards either.
LEMMA UnmadeKept ==
    ASSUME EndInv, [Next]_vars, Evolves, TokensAge
    PROVE  Unmade'
<1>0. TypeOK
  BY Parts DEF EndInv
<1> SUFFICES ASSUME NEW s \in Sids, token'[s] = "none"
             PROVE  /\ store'[s] = "absent"
                    /\ \A p \in Pods : \A i \in 1..Len(wire'[p]) :
                          wire'[p][i].sid # s
  BY DEF Unmade
<1>1. token[s] = "none"
  BY DEF TokensAge, IssuedStays
<1>2. /\ store[s] = "absent"
      /\ \A p \in Pods : \A i \in 1..Len(wire[p]) : wire[p][i].sid # s
  BY <1>1 DEF EndInv, Unmade
<1>3. store'[s] = "absent"
  BY <1>0, <1>2, AbsentStays DEF Makes
<1>4. ASSUME NEW p \in Pods, NEW i \in 1..Len(wire'[p])
      PROVE  wire'[p][i].sid # s
  <2>1. CASE Carried(p, wire'[p][i])
    BY <1>2, <2>1 DEF Carried
  <2>2. CASE Issued(wire'[p][i])
    <3>1. CASE wire'[p][i].op = "create"
      <4>1. PICK b \in Requests : pc[b] = "whoami" /\ sid[b] = wire'[p][i].sid
        BY <2>2, <3>1 DEF Issued
      <4>2. token[sid[b]] # "none"
        BY <4>1, MakerHasSession DEF EndInv, Making
      <4> QED BY <1>1, <4>1, <4>2
    <3>2. CASE wire'[p][i].op # "create"
      BY <1>1, <2>2, <3>2 DEF Issued, Over
    <3> QED BY <3>1, <3>2
  <2> QED BY <2>1, <2>2 DEF Evolves, WireEvolves
<1> QED BY <1>3, <1>4

\* Two logins never make the same session.
LEMMA MakersDiffer ==
    ASSUME EndInv, Evolves, NEW q \in Requests, NEW o \in Requests,
           Making(q)', Making(o)', sid'[o] = sid'[q]
    PROVE  o = q
<1>1. Moves(q) /\ Moves(o)
  BY DEF Evolves
<1>2. ASSUME NEW a \in Requests, Moves(a), Making(a)', ~Making(a)
      PROVE  /\ token[sid'[a]] = "none"
             /\ \A b \in Requests : b # a => pc'[b] = pc[b] /\ sid'[b] = sid[b]
  BY <1>2 DEF Moves, Making
<1>3. ASSUME NEW a \in Requests, Moves(a), Making(a)
      PROVE  sid'[a] = sid[a] /\ token[sid[a]] # "none"
  BY <1>3, MakerHasSession DEF Moves, Making, EndInv
<1>4. CASE Making(q) /\ Making(o)
  BY <1>1, <1>3, <1>4 DEF EndInv, MakesOwn
<1>5. CASE ~Making(q)
  <2> SUFFICES ASSUME o # q PROVE FALSE
    OBVIOUS
  <2>1. token[sid'[q]] = "none" /\ Making(o)
    BY <1>1, <1>2, <1>5 DEF Making
  <2> QED BY <1>1, <1>3, <2>1
<1>6. CASE ~Making(o)
  <2> SUFFICES ASSUME o # q PROVE FALSE
    OBVIOUS
  <2>1. token[sid'[o]] = "none" /\ Making(q)
    BY <1>1, <1>2, <1>6 DEF Making
  <2> QED BY <1>1, <1>3, <2>1
<1> QED BY <1>4, <1>5, <1>6

\* The create a login awaits is the only one for its session.
LEMMA OwnCreate ==
    ASSUME EndInv, Evolves, NEW q \in Requests, Making(q)',
           NEW p \in Pods, NEW i \in 1..Len(wire'[p]),
           wire'[p][i].op = "create", wire'[p][i].sid = sid'[q]
    PROVE  pc'[q] = "create" /\ wire'[p][i].by = q
<1>1. Moves(q)
  BY DEF Evolves
<1>2. CASE Making(q)
  <2>1. sid'[q] = sid[q] /\ (pc[q] = "create" => pc'[q] = "create")
    BY <1>1, <1>2 DEF Moves, Making
  <2>2. CASE Carried(p, wire'[p][i])
    <3>1. PICK j \in 1..Len(wire[p]) :
             /\ wire[p][j].op = "create" /\ wire[p][j].sid = sid[q]
             /\ \/ wire'[p][i].by = wire[p][j].by
                \/ wire[p][j].by \in Requests => pc'[wire[p][j].by] # "create"
      BY <2>1, <2>2 DEF Carried
    <3>2. pc[q] = "create" /\ wire[p][j].by = q
      BY <1>2, <3>1 DEF EndInv, MakesOwn
    <3> QED BY <2>1, <3>1, <3>2
  <2>3. CASE Issued(wire'[p][i])
    <3>1. PICK b \in Requests : /\ b = wire'[p][i].by /\ sid[b] = sid[q]
                                /\ pc[b] = "whoami" /\ pc'[b] = "create"
      BY <2>1, <2>3 DEF Issued
    <3>2. b = q
      BY <1>2, <3>1 DEF EndInv, MakesOwn, Making
    <3> QED BY <3>1, <3>2
  <2> QED BY <2>2, <2>3 DEF Evolves, WireEvolves
<1>3. CASE ~Making(q)
  <2>1. sid'[q] \in Sids /\ token[sid'[q]] = "none"
    BY <1>1, <1>3 DEF Moves, Making
  <2>2. CASE Carried(p, wire'[p][i])
    <3>1. PICK j \in 1..Len(wire[p]) : wire[p][j].sid = sid'[q]
      BY <2>2 DEF Carried
    <3> QED BY <2>1, <3>1 DEF EndInv, Unmade
  <2>3. CASE Issued(wire'[p][i])
    <3>1. PICK b \in Requests : sid[b] = sid'[q] /\ pc[b] = "whoami"
      BY <2>3 DEF Issued
    <3>2. token[sid[b]] # "none"
      BY <3>1, MakerHasSession DEF EndInv, Making
    <3> QED BY <2>1, <3>1, <3>2
  <2> QED BY <2>2, <2>3 DEF Evolves, WireEvolves
<1> QED BY <1>2, <1>3

\* A login still makes one session, its own.
LEMMA MakesOwnKept ==
    ASSUME EndInv, [Next]_vars, Evolves, NEW q \in Requests
    PROVE  MakesOwn(q)'
<1>0. TypeOK /\ Moves(q) /\ MakesOwn(q)
  BY Parts DEF EndInv, Evolves
<1>1. pc'[q] \in {"idle", "login"} => sid'[q] = NoSid
  BY <1>0 DEF Moves, MakesOwn
<1>2. ASSUME pc'[q] = "whoami" PROVE store'[sid'[q]] = "absent"
  <2>1. CASE pc[q] = "whoami"
    <3>1. sid'[q] = sid[q] /\ Making(q) /\ sid[q] \in Sids
      BY <1>0, <2>1, MakerHasSession DEF Moves, Making, EndInv
    <3>2. \A p \in Pods : \A i \in 1..Len(wire[p]) : ~Makes(wire[p][i], sid[q])
      BY <1>0, <2>1, <3>1 DEF MakesOwn, Makes
    <3> QED BY <1>0, <2>1, <3>1, <3>2, AbsentStays DEF MakesOwn
  <2>2. CASE pc[q] # "whoami"
    <3>1. PICK s \in Sids : s = sid'[q] /\ token[s] = "none"
      BY <1>0, <1>2, <2>2 DEF Moves
    <3>2. /\ store[s] = "absent"
          /\ \A p \in Pods : \A i \in 1..Len(wire[p]) : ~Makes(wire[p][i], s)
      BY <3>1 DEF EndInv, Unmade, Makes
    <3> QED BY <1>0, <3>1, <3>2, AbsentStays
  <2> QED BY <2>1, <2>2
<1>3. Making(q)' => \A o \in Requests : Making(o)' /\ sid'[o] = sid'[q] => o = q
  BY MakersDiffer
<1>4. Making(q)' =>
         \A p \in Pods : \A i \in 1..Len(wire'[p]) :
             wire'[p][i].op = "create" /\ wire'[p][i].sid = sid'[q]
                => pc'[q] = "create" /\ wire'[p][i].by = q
  BY OwnCreate
<1> QED BY <1>1, <1>2, <1>3, <1>4 DEF MakesOwn

\* Requests still carry sessions whose login is over.
LEMMA CarriesOverKept ==
    ASSUME EndInv, TypeOK', [Next]_vars, Evolves, TokensAge, NEW q \in Requests
    PROVE  CarriesOver(q)'
<1>0. TypeOK /\ Moves(q) /\ CarriesOver(q)
  BY Parts DEF EndInv, Evolves
<1>1. \A s \in Sids : (Over(s) => Over(s)') /\ (Gone(s) => Gone(s)')
  BY <1>0, OverStays, GoneStays
<1>2. /\ sid'[q] # NoSid <=> sid'[q] \in Sids
      /\ sid[q] # NoSid <=> sid[q] \in Sids
      /\ cookie # NoSid <=> cookie \in Sids
  BY <1>0, SidTypes DEF TypeOK
<1>3. ASSUME kind'[q] # "login", sid'[q] # NoSid PROVE Over(sid[q])'
  <2>1. PICK s \in Sids : s = sid'[q] /\ Over(s)
    BY <1>0, <1>2, <1>3 DEF Moves, CarriesOver, EndInv
  <2> QED BY <1>1, <2>1
<1>4. ASSUME setCookie'[q] \in Sids PROVE Over(setCookie[q])'
  <2>1. PICK s \in Sids : s = setCookie'[q] /\ Over(s)
    BY <1>0, <1>4 DEF Moves, CarriesOver
  <2> QED BY <1>1, <2>1
<1>5. ASSUME pc'[q] = "joined"
      PROVE  /\ leader'[q] \in Requests /\ sid'[leader'[q]] = sid'[q]
             /\ pc'[leader'[q]] \notin {"idle", "login"}
  <2>1. CASE pc[q] = "joined" /\ leader'[q] = leader[q]
    <3>1. PICK l \in Requests : /\ l = leader[q] /\ sid[l] = sid[q]
                                /\ pc[l] \notin {"idle", "login"}
      BY <1>0, <2>1 DEF CarriesOver
    <3>2. Moves(l)
      BY DEF Evolves
    <3> QED BY <1>0, <2>1, <3>1, <3>2 DEF Moves
  <2> QED BY <1>0, <1>5, <2>1 DEF Moves
<1>6. ASSUME pc'[q] = "hydrated", got'[q] = "none", sid'[q] # NoSid
      PROVE  Gone(sid[q])'
  <2>1. PICK s \in Sids : s = sid'[q] /\ Gone(s)
    BY <1>0, <1>2, <1>6 DEF Moves, CarriesOver
  <2> QED BY <1>1, <2>1
<1>7. ASSUME pc'[q] = "answered", setCookie'[q] = ClearCookie, sid'[q] # NoSid
      PROVE  Gone(sid[q])'
  <2>1. PICK s \in Sids : s = sid'[q] /\ Gone(s)
    BY <1>0, <1>2, <1>7 DEF Moves, CarriesOver
  <2> QED BY <1>1, <2>1
<1>8. /\ pc'[q] \in Using => kind'[q] # "login"
      /\ pc'[q] = "login" => kind'[q] = "login"
  BY <1>0 DEF Moves
<1> QED BY <1>3, <1>4, <1>5, <1>6, <1>7, <1>8 DEF CarriesOver

\* A refused login has still left nothing of use.
LEMMA RefusesKept ==
    ASSUME EndInv, TypeOK', [Next]_vars, Evolves, TokensAge, NEW q \in Requests
    PROVE  Refuses(q)'
<1>0. /\ TypeOK /\ Moves(q) /\ Refuses(q) /\ MakesOwn(q)
      /\ faults \in Nat /\ faults' \in Nat /\ faults' >= faults
  BY Parts, BoundsAssumption DEF EndInv, Evolves, TypeOK, TokensAge
<1>1. \A s \in Sids : (Over(s) => Over(s)') /\ (Gone(s) => Gone(s)')
  BY <1>0, OverStays, GoneStays
<1>2. ASSUME pc'[q] = "revoke" PROVE faults' >= 1 \/ Gone(sid[q])'
  <2>1. CASE pc[q] = "revoke"
    <3>1. sid'[q] = sid[q] /\ sid[q] \in Sids
      BY <1>0, <2>1, Parts
         DEF Moves, EndInv, CarriesSession, Carries, Carrying, BackendPcs
    <3>2. faults >= 1 \/ Gone(sid[q])
      BY <1>0, <2>1 DEF Refuses
    <3> QED BY <1>0, <1>1, <3>1, <3>2
  <2>2. CASE pc[q] = "whoami"
    <3>1. /\ Making(q) /\ sid'[q] = sid[q] /\ sid[q] \in Sids
          /\ token[sid[q]] # "none"
      BY <1>0, <2>2, MakerHasSession DEF Moves, Making, EndInv
    <3>2. \A p \in Pods : \A i \in 1..Len(wire[p]) :
             ~(wire[p][i].op = "create" /\ wire[p][i].sid = sid[q])
      BY <1>0, <2>2, <3>1 DEF MakesOwn
    <3>3. store'[sid[q]] = "absent"
      BY <1>0, <2>2, <3>1, <3>2, AbsentStays DEF MakesOwn, Makes
    <3>4. token'[sid[q]] # "none"
      BY <3>1 DEF TokensAge, IssuedStays
    <3>5. ASSUME NEW o \in Requests, pc'[o] = "whoami" PROVE sid'[o] # sid[q]
      <4>1. Moves(o)
        BY DEF Evolves
      <4>2. CASE pc[o] = "whoami"
        BY <1>0, <1>2, <2>2, <3>1, <3>5, <4>1, <4>2 DEF Moves, MakesOwn, Making
      <4>3. CASE pc[o] # "whoami"
        BY <3>1, <3>5, <4>1, <4>3 DEF Moves
      <4> QED BY <4>2, <4>3
    <3>6. ASSUME NEW p \in Pods, NEW i \in 1..Len(wire'[p])
          PROVE  ~Makes(wire'[p][i], sid[q])
      <4>1. CASE Carried(p, wire'[p][i])
        BY <3>2, <4>1 DEF Carried, Makes
      <4>2. CASE Issued(wire'[p][i])
        <5> SUFFICES ASSUME Makes(wire'[p][i], sid[q]) PROVE FALSE
          OBVIOUS
        <5>1. PICK b \in Requests :
                 pc[b] = "whoami" /\ pc'[b] = "create" /\ sid[b] = sid[q]
          BY <4>2 DEF Issued, Makes
        <5>2. b = q
          BY <1>0, <3>1, <5>1 DEF MakesOwn, Making
        <5> QED BY <1>2, <5>1, <5>2
      <4> QED BY <4>1, <4>2 DEF Evolves, WireEvolves
    <3> QED BY <3>1, <3>3, <3>4, <3>5, <3>6 DEF Gone, Over
  <2> QED BY <1>0, <1>2, <2>1, <2>2 DEF Moves
<1>3. ASSUME reply'[q] = "refused"
      PROVE  pc'[q] \in {"answered", "done"}
  BY <1>0, <1>3 DEF Moves
<1>4. ASSUME reply'[q] = "refused", kind'[q] = "login", sid'[q] # NoSid
      PROVE  token'[sid'[q]] = "dead" \/ faults' >= 2 \/ Gone(sid[q])'
  <2>1. PICK s \in Sids : s = sid'[q]
    BY <1>4, SidTypes DEF TypeOK
  <2>2. CASE reply[q] = "refused"
    <3>1. kind[q] = "login" /\ sid[q] = s
      BY <1>0, <1>4, <2>1, <2>2 DEF Moves, Refuses
    <3>2. token[s] = "dead" \/ faults >= 2 \/ Gone(s)
      BY <1>0, <2>1, <2>2, <3>1, SidTypes DEF Refuses
    <3> QED BY <1>0, <1>1, <2>1, <3>2 DEF TokensAge, DeadStays
  <2>3. CASE reply[q] # "refused"
    <3>1. token'[s] = "dead" \/ faults' >= 2 \/ Gone(s)
      BY <1>0, <1>4, <2>1, <2>3 DEF Moves
    <3> QED BY <1>1, <2>1, <3>1
  <2> QED BY <2>2, <2>3
<1> QED BY <1>2, <1>3, <1>4 DEF Refuses

\* Commands stay truthful, and are when they are executed.
LEMMA TruthfulKept ==
    ASSUME EndInv, TypeOK', [Next]_vars, Evolves, TokensAge,
           NEW p \in Pods, NEW i \in 1..Len(wire'[p])
    PROVE  Truthful(wire[p][i])'
<1>0. TypeOK
  BY Parts DEF EndInv
<1>1. \A s \in Sids : (Over(s) => Over(s)') /\ (Gone(s) => Gone(s)')
  BY <1>0, OverStays, GoneStays
<1>2. CASE Carried(p, wire'[p][i])
  <2>1. PICK j \in 1..Len(wire[p]) :
           LET d == wire[p][j] IN
           /\ wire'[p][i].op = d.op /\ wire'[p][i].sid = d.sid
           /\ \/ wire'[p][i].result = d.result
              \/ /\ d.result = "unsent" /\ wire'[p][i].result = Outcome(d)
                 /\ store' = Effect(d)
    BY <1>2 DEF Carried
  <2>2. PICK d \in Commands : d = wire[p][j]
    BY <1>0, WireTypes
  <2>3. Truthful(d) /\ d.sid \in Sids /\ d.op \in Ops
    BY <2>2 DEF EndInv, Commands
  <2>4. d.op # "create" => Over(d.sid)'
    BY <1>1, <2>3 DEF Truthful
  <2>5. CASE wire'[p][i].result = d.result
    BY <1>1, <2>1, <2>2, <2>3, <2>4, <2>5 DEF Truthful
  <2>6. CASE wire'[p][i].result = Outcome(d) /\ store' = Effect(d)
    <3>1. d.op = "del" => store'[d.sid] = "absent"
      BY <1>0, <2>3, <2>6 DEF Effect, TypeOK
    <3>0. d.op = "touch" => Outcome(d) \in {"ok", "none"}
      BY DEF Outcome
    <3>2. Outcome(d) = "none" => d.op # "create" /\ store[d.sid] = "absent"
      <4>0. store \in [Sids -> {"absent", "fresh", "stale"}]
        BY <1>0 DEF TypeOK
      <4>1. store[d.sid] # "none"
        BY <2>3, <4>0
      <4>2. d.op = "create" => Outcome(d) = "ok"
        BY DEF Outcome
      <4>3. d.op = "get" => Outcome(d) # "none" \/ store[d.sid] = "absent"
        BY <4>1 DEF Outcome
      <4>4. d.op = "touch" => Outcome(d) # "none" \/ store[d.sid] = "absent"
        BY DEF Outcome, TouchApplies
      <4>5. d.op = "del" => Outcome(d) = "ok"
        BY DEF Outcome
      <4> QED BY <2>3, <4>2, <4>3, <4>4, <4>5 DEF Ops
    <3>3. ASSUME Outcome(d) = "none" PROVE Gone(d.sid)'
      BY <1>1, <2>3, <3>2, <3>3 DEF Gone, Truthful
    <3>4. d.op = "del" => Gone(d.sid)'
      BY <2>4, <3>1 DEF Gone
    <3> QED BY <2>1, <2>2, <2>4, <2>6, <3>0, <3>3, <3>4 DEF Truthful
  <2> QED BY <2>1, <2>2, <2>5, <2>6
<1>3. CASE Issued(wire'[p][i])
  <2>1. wire'[p][i].op # "create" => Over(wire[p][i].sid)'
    <3>1. CASE wire'[p][i].op # "create"
      <4>1. PICK s \in Sids : s = wire'[p][i].sid /\ Over(s)
        BY <1>3, <3>1 DEF Issued
      <4> QED BY <1>1, <4>1
    <3> QED BY <3>1
  <2> QED BY <1>3, <2>1 DEF Issued, Truthful
<1> QED BY <1>2, <1>3 DEF Evolves, WireEvolves

\* So the invariant is kept by what evolves in this way.
LEMMA EndKept ==
    ASSUME EndInv, IInv', Known', [Next]_vars, Evolves,
           cookie' = cookie \/ \E r \in Requests : cookie' \in {setCookie[r], NoSid}
    PROVE  EndInv'
<1>0. TypeOK /\ TypeOK' /\ IInv
  BY DEF IInv, EndInv
<1>1. TokensAge
  BY <1>0, TokensAgeAlways
<1>2. ASSUME cookie' # NoSid PROVE Over(cookie)'
  <2>1. PICK s \in Sids : s = cookie' /\ Over(s)
    <3>1. cookie' \in Sids
      BY <1>0, <1>2 DEF TypeOK
    <3> QED BY <1>2, <3>1 DEF EndInv, CarriesOver
  <2> QED BY <1>0, <1>1, <2>1, OverStays
<1>3. \A r \in Requests : MakesOwn(r)' /\ CarriesOver(r)' /\ Refuses(r)'
  BY <1>0, <1>1, MakesOwnKept, CarriesOverKept, RefusesKept
<1>4. \A p \in Pods : \A i \in 1..Len(wire'[p]) : Truthful(wire[p][i])'
  BY <1>0, <1>1, TruthfulKept
<1>5. Unmade'
  BY <1>1, UnmadeKept
<1> QED BY <1>2, <1>3, <1>4, <1>5 DEF EndInv

-----------------------------------------------------------------------------
(* What the requests do                                                    *)

\* What the invariant says of a request, and where it is.
LEMMA EndParts ==
    ASSUME EndInv
    PROVE  /\ TypeOK /\ IInv /\ Known
           /\ \A r \in Requests :
                 /\ MakesOwn(r) /\ CarriesOver(r) /\ Refuses(r) /\ Carries(r)
                 /\ pod[r] \in Pods
BY DEF EndInv, IInv, Local, TypeOK

\* Nothing that matters here changes for q.
Same(q) ==
    /\ pc'[q] = pc[q] /\ sid'[q] = sid[q] /\ kind'[q] = kind[q]
    /\ leader'[q] = leader[q] /\ got'[q] = got[q]
    /\ setCookie'[q] = setCookie[q] /\ reply'[q] = reply[q]

\* A request that does not change moves as it may.
LEMMA SameMoves ==
    ASSUME EndInv, NEW q \in Requests, Same(q)
    PROVE  Moves(q)
<1>1. MakesOwn(q) /\ CarriesOver(q) /\ Refuses(q)
  BY EndParts
<1>2. reply[q] = "refused" => pc[q] \in {"answered", "done"}
  BY <1>1 DEF Refuses
<1>3. /\ pc[q] \in Using => kind[q] # "login"
      /\ pc[q] = "login" => kind[q] = "login"
  BY <1>1 DEF CarriesOver
<1> QED BY <1>2, <1>3 DEF Same, Moves, Making

\* Only r changes.
Aside(r) == \A q \in Requests : q # r => Same(q)

\* All requests move as they may if r does.
LEMMA AsideMoves ==
    ASSUME EndInv, NEW r \in Requests, Aside(r), Moves(r)
    PROVE  \A q \in Requests : Moves(q)
BY SameMoves DEF Aside

\* They do if no request changes.
LEMMA StillMoves ==
    ASSUME EndInv, UNCHANGED <<pc, sid, kind, leader, got, setCookie, reply>>
    PROVE  \A q \in Requests : Moves(q)
BY SameMoves DEF Same

\* A request with a session goes on, or is answered: without touching the
\* cookie, or clearing it when there is no session any more.
LEMMA UsingMoves ==
    ASSUME EndInv, NEW q \in Requests, pc[q] \in Using,
           sid'[q] = sid[q], kind'[q] = kind[q],
           \/ /\ pc'[q] \in Using \ {"joined", "hydrated"}
              /\ setCookie'[q] = setCookie[q] /\ reply'[q] = reply[q]
           \/ pc'[q] = "answered" /\ setCookie'[q] = KeepCookie
           \/ /\ pc'[q] = "answered" /\ setCookie'[q] = ClearCookie
              /\ sid[q] = NoSid \/ Gone(sid[q])
    PROVE  Moves(q)
<1>1. /\ kind[q] # "login" /\ reply[q] # "refused"
  BY EndParts DEF CarriesOver, Refuses, Using
<1>2. KeepCookie \notin Sids /\ ClearCookie \notin Sids /\ KeepCookie # ClearCookie
  BY BoundsAssumption DEF Sids, NoSid, KeepCookie, ClearCookie
<1>3. pc[q] \notin {"idle", "login"}
  BY DEF Using
<1>4. CASE pc'[q] \in Using \ {"joined", "hydrated"}
           /\ setCookie'[q] = setCookie[q] /\ reply'[q] = reply[q]
  <2>1. pc'[q] \notin {"idle", "login", "create", "whoami", "revoke", "answered",
                       "joined", "hydrated"}
    BY <1>4 DEF Using
  <2> QED BY <1>1, <1>3, <1>4, <2>1 DEF Moves
<1>5. CASE pc'[q] = "answered" /\ setCookie'[q] = KeepCookie
  BY <1>1, <1>2, <1>3, <1>5 DEF Moves, Using
<1>6. CASE pc'[q] = "answered" /\ setCookie'[q] = ClearCookie
           /\ (sid[q] = NoSid \/ Gone(sid[q]))
  BY <1>1, <1>2, <1>3, <1>6 DEF Moves, Using
<1> QED BY <1>4, <1>5, <1>6

\* A request ends.
LEMMA DoneMoves ==
    ASSUME EndInv, NEW q \in Requests, pc'[q] = "done",
           sid'[q] = sid[q], kind'[q] = kind[q],
           setCookie'[q] = setCookie[q], reply'[q] \in {reply[q], "crashed"}
    PROVE  Moves(q)
BY DEF Moves, Using

\* A login fails or goes on.
LEMMA LoginMoves ==
    ASSUME EndInv, NEW q \in Requests, pc[q] \in {"whoami", "create", "revoke", "login"},
           sid'[q] = sid[q], kind'[q] = kind[q],
           \/ pc'[q] = "create" /\ Making(q)
           \/ pc'[q] = "revoke" /\ (pc[q] = "whoami" \/ faults' >= 1)
           \/ pc'[q] = "answered",
           pc'[q] # "answered"
              => setCookie'[q] = setCookie[q] /\ reply'[q] = reply[q],
           pc'[q] = "answered" =>
              /\ setCookie'[q] = KeepCookie
              /\ reply'[q] = "refused" /\ kind[q] = "login" /\ sid[q] # NoSid
                    => token'[sid[q]] = "dead" \/ faults' >= 2 \/ Gone(sid[q])
    PROVE  Moves(q)
<1>1. reply[q] # "refused"
  BY EndParts DEF Refuses
<1>2. KeepCookie \notin Sids /\ KeepCookie # ClearCookie
  BY BoundsAssumption DEF Sids, NoSid, KeepCookie, ClearCookie
<1>3. pc'[q] \notin Using
  BY DEF Using
<1>4. CASE pc'[q] = "answered"
  BY <1>1, <1>2, <1>3, <1>4 DEF Moves
<1>5. CASE pc'[q] = "create" \/ pc'[q] = "revoke"
  BY <1>1, <1>3, <1>5 DEF Moves
<1> QED BY <1>4, <1>5

\* A hydration ends, for all who await it: that there is no session is true.
LEMMA HydratedMoves ==
    ASSUME EndInv, NEW r \in Requests, pc[r] \in {"get", "touch"},
           NEW outcome, Hydrated(r, outcome),
           outcome = "none" => Gone(sid[r]),
           UNCHANGED <<kind, sid, leader, setCookie, reply>>
    PROVE  \A q \in Requests : Moves(q)
<1> SUFFICES ASSUME NEW q \in Requests PROVE Moves(q)
  OBVIOUS
<1>1. CASE leader[q] = r /\ pc[q] \in {"get", "touch", "joined"}
  <2>1. pc'[q] = "hydrated" /\ got'[q] = outcome
    BY <1>1 DEF Hydrated
  <2>2. sid[q] = sid[r]
    <3>1. Led(q) /\ CarriesOver(q)
      BY EndParts DEF EndInv, IInv, Local
    <3> QED BY <1>1, <3>1 DEF Led, CarriesOver
  <2>3. kind[q] # "login" /\ reply[q] # "refused"
    BY <1>1, EndParts DEF CarriesOver, Refuses, Using
  <2> QED BY <1>1, <2>1, <2>2, <2>3 DEF Moves
<1>2. CASE ~(leader[q] = r /\ pc[q] \in {"get", "touch", "joined"})
  <2>1. pc'[q] = pc[q] /\ got'[q] = got[q]
    BY <1>2 DEF Hydrated
  <2> QED BY <2>1, SameMoves DEF Same
<1> QED BY <1>1, <1>2

-----------------------------------------------------------------------------
(* What the connections do                                                 *)

\* A command that is on its way before and after.
LEMMA StillThere ==
    ASSUME NEW p \in Pods, NEW i \in 1..Len(wire[p]), NEW c, c = wire[p][i]
    PROVE  Carried(p, c)
BY DEF Carried

\* Nothing happens on the connections.
LEMMA WireStill ==
    ASSUME UNCHANGED wire
    PROVE  WireEvolves
BY StillThere DEF WireEvolves

\* A command is sent.
LEMMA WireSent ==
    ASSUME TypeOK, NEW p0 \in Pods, NEW c \in Commands, Issued(c),
           wire' = [wire EXCEPT ![p0] = Append(wire[p0], c)]
    PROVE  WireEvolves
<1> SUFFICES ASSUME NEW p \in Pods, NEW i \in 1..Len(wire'[p])
             PROVE  Carried(p, wire'[p][i]) \/ Issued(wire'[p][i])
  BY DEF WireEvolves
<1>1. CASE p # p0
  BY <1>1, StillThere DEF TypeOK
<1>2. CASE p = p0
  <2>1. wire[p] \in Seq(Commands) /\ wire'[p] = Append(wire[p], c)
        /\ Len(wire[p]) \in Nat
    BY <1>2, LenProperties DEF TypeOK
  <2>2. /\ Len(wire'[p]) = Len(wire[p]) + 1
        /\ wire'[p][Len(wire[p]) + 1] = c
        /\ \A j \in 1..Len(wire[p]) : wire'[p][j] = wire[p][j]
    BY <2>1, AppendProperties
  <2>3. i = Len(wire[p]) + 1 \/ i \in 1..Len(wire[p])
    BY <2>1, <2>2
  <2> QED BY <2>2, <2>3, StillThere
<1> QED BY <1>1, <1>2

\* The oldest command is answered, and perhaps followed by another.
LEMMA WireTaken ==
    ASSUME TypeOK, NEW p0 \in Pods, wire[p0] # <<>>,
           \/ wire' = [wire EXCEPT ![p0] = Tail(wire[p0])]
           \/ \E c \in Commands :
                 /\ Issued(c)
                 /\ wire' = [wire EXCEPT ![p0] = Append(Tail(wire[p0]), c)]
    PROVE  WireEvolves
<1> SUFFICES ASSUME NEW p \in Pods, NEW i \in 1..Len(wire'[p])
             PROVE  Carried(p, wire'[p][i]) \/ Issued(wire'[p][i])
  BY DEF WireEvolves
<1>1. CASE p # p0
  BY <1>1, StillThere DEF TypeOK
<1>2. CASE p = p0
  <2> DEFINE w == Tail(wire[p])
  <2>1. /\ w \in Seq(Commands) /\ Len(w) = Len(wire[p]) - 1
        /\ \A j \in 1..Len(w) : w[j] = wire[p][j + 1]
        /\ Len(wire[p]) \in Nat
    BY <1>2, Shortened, LenProperties DEF TypeOK
  <2> HIDE DEF w
  <2>2. \A j \in 1..Len(w) : w[j] = wire[p][j + 1] /\ j + 1 \in 1..Len(wire[p])
    BY <2>1
  <2>3. CASE wire' = [wire EXCEPT ![p0] = Tail(wire[p0])]
    <3>1. wire'[p] = w
      BY <1>2, <2>3 DEF TypeOK, w
    <3> QED BY <2>2, <3>1, StillThere
  <2>4. ASSUME NEW c \in Commands, Issued(c),
               wire' = [wire EXCEPT ![p0] = Append(Tail(wire[p0]), c)]
        PROVE  Carried(p, wire'[p][i]) \/ Issued(wire'[p][i])
    <3>1. wire'[p] = Append(w, c)
      BY <1>2, <2>4 DEF TypeOK, w
    <3>2. /\ Len(wire'[p]) = Len(w) + 1 /\ wire'[p][Len(w) + 1] = c
          /\ \A j \in 1..Len(w) : wire'[p][j] = w[j]
      BY <2>1, <3>1, AppendProperties
    <3>3. i = Len(w) + 1 \/ i \in 1..Len(w)
      BY <2>1, <3>2
    <3> QED BY <2>2, <2>4, <3>2, <3>3, StillThere
  <2> QED BY <2>3, <2>4
<1> QED BY <1>1, <1>2

\* A command is executed.
LEMMA WireRuns ==
    ASSUME TypeOK, NEW p0 \in Pods, Execute(p0)
    PROVE  WireEvolves
<1>1. PICK k \in 1..Len(wire[p0]) :
         /\ wire[p0][k].result = "unsent" /\ store' = Effect(wire[p0][k])
         /\ wire' = [wire EXCEPT ![p0][k].result = Outcome(wire[p0][k])]
  BY DEF Execute
<1> SUFFICES ASSUME NEW p \in Pods, NEW i \in 1..Len(wire'[p])
             PROVE  Carried(p, wire'[p][i])
  BY DEF WireEvolves
<1>2. CASE p # p0
  BY <1>1, <1>2, StillThere DEF TypeOK
<1>3. CASE p = p0
  <2>1. wire[p] \in Seq(Commands) /\ wire[p][k] \in Commands
    BY <1>1, <1>3, ElementOfSeq DEF TypeOK
  <2> DEFINE c == [wire[p][k] EXCEPT !.result = Outcome(wire[p][k])]
  <2>2. wire'[p] = [wire[p] EXCEPT ![k] = c]
    BY <1>1, <1>3 DEF TypeOK
  <2>3. /\ c.op = wire[p][k].op /\ c.sid = wire[p][k].sid /\ c.by = wire[p][k].by
        /\ c.result = Outcome(wire[p][k])
    BY <2>1 DEF Commands
  <2> HIDE DEF c
  <2>4. /\ Len(wire'[p]) = Len(wire[p])
        /\ \A j \in 1..Len(wire[p]) : wire'[p][j] = IF j = k THEN c ELSE wire[p][j]
    <3>1. DOMAIN wire[p] = 1..Len(wire[p]) /\ Len(wire[p]) \in Nat
      BY <2>1, LenProperties
    <3>2. DOMAIN wire'[p] = 1..Len(wire[p])
      BY <2>2, <3>1
    <3>3. Len(wire'[p]) = Len(wire[p])
      BY <3>1, <3>2
    <3> QED BY <2>2, <3>1, <3>3
  <2>5. CASE i = k
    BY <1>1, <1>3, <2>3, <2>4, <2>5 DEF Carried
  <2>6. CASE i # k
    BY <2>4, <2>6, StillThere
  <2> QED BY <2>5, <2>6
<1> QED BY <1>2, <1>3

\* A command is given up by its request, or never executed.
LEMMA WireGivenUp ==
    ASSUME TypeOK, NEW p0 \in Pods, NEW k \in 1..Len(wire[p0]), CommandFails(p0, k),
           pc'[wire[p0][k].by] # "create"
    PROVE  WireEvolves
<1> SUFFICES ASSUME NEW p \in Pods, NEW i \in 1..Len(wire'[p])
             PROVE  Carried(p, wire'[p][i])
  BY DEF WireEvolves
<1>0. wire[p] \in Seq(Commands) /\ Len(wire[p]) \in Nat
  BY LenProperties DEF TypeOK
<1>1. CASE p # p0
  <2>1. wire'[p] = wire[p]
    BY <1>1 DEF CommandFails, TypeOK
  <2> QED BY <2>1, StillThere
<1>2. CASE p = p0 /\ wire' = [wire EXCEPT ![p0][k].by = Nobody]
  <2>1. wire[p][k] \in Commands
    BY <1>0, <1>2, ElementOfSeq
  <2> DEFINE c == [wire[p][k] EXCEPT !.by = Nobody]
  <2>2. wire'[p] = [wire[p] EXCEPT ![k] = c]
    BY <1>2 DEF TypeOK
  <2>3. /\ c.op = wire[p][k].op /\ c.sid = wire[p][k].sid /\ c.by = Nobody
        /\ c.result = wire[p][k].result /\ c \in Commands
    BY <2>1 DEF Commands
  <2> HIDE DEF c
  <2>4. /\ Len(wire'[p]) = Len(wire[p])
        /\ \A j \in 1..Len(wire[p]) : wire'[p][j] = IF j = k THEN c ELSE wire[p][j]
    <3>1. k \in 1..Len(wire[p])
      BY <1>2
    <3> QED BY <1>0, <2>2, <2>3, <3>1, ExceptSeq
  <2>5. CASE i = k
    BY <1>2, <2>3, <2>4, <2>5 DEF Carried
  <2>6. CASE i # k
    BY <2>4, <2>6, StillThere
  <2> QED BY <2>5, <2>6
<1>3. CASE p = p0 /\ wire' = [wire EXCEPT ![p0] = SubSeq(@, 1, k - 1)
                                                   \o SubSeq(@, k + 1, Len(@))]
  <2> DEFINE w == SubSeq(wire[p], 1, k - 1) \o SubSeq(wire[p], k + 1, Len(wire[p]))
  <2>1. wire'[p] = w
    BY <1>3 DEF TypeOK
  <2>2. /\ Len(w) = Len(wire[p]) - 1
        /\ \A j \in 1..Len(w) : w[j] = IF j < k THEN wire[p][j] ELSE wire[p][j + 1]
    BY <1>3, Removed
  <2> HIDE DEF w
  <2>3. PICK j \in 1..Len(wire[p]) : wire'[p][i] = wire[p][j]
    BY <1>0, <2>1, <2>2
  <2> QED BY <2>3, StillThere
<1> QED BY <1>1, <1>2, <1>3 DEF CommandFails

\* A pod is lost.
LEMMA WireLost ==
    ASSUME IInv, NEW p0 \in Pods, Restart(p0)
    PROVE  WireEvolves
<1>0. TypeOK
  BY DEF IInv
<1> SUFFICES ASSUME NEW p \in Pods, NEW i \in 1..Len(wire'[p])
             PROVE  Carried(p, wire'[p][i])
  BY DEF WireEvolves
<1>1. CASE p # p0
  <2>1. wire'[p] = wire[p]
    BY <1>0, <1>1 DEF Restart, TypeOK
  <2> QED BY <2>1, StillThere
<1>2. CASE p = p0 /\ wire' = [wire EXCEPT ![p0] = <<>>]
  <2>1. wire'[p] = <<>>
    BY <1>0, <1>2 DEF TypeOK
  <2> QED BY <2>1
<1>3. CASE p = p0 /\ wire' = [wire EXCEPT ![p0] =
                                 [j \in DOMAIN @ |-> [@[j] EXCEPT !.by = Nobody]]]
  <2>1. /\ DOMAIN wire[p] = 1..Len(wire[p]) /\ Len(wire[p]) \in Nat
        /\ \A j \in 1..Len(wire[p]) : wire[p][j] \in Commands
    BY <1>0, LenProperties, WireTypes DEF TypeOK
  <2> DEFINE w == [j \in 1..Len(wire[p]) |-> [wire[p][j] EXCEPT !.by = Nobody]]
  <2>2. wire'[p] = w
    BY <1>0, <1>3, <2>1 DEF TypeOK
  <2>3. /\ DOMAIN w = 1..Len(wire[p])
        /\ \A j \in 1..Len(wire[p]) :
              /\ w[j].op = wire[p][j].op /\ w[j].sid = wire[p][j].sid
              /\ w[j].by = Nobody /\ w[j].result = wire[p][j].result
    BY <2>1 DEF Commands
  <2> HIDE DEF w
  <2>4. i \in 1..Len(wire[p])
    BY <2>1, <2>2, <2>3
  <2>5. wire[p][i].by \in Requests => pc'[wire[p][i].by] # "create"
    <3>1. ASSUME NEW b \in Requests, b = wire[p][i].by
          PROVE  pc'[b] # "create"
      <4>1. pc[b] = wire[p][i].op /\ pod[b] = p
        BY <2>4, <3>1, NobodyAssumption DEF IInv, WireMatched, Matches
      <4>2. pc[b] \in Ops
        BY <1>0, <2>4, <4>1, WireTypes
      <4> QED BY <1>3, <4>1, <4>2 DEF Restart, Ops
    <3> QED BY <3>1
  <2> QED BY <2>2, <2>3, <2>4, <2>5 DEF Carried
<1> QED BY <1>1, <1>2, <1>3 DEF Restart

-----------------------------------------------------------------------------
(* The handlers                                                            *)

\* The answer that arrives at r is that to its own command.
LEMMA Arrived ==
    ASSUME EndInv, NEW r \in Requests, NEW op \in Ops, Answers(r, op)
    PROVE  /\ pc[r] = op /\ pod[r] \in Pods /\ sid[r] \in Sids
           /\ wire[pod[r]] # <<>> /\ 1 \in 1..Len(wire[pod[r]])
           /\ Head(wire[pod[r]]) = wire[pod[r]][1]
           /\ wire[pod[r]][1].by = r /\ wire[pod[r]][1].op = op
           /\ wire[pod[r]][1].sid = sid[r]
           /\ wire[pod[r]][1].result # "unsent"
           /\ Truthful(wire[pod[r]][1])
<1>1. TypeOK /\ WireMatched /\ pod[r] \in Pods /\ wire[pod[r]] # <<>>
  BY EndParts DEF IInv, Answers
<1>2. 1 \in 1..Len(wire[pod[r]]) /\ Head(wire[pod[r]]) = wire[pod[r]][1]
  BY <1>1, Shortened
<1>3. Matches(pod[r], wire[pod[r]][1]) /\ Truthful(wire[pod[r]][1])
  BY <1>1, <1>2 DEF WireMatched, EndInv
<1>4. wire[pod[r]][1].sid \in Sids
  BY <1>1, <1>2, WireTypes
<1> QED BY <1>1, <1>2, <1>3, <1>4, NobodyAssumption DEF Answers, Matches

\* A command of r for its session is sent.
LEMMA OwnCommand ==
    ASSUME NEW r \in Requests, NEW op \in Ops, NEW s \in Sids
    PROVE  /\ Command(r, op, s) \in Commands
           /\ op # "create" /\ Over(s) => Issued(Command(r, op, s))
           /\ op = "create" /\ pc[r] = "whoami" /\ pc'[r] = "create" /\ sid[r] = s
                 => Issued(Command(r, op, s))
BY DEF Command, Commands, Issued

\* A handler with a session goes on, or answers.
LEMMA UsingEvolves ==
    ASSUME EndInv, NEW r \in Requests, pc[r] \in Using,
           UNCHANGED <<wire, kind, sid, got>>,
           \A q \in Requests : q # r => leader'[q] = leader[q],
           \/ Unanswered /\ \E where \in Using \ {"joined", "hydrated"} : GoTo(r, where)
           \/ \E how : Answer(r, how, KeepCookie)
           \/ /\ sid[r] = NoSid \/ Gone(sid[r])
              /\ \E how : Answer(r, how, ClearCookie)
    PROVE  Evolves
<1>1. TypeOK
  BY EndParts
<1>2. Aside(r)
  BY <1>1 DEF Aside, Same, GoTo, Unanswered, Answer, TypeOK
<1>3. Moves(r)
  <2>1. CASE Unanswered /\ \E where \in Using \ {"joined", "hydrated"} : GoTo(r, where)
    <3>1. /\ pc'[r] \in Using \ {"joined", "hydrated"}
          /\ setCookie'[r] = setCookie[r] /\ reply'[r] = reply[r]
      BY <1>1, <2>1 DEF GoTo, Unanswered, TypeOK
    <3> QED BY <3>1, UsingMoves
  <2>2. ASSUME NEW how, NEW header, Answer(r, how, header)
        PROVE  pc'[r] = "answered" /\ setCookie'[r] = header
    BY <1>1, <2>2 DEF Answer, GoTo, TypeOK
  <2> QED BY <2>1, <2>2, UsingMoves
<1> QED BY <1>2, <1>3, AsideMoves, WireStill DEF Evolves

\* A handler destroys its session.
LEMMA DestroyEvolves ==
    ASSUME EndInv, NEW r \in Requests, pc[r] \in Using, sid[r] \in Sids, Destroy(r),
           UNCHANGED <<kind, sid, leader, got>>
    PROVE  Evolves
<1>1. TypeOK /\ pod[r] \in Pods /\ CarriesOver(r)
  BY EndParts
<1>2. Aside(r) /\ pc'[r] = "del"
  BY <1>1 DEF Destroy, Issue, Aside, Same, GoTo, Unanswered, TypeOK
<1>3. Moves(r)
  <2>1. "del" \in Using \ {"joined", "hydrated"}
    BY DEF Using
  <2>2. setCookie'[r] = setCookie[r] /\ reply'[r] = reply[r]
    BY DEF Destroy, Unanswered
  <2> QED BY <1>2, <2>1, <2>2, UsingMoves
<1>4. WireEvolves
  <2>1. Over(sid[r])
    BY <1>1, SidTypes DEF CarriesOver
  <2>2. Command(r, "del", sid[r]) \in Commands /\ Issued(Command(r, "del", sid[r]))
    BY <2>1, OwnCommand DEF Ops
  <2>3. wire' = [wire EXCEPT ![pod[r]] =
                    Append(wire[pod[r]], Command(r, "del", sid[r]))]
    BY DEF Destroy, Issue
  <2> QED BY <1>1, <2>2, <2>3, WireSent
<1> QED BY <1>2, <1>3, <1>4, AsideMoves DEF Evolves

\* A request is sent.
LEMMA SendEvolves ==
    ASSUME EndInv, NEW r \in Requests, NEW k \in Kinds, NEW p \in Pods,
           SendLogin(r, p) \/ SendWithCookie(r, k, p)
    PROVE  Evolves
<1>1. TypeOK /\ MakesOwn(r) /\ CarriesOver(r) /\ Refuses(r)
  BY EndParts
<1>2. /\ pc[r] = "idle" /\ sid[r] = NoSid /\ reply[r] # "refused"
      /\ UNCHANGED <<setCookie, reply, cookie>>
  BY <1>1
     DEF SendLogin, SendWithCookie, Send, Unanswered, MakesOwn, Refuses
<1>3. \A q \in Requests : q # r => kind'[q] = kind[q]
  BY <1>1 DEF SendLogin, SendWithCookie, Send, TypeOK
<1>4. CASE SendLogin(r, p)
  <2>1. /\ pc'[r] = "login" /\ kind'[r] = "login" /\ sid'[r] = sid[r]
        /\ UNCHANGED <<wire, sid, leader, got>>
        /\ \A q \in Requests : q # r => pc'[q] = pc[q]
    BY <1>1, <1>4 DEF SendLogin, Send, GoTo, TypeOK
  <2>2. Aside(r)
    BY <1>2, <1>3, <2>1 DEF Aside, Same
  <2>3. Moves(r)
    BY <1>2, <2>1 DEF Moves, Using
  <2> QED BY <2>1, <2>2, <2>3, AsideMoves, WireStill DEF Evolves
<1>5. CASE SendWithCookie(r, k, p) /\ cookie = NoSid
  <2>1. /\ pc'[r] = "hydrated" /\ kind'[r] = k /\ k # "login" /\ sid'[r] = NoSid
        /\ UNCHANGED <<wire, leader>>
        /\ \A q \in Requests :
              q # r => pc'[q] = pc[q] /\ sid'[q] = sid[q] /\ got'[q] = got[q]
    BY <1>1, <1>5 DEF SendWithCookie, Send, GoTo, TypeOK
  <2>2. Aside(r)
    BY <1>2, <1>3, <2>1 DEF Aside, Same
  <2>3. Moves(r)
    BY <1>2, <2>1 DEF Moves, Using
  <2> QED BY <2>1, <2>2, <2>3, AsideMoves, WireStill DEF Evolves
<1>6. CASE SendWithCookie(r, k, p) /\ cookie # NoSid
  <2>1. /\ kind'[r] = k /\ k # "login" /\ sid'[r] = cookie /\ cookie \in Sids
        /\ UNCHANGED got /\ Hydrate(r, p, cookie)
        /\ \A q \in Requests : q # r => sid'[q] = sid[q]
    BY <1>1, <1>6, SidTypes DEF SendWithCookie, Send, TypeOK
  <2>2. CASE hydrating[p][cookie] = Nobody
    <3>1. /\ pc'[r] = "get" /\ leader'[r] = r
          /\ \A q \in Requests : q # r => pc'[q] = pc[q] /\ leader'[q] = leader[q]
          /\ wire' = [wire EXCEPT ![p] = Append(wire[p], Command(r, "get", cookie))]
      BY <1>1, <2>1, <2>2 DEF Hydrate, GoTo, TypeOK
    <3>2. Aside(r)
      BY <1>2, <1>3, <2>1, <3>1 DEF Aside, Same
    <3>3. Moves(r)
      BY <1>2, <2>1, <3>1 DEF Moves, Using
    <3>4. WireEvolves
      <4>1. Over(cookie)
        BY <1>6 DEF EndInv
      <4>2. Command(r, "get", cookie) \in Commands /\ Issued(Command(r, "get", cookie))
        BY <2>1, <4>1, OwnCommand DEF Ops
      <4> QED BY <1>1, <3>1, <4>2, WireSent
    <3> QED BY <3>2, <3>3, <3>4, AsideMoves DEF Evolves
  <2>3. CASE hydrating[p][cookie] # Nobody
    <3>1. /\ pc'[r] = "joined" /\ leader'[r] = hydrating[p][cookie]
          /\ \A q \in Requests : q # r => pc'[q] = pc[q] /\ leader'[q] = leader[q]
          /\ UNCHANGED wire
      BY <1>1, <2>1, <2>3 DEF Hydrate, GoTo, TypeOK
    <3>2. Aside(r)
      BY <1>2, <1>3, <2>1, <3>1 DEF Aside, Same
    <3>3. PICK l \in Requests : l = leader'[r]
      BY <1>1, <2>1, <2>3, <3>1 DEF TypeOK
    <3>4. pc[l] \in {"get", "touch"} /\ sid[l] = cookie
      BY <2>1, <2>3, <3>1, <3>3, EndParts DEF IInv, PendingIsRunning
    <3>5. sid'[l] = cookie /\ pc'[l] \in {"get", "touch"}
      BY <1>2, <2>1, <3>1, <3>4
    <3>6. Moves(r)
      BY <1>2, <2>1, <3>1, <3>3, <3>5 DEF Moves, Using
    <3> QED BY <3>1, <3>2, <3>6, AsideMoves, WireStill DEF Evolves
  <2> QED BY <2>2, <2>3
<1> QED BY <1>4, <1>5, <1>6

\* An answer reaches the browser.
LEMMA ReceiveEvolves ==
    ASSUME EndInv, NEW r \in Requests, Receive(r)
    PROVE  Evolves
<1>1. TypeOK
  BY EndParts
<1>2. /\ pc'[r] = "done" /\ \A q \in Requests : q # r => pc'[q] = pc[q]
      /\ UNCHANGED <<wire, kind, sid, leader, got, setCookie, reply>>
  BY <1>1 DEF Receive, GoTo, TypeOK
<1>3. Aside(r) /\ Moves(r)
  BY <1>2, DoneMoves DEF Aside, Same
<1> QED BY <1>2, <1>3, AsideMoves, WireStill DEF Evolves

\* A hydration goes on or ends.
LEMMA HydrationEvolves ==
    ASSUME EndInv, NEW r \in Requests, GetAnswered(r) \/ TouchAnswered(r)
    PROVE  Evolves
<1>0. TypeOK /\ UNCHANGED <<kind, sid, leader, setCookie, reply>>
  BY EndParts DEF GetAnswered, TouchAnswered, Unanswered
<1>1. ASSUME NEW outcome, SettleHydration(r, outcome), Answered(pod[r]),
             pc[r] \in {"get", "touch"}, pod[r] \in Pods, wire[pod[r]] # <<>>,
             outcome = "none" => Gone(sid[r])
      PROVE  Evolves
  <2>1. Hydrated(r, outcome)
    BY <1>1 DEF SettleHydration
  <2>2. \A q \in Requests : Moves(q)
    BY <1>0, <1>1, <2>1, HydratedMoves
  <2>3. WireEvolves
    BY <1>0, <1>1, WireTaken DEF Answered
  <2> QED BY <2>2, <2>3 DEF Evolves
<1>2. CASE GetAnswered(r)
  <2> DEFINE c == wire[pod[r]][1]
  <2>1. Answers(r, "get") /\ "get" \in Ops
    BY <1>2 DEF GetAnswered, Ops
  <2>2. /\ pc[r] = "get" /\ pod[r] \in Pods /\ sid[r] \in Sids
        /\ wire[pod[r]] # <<>> /\ Head(wire[pod[r]]) = c /\ c.op = "get"
        /\ c.sid = sid[r] /\ Truthful(c)
    BY <2>1, Arrived
  <2>3. CASE Result(r) = "stale"
    <3>1. /\ pc'[r] = "touch" /\ UNCHANGED got
          /\ \A q \in Requests : q # r => pc'[q] = pc[q]
          /\ wire' = [wire EXCEPT ![pod[r]] =
                         Append(Tail(wire[pod[r]]), Command(r, "touch", sid[r]))]
      BY <1>0, <1>2, <2>3 DEF GetAnswered, GoTo, TypeOK
    <3>2. Command(r, "touch", sid[r]) \in Commands
          /\ Issued(Command(r, "touch", sid[r]))
      BY <2>2, OwnCommand DEF Truthful, Ops
    <3>3. WireEvolves
      BY <1>0, <2>2, <3>1, <3>2, WireTaken
    <3>4. Aside(r)
      BY <1>0, <3>1 DEF Aside, Same
    <3>5. Moves(r)
      BY <1>0, <2>2, <3>1, UsingMoves DEF Using
    <3> QED BY <3>3, <3>4, <3>5, AsideMoves DEF Evolves
  <2>4. CASE Result(r) # "stale"
    <3>1. /\ SettleHydration(r, IF Result(r) = "none" THEN "none" ELSE "session")
          /\ Answered(pod[r])
      BY <1>2, <2>4 DEF GetAnswered
    <3>2. Result(r) = "none" => Gone(sid[r])
      BY <2>2 DEF Result, Truthful
    <3> QED BY <1>1, <2>2, <3>1, <3>2
  <2> QED BY <2>3, <2>4
<1>3. CASE TouchAnswered(r)
  <2> DEFINE c == wire[pod[r]][1]
  <2>1. Answers(r, "touch") /\ "touch" \in Ops
    BY <1>3 DEF TouchAnswered, Ops
  <2>2. /\ pc[r] = "touch" /\ pod[r] \in Pods /\ sid[r] \in Sids
        /\ wire[pod[r]] # <<>> /\ Head(wire[pod[r]]) = c /\ c.op = "touch"
        /\ c.sid = sid[r] /\ Truthful(c)
    BY <2>1, Arrived
  <2>3. /\ SettleHydration(r, IF Result(r) = "ok" THEN "session" ELSE "none")
        /\ Answered(pod[r])
    BY <1>3 DEF TouchAnswered
  <2>4. Result(r) # "ok" => Gone(sid[r])
    <3>1. c.result # "unsent"
      BY <2>1, Arrived
    <3> QED BY <2>2, <3>1 DEF Result, Truthful
  <2> QED BY <1>1, <2>2, <2>3, <2>4
<1> QED BY <1>2, <1>3

\* A login has its session; only its own create may have been executed.
LEMMA CreatedIsOver ==
    ASSUME EndInv, NEW r \in Requests, Answers(r, "create")
    PROVE  Over(sid[r])
<1>0. TypeOK /\ IInv /\ MakesOwn(r)
  BY EndParts
<1>1. /\ pc[r] = "create" /\ pod[r] \in Pods /\ 1 \in 1..Len(wire[pod[r]])
      /\ wire[pod[r]][1].by = r /\ wire[pod[r]][1].result # "unsent"
  BY Arrived DEF Ops
<1>2. token[sid[r]] # "none"
  BY <1>1, MakerHasSession DEF EndInv, Making
<1>3. ASSUME NEW q \in Requests, pc[q] = "whoami" PROVE sid[q] # sid[r]
  BY <1>0, <1>1, <1>3 DEF MakesOwn, Making
<1>4. ASSUME NEW p \in Pods, NEW i \in 1..Len(wire[p])
      PROVE  ~Makes(wire[p][i], sid[r])
  <2> SUFFICES ASSUME Makes(wire[p][i], sid[r]) PROVE FALSE
    OBVIOUS
  <2>1. wire[p][i].by = r
    BY <1>0, <1>1 DEF MakesOwn, Making, Makes
  <2>2. pod[r] = p
    BY <1>0, <2>1, NobodyAssumption DEF IInv, WireMatched, Matches
  <2>3. i = 1
    BY <1>0, <1>1, <2>1, <2>2, NobodyAssumption DEF IInv, WireMatched
  <2> QED BY <1>1, <2>2, <2>3 DEF Makes
<1> QED BY <1>2, <1>3, <1>4 DEF Over

\* The answers to a create and to a delete arrive.
LEMMA AnsweredEvolves ==
    ASSUME EndInv, NEW r \in Requests, CreateAnswered(r) \/ DelAnswered(r)
    PROVE  Evolves
<1>0. TypeOK /\ UNCHANGED <<kind, sid, leader, got>>
  BY EndParts DEF CreateAnswered, DelAnswered, Settled
<1>1. ASSUME NEW how, NEW header, Answer(r, how, header)
      PROVE  /\ Aside(r) /\ pc'[r] = "answered"
             /\ setCookie'[r] = header /\ reply'[r] = how
  BY <1>0, <1>1 DEF Answer, GoTo, Aside, Same, TypeOK
<1>2. ASSUME NEW op \in Ops, Answers(r, op), Answered(pod[r])
      PROVE  WireEvolves
  <2>1. pod[r] \in Pods /\ wire[pod[r]] # <<>>
    BY <1>2, Arrived
  <2>2. wire' = [wire EXCEPT ![pod[r]] = Tail(wire[pod[r]])]
    BY <1>2 DEF Answered
  <2> QED BY <1>0, <2>1, <2>2, WireTaken
<1>3. CASE CreateAnswered(r)
  <2>1. /\ Answers(r, "create") /\ "create" \in Ops
        /\ Answered(pod[r]) /\ Answer(r, "ok", sid[r])
    BY <1>3 DEF CreateAnswered, Ops
  <2>2. pc[r] = "create" /\ sid[r] \in Sids /\ Over(sid[r])
    BY <2>1, Arrived, CreatedIsOver
  <2>3. /\ Aside(r) /\ pc'[r] = "answered" /\ setCookie'[r] = sid[r]
        /\ reply'[r] = "ok"
    BY <1>1, <2>1
  <2>4. sid[r] # ClearCookie
    BY <1>0, <2>2, SidTypes DEF ClearCookie
  <2>5. Moves(r)
    BY <1>0, <2>2, <2>3, <2>4 DEF Moves, Using
  <2> QED BY <1>2, <2>1, <2>3, <2>5, AsideMoves DEF Evolves
<1>4. CASE DelAnswered(r)
  <2>1. /\ Answers(r, "del") /\ "del" \in Ops /\ Answered(pod[r])
        /\ Answer(r, DestroyedReply(kind[r]), DestroyedCookie(kind[r]))
    BY <1>4 DEF DelAnswered, Ops
  <2>2. pc[r] = "del" /\ Gone(sid[r])
    BY <2>1, Arrived DEF Truthful
  <2>3. /\ Aside(r) /\ pc'[r] = "answered"
        /\ setCookie'[r] \in {KeepCookie, ClearCookie}
    BY <1>1, <2>1 DEF DestroyedCookie
  <2>4. Moves(r)
    BY <1>0, <2>2, <2>3, UsingMoves DEF Using
  <2> QED BY <1>2, <2>1, <2>3, <2>4, AsideMoves DEF Evolves
<1> QED BY <1>3, <1>4

\* A handler learns whether there is a session.
LEMMA ContinueEvolves ==
    ASSUME EndInv, NEW r \in Requests, Continue(r)
    PROVE  Evolves
<1>0. /\ TypeOK /\ CarriesOver(r) /\ pc[r] = "hydrated" /\ pc[r] \in Using
      /\ UNCHANGED <<wire, kind, sid, got>>
      /\ \A q \in Requests : q # r => leader'[q] = leader[q]
  BY EndParts
     DEF Continue, Using, HydrationFailed, NoSession, HasSession, Validate, TypeOK
<1>1. CASE HydrationFailed(r)
  BY <1>0, <1>1, UsingEvolves DEF HydrationFailed
<1>2. CASE NoSession(r)
  <2>1. sid[r] = NoSid \/ Gone(sid[r])
    BY <1>0, <1>2 DEF NoSession, CarriesOver
  <2>2. NoSessionCookie(kind[r]) \in {KeepCookie, ClearCookie}
    BY DEF NoSessionCookie
  <2>3. \E how : Answer(r, how, NoSessionCookie(kind[r]))
    BY <1>2 DEF NoSession
  <2> QED BY <1>0, <2>1, <2>2, <2>3, UsingEvolves
<1>3. CASE HasSession(r)
  <2>1. \/ Answer(r, "ok", KeepCookie)
        \/ /\ Unanswered
           /\ \E where \in {"validate", "sharing", "signout", "upstream", "probe",
                            "identify"} : GoTo(r, where)
    BY <1>0, <1>3 DEF HasSession, Validate
  <2> QED BY <1>0, <2>1, UsingEvolves DEF Using
<1> QED BY <1>0, <1>1, <1>2, <1>3 DEF Continue

\* A login goes on.
LEMMA LoginEvolves ==
    ASSUME EndInv, NEW r \in Requests,
           \/ LoginAccepted(r) \/ LoginRefused(r) \/ WhoamiMatches(r)
           \/ WhoamiMismatch(r) \/ Revoke(r)
    PROVE  Evolves
<1>0. /\ TypeOK /\ MakesOwn(r) /\ CarriesOver(r) /\ Refuses(r) /\ Carries(r)
      /\ pod[r] \in Pods /\ faults \in Nat
      /\ UNCHANGED <<kind, leader, got>>
  BY EndParts, BoundsAssumption
     DEF LoginAccepted, LoginRefused, WhoamiMatches, WhoamiMismatch, Revoke,
         Settled, TypeOK
<1>1. CASE LoginAccepted(r)
  <2>1. PICK s \in Sids : Unissued(s) /\ sid' = [sid EXCEPT ![r] = s]
    BY <1>1 DEF LoginAccepted
  <2>2. /\ pc[r] = "login" /\ pc'[r] = "whoami" /\ sid'[r] = s /\ token[s] = "none"
        /\ UNCHANGED <<wire, setCookie, reply>>
        /\ \A q \in Requests : q # r => pc'[q] = pc[q] /\ sid'[q] = sid[q]
    BY <1>0, <1>1, <2>1 DEF LoginAccepted, GoTo, Unanswered, Unissued, TypeOK
  <2>3. kind[r] = "login" /\ reply[r] # "refused"
    BY <1>0, <2>2 DEF CarriesOver, Refuses
  <2>4. Aside(r)
    BY <1>0, <2>2 DEF Aside, Same
  <2>5. Moves(r)
    BY <1>0, <2>2, <2>3 DEF Moves, Using
  <2> QED BY <2>2, <2>4, <2>5, AsideMoves, WireStill DEF Evolves
<1>2. ASSUME UNCHANGED <<wire, sid>>, NEW header, NEW how, Answer(r, how, header),
             pc[r] \in {"login", "revoke"}, header = KeepCookie,
             sid[r] = NoSid \/ token'[sid[r]] = "dead" \/ faults' >= 2 \/ Gone(sid[r])
      PROVE  Evolves
  <2>1. /\ Aside(r) /\ pc'[r] = "answered" /\ setCookie'[r] = KeepCookie
    BY <1>0, <1>2 DEF Aside, Same, Answer, GoTo, TypeOK
  <2>2. Moves(r)
    BY <1>0, <1>2, <2>1, LoginMoves
  <2> QED BY <1>2, <2>1, <2>2, AsideMoves, WireStill DEF Evolves
<1>3. CASE LoginRefused(r)
  <2>1. /\ pc[r] = "login" /\ Answer(r, "refused", KeepCookie) /\ UNCHANGED <<wire, sid>>
        /\ sid[r] = NoSid
    BY <1>0, <1>3 DEF LoginRefused, MakesOwn
  <2> QED BY <1>2, <2>1
<1>4. CASE WhoamiMatches(r)
  <2>1. /\ pc[r] = "whoami" /\ pc'[r] = "create" /\ sid[r] \in Sids
        /\ UNCHANGED <<sid, setCookie, reply>>
        /\ \A q \in Requests : q # r => pc'[q] = pc[q]
        /\ wire' = [wire EXCEPT ![pod[r]] =
                       Append(wire[pod[r]], Command(r, "create", sid[r]))]
    BY <1>0, <1>4 DEF WhoamiMatches, Issue, GoTo, Unanswered, TypeOK, Carries,
                      Carrying, BackendPcs
  <2>2. Aside(r)
    BY <1>0, <2>1 DEF Aside, Same
  <2>3. Moves(r)
    BY <1>0, <2>1, LoginMoves DEF Making
  <2>4. /\ Command(r, "create", sid[r]) \in Commands
        /\ Issued(Command(r, "create", sid[r]))
    BY <2>1, OwnCommand DEF Ops
  <2>5. WireEvolves
    BY <1>0, <2>1, <2>4, WireSent
  <2> QED BY <2>2, <2>3, <2>5, AsideMoves DEF Evolves
<1>5. CASE WhoamiMismatch(r)
  <2>1. /\ pc[r] = "whoami" /\ pc'[r] = "revoke"
        /\ UNCHANGED <<wire, sid, setCookie, reply>>
        /\ \A q \in Requests : q # r => pc'[q] = pc[q]
    BY <1>0, <1>5 DEF WhoamiMismatch, GoTo, Unanswered, TypeOK
  <2>2. Aside(r)
    BY <1>0, <2>1 DEF Aside, Same
  <2>3. Moves(r)
    BY <1>0, <2>1, LoginMoves
  <2> QED BY <2>1, <2>2, <2>3, AsideMoves, WireStill DEF Evolves
<1>6. CASE Revoke(r)
  <2>1. /\ pc[r] = "revoke" /\ Answer(r, "refused", KeepCookie)
        /\ UNCHANGED <<wire, sid>> /\ sid[r] \in Sids
    BY <1>0, <1>6 DEF Revoke, Carries, Carrying, BackendPcs
  <2>2. token'[sid[r]] = "dead" \/ faults' = faults + 1
    BY <1>0, <1>6, <2>1 DEF Revoke, Fault, TypeOK
  <2>3. faults >= 1 \/ Gone(sid[r])
    BY <1>0, <2>1 DEF Refuses
  <2>4. token'[sid[r]] = "dead" \/ faults' >= 2 \/ Gone(sid[r])
    BY <1>0, <2>2, <2>3
  <2> QED BY <1>2, <2>1, <2>4
<1> QED BY <1>1, <1>3, <1>4, <1>5, <1>6

\* The calls to the backend are answered.
LEMMA CallEvolves ==
    ASSUME EndInv, NEW r \in Requests,
           SignOut(r) \/ Upstream(r) \/ Probe(r) \/ Identify(r) \/ Conclude(r)
    PROVE  Evolves
<1>0. /\ TypeOK /\ pc[r] \in {"signout", "upstream", "probe", "identify", "validated"}
      /\ UNCHANGED <<kind, sid, got>>
  BY EndParts DEF SignOut, Upstream, Probe, Identify, Conclude, Settled
<1>1. sid[r] \in Sids /\ pc[r] \in Using
  BY <1>0, EndParts DEF Carries, Carrying, BackendPcs, Using
<1>2. \/ Destroy(r) /\ UNCHANGED leader
      \/ /\ UNCHANGED wire /\ \A q \in Requests : q # r => leader'[q] = leader[q]
         /\ \/ \E how : Answer(r, how, KeepCookie)
            \/ /\ Unanswered
               /\ \E where \in {"upstream", "validate", "sharing"} : GoTo(r, where)
  <2>1. CASE SignOut(r)
    BY <2>1 DEF SignOut
  <2>2. CASE Upstream(r)
    BY <2>2 DEF Upstream
  <2>3. CASE Probe(r)
    BY <1>0, <2>3 DEF Probe, ProbeUnauthorized, Validate, TypeOK
  <2>4. CASE Identify(r)
    BY <2>4 DEF Identify
  <2>5. CASE Conclude(r)
    BY <2>5 DEF Conclude
  <2> QED BY <2>1, <2>2, <2>3, <2>4, <2>5
<1>3. CASE Destroy(r) /\ UNCHANGED leader
  BY <1>0, <1>1, <1>3, DestroyEvolves
<1>4. CASE ~(Destroy(r) /\ UNCHANGED leader)
  BY <1>0, <1>1, <1>2, <1>4, UsingEvolves DEF Using
<1> QED BY <1>3, <1>4

\* A validation is answered, for all who share it.
LEMMA ValidationEvolves ==
    ASSUME EndInv, NEW r \in Requests, BackendValidates(r) \/ ValidationSettles(r)
    PROVE  Evolves
<1>0. TypeOK /\ UNCHANGED <<wire, kind, sid, leader, got, setCookie, reply>>
  BY EndParts DEF BackendValidates, ValidationSettles, Unanswered
<1>1. CASE BackendValidates(r)
  <2>1. UNCHANGED pc
    BY <1>1 DEF BackendValidates
  <2> QED BY <1>0, <2>1, StillMoves, WireStill DEF Evolves
<1>2. CASE ValidationSettles(r)
  <2>1. ASSUME NEW q \in Requests PROVE Moves(q)
    <3>1. \/ pc'[q] = pc[q]
          \/ pc'[q] = "validated" /\ pc[q] \in {"validate", "sharing"}
      BY <1>2 DEF ValidationSettles
    <3>2. CASE pc'[q] = pc[q]
      BY <1>0, <3>2, SameMoves DEF Same
    <3>3. CASE pc'[q] = "validated" /\ pc[q] \in {"validate", "sharing"}
      BY <1>0, <3>3, UsingMoves DEF Using
    <3> QED BY <3>1, <3>2, <3>3
  <2> QED BY <1>0, <2>1, WireStill DEF Evolves
<1> QED BY <1>1, <1>2

\* A call or a command fails, or a pod is lost.
LEMMA FailureEvolves ==
    ASSUME EndInv, Failing
    PROVE  Evolves
<1>0. TypeOK /\ IInv /\ faults \in Nat
  BY EndParts, BoundsAssumption DEF TypeOK
<1>1. ASSUME NEW r \in Requests, CallFails(r)
      PROVE  Evolves
  <2>1. /\ pc[r] \in {"login", "upstream", "probe", "identify"}
        /\ Answer(r, "error", KeepCookie)
        /\ UNCHANGED <<wire, kind, sid, leader, got>>
    BY <1>1 DEF CallFails, Settled
  <2>2. /\ Aside(r) /\ pc'[r] = "answered" /\ setCookie'[r] = KeepCookie
        /\ reply'[r] = "error"
    BY <1>0, <2>1 DEF Aside, Same, Answer, GoTo, TypeOK
  <2>3. Moves(r)
    <3>1. CASE pc[r] = "login"
      BY <2>1, <2>2, <3>1, LoginMoves
    <3>2. CASE pc[r] # "login"
      BY <2>1, <2>2, <3>2, UsingMoves DEF Using
    <3> QED BY <3>1, <3>2
  <2> QED BY <2>1, <2>2, <2>3, AsideMoves, WireStill DEF Evolves
<1>2. ASSUME NEW p \in Pods, Restart(p)
      PROVE  Evolves
  <2>1. ASSUME NEW q \in Requests PROVE Moves(q)
    <3>1. /\ UNCHANGED <<kind, sid, leader, got, setCookie>>
          /\ \/ pc'[q] = pc[q] /\ reply'[q] = reply[q]
             \/ pc'[q] = "done" /\ reply'[q] \in {reply[q], "crashed"}
      BY <1>2 DEF Restart
    <3> QED BY <3>1, SameMoves, DoneMoves DEF Same
  <2> QED BY <1>0, <1>2, <2>1, WireLost DEF Evolves
<1>3. ASSUME NEW p \in Pods, NEW k \in 1..Len(wire[p]), CommandFails(p, k)
      PROVE  Evolves
  <2>1. PICK r \in Requests : r = wire[p][k].by
    BY <1>0, <1>3, WireTypes DEF CommandFails
  <2>2. /\ pc[r] \in Ops /\ Rejected(r) /\ sid[r] \in Sids
        /\ faults' = faults + 1
        /\ UNCHANGED <<kind, sid, leader>>
    <3>1. pc[r] = wire[p][k].op /\ sid[r] = wire[p][k].sid
      BY <1>0, <2>1, NobodyAssumption DEF IInv, WireMatched, Matches
    <3> QED BY <1>0, <1>3, <2>1, <3>1, WireTypes DEF CommandFails, Fault
  <2>3. CASE pc[r] \in {"get", "touch"}
    <3>1. Hydrated(r, "failed") /\ UNCHANGED <<setCookie, reply>>
      BY <2>2, <2>3 DEF Rejected, RejectHydration, Unanswered
    <3>2. \A q \in Requests : Moves(q)
      BY <2>2, <2>3, <3>1, HydratedMoves
    <3>3. pc'[r] # "create"
      BY <2>3, <3>1 DEF Hydrated
    <3> QED BY <1>0, <1>3, <2>1, <3>2, <3>3, WireGivenUp DEF Evolves
  <2>4. CASE pc[r] = "create"
    <3>1. /\ pc' = [pc EXCEPT ![r] = "revoke"] /\ UNCHANGED <<got, setCookie, reply>>
      BY <2>2, <2>4 DEF Rejected, CreateRejected, GoTo, Unanswered
    <3>2. Aside(r) /\ pc'[r] = "revoke"
      BY <1>0, <2>2, <3>1 DEF Aside, Same, TypeOK
    <3>3. Moves(r)
      BY <1>0, <2>2, <2>4, <3>1, <3>2, LoginMoves
    <3> QED BY <1>0, <1>3, <2>1, <3>2, <3>3, AsideMoves, WireGivenUp DEF Evolves
  <2>5. CASE pc[r] = "del"
    <3>1. Answer(r, "error", KeepCookie) /\ UNCHANGED got
      BY <2>2, <2>5 DEF Rejected, DelRejected
    <3>2. Aside(r) /\ pc'[r] = "answered" /\ setCookie'[r] = KeepCookie
      BY <1>0, <2>2, <3>1 DEF Aside, Same, Answer, GoTo, TypeOK
    <3>3. Moves(r)
      BY <2>2, <2>5, <3>2, UsingMoves DEF Using
    <3> QED BY <1>0, <1>3, <2>1, <3>2, <3>3, AsideMoves, WireGivenUp DEF Evolves
  <2> QED BY <2>2, <2>3, <2>4, <2>5 DEF Ops
<1> QED BY <1>1, <1>2, <1>3 DEF Failing

\* Every step is one after which the invariant holds again.
LEMMA StepEvolves ==
    ASSUME EndInv, [Next]_vars
    PROVE  Evolves
<1>0. TypeOK
  BY EndParts
<1>1. ASSUME NEW r \in Requests, Handler(r)
      PROVE  Evolves
  BY <1>1, HydrationEvolves, AnsweredEvolves, ContinueEvolves, LoginEvolves,
     CallEvolves, ValidationEvolves DEF Handler
<1>2. ASSUME NEW r \in Requests, Sending(r)
      PROVE  Evolves
  <2>1. "status" \in Kinds
    BY DEF Kinds
  <2> QED BY <1>2, <2>1, SendEvolves DEF Sending
<1>3. ASSUME UNCHANGED <<wire, request>>
      PROVE  Evolves
  BY <1>3, StillMoves, WireStill DEF request, Evolves
<1>4. CASE Environment
  BY <1>3, <1>4 DEF Environment, SessionAges, SessionExpires, TokenExpires
<1>5. ASSUME NEW p \in Pods, Execute(p)
      PROVE  Evolves
  <2>1. UNCHANGED request
    BY <1>5 DEF Execute
  <2> QED BY <1>0, <1>5, <2>1, StillMoves, WireRuns DEF Evolves, request
<1>6. ASSUME NEW p \in Pods, LateAnswer(p)
      PROVE  Evolves
  <2>1. UNCHANGED request /\ wire[p] # <<>> /\ Answered(p)
    BY <1>6 DEF LateAnswer
  <2>2. WireEvolves
    BY <1>0, <2>1, WireTaken DEF Answered
  <2> QED BY <2>1, <2>2, StillMoves DEF Evolves, request
<1>7. CASE UNCHANGED vars
  BY <1>3, <1>7 DEF vars
<1> QED BY <1>1, <1>2, <1>4, <1>5, <1>6, <1>7, ReceiveEvolves, FailureEvolves DEF Next

\* The browser's cookie comes from answers.
LEMMA CookieComes ==
    ASSUME [Next]_vars
    PROVE  cookie' = cookie \/ \E r \in Requests : cookie' \in {setCookie[r], NoSid}
<1>1. ASSUME NEW r \in Requests, Handler(r)
      PROVE  UNCHANGED cookie
  BY <1>1 DEF Handler, GetAnswered, TouchAnswered, CreateAnswered, DelAnswered,
     Continue, WhoamiMatches, WhoamiMismatch, LoginAccepted, LoginRefused, Revoke,
     SignOut, Upstream, Probe, Identify, BackendValidates, ValidationSettles,
     Conclude, Settled
<1>2. ASSUME NEW r \in Requests, Sending(r)
      PROVE  UNCHANGED cookie
  BY <1>2 DEF Sending, SendLogin, SendWithCookie, Send
<1>3. CASE Environment \/ \E p \in Pods : Execute(p) \/ LateAnswer(p)
  BY <1>3
     DEF Environment, SessionAges, SessionExpires, TokenExpires, Execute, LateAnswer
<1>4. CASE Failing
  BY <1>4 DEF Failing, CallFails, Restart, CommandFails, Settled
<1>5. ASSUME NEW r \in Requests, Receive(r)
      PROVE  cookie' \in {cookie, setCookie[r]}
  BY <1>5 DEF Receive
<1>6. CASE UNCHANGED vars
  BY <1>6 DEF vars
<1> QED BY <1>1, <1>2, <1>3, <1>4, <1>5, <1>6 DEF Next

\* To begin with there is at most the browser's session.
LEMMA InitEnd == Init => EndInv
<1> SUFFICES ASSUME Init PROVE EndInv
  OBVIOUS
<1>0. 1 \in Sids /\ NoSid \notin Sids /\ KeepCookie \notin Sids /\ KeepCookie # ClearCookie
  BY BoundsAssumption DEF Sids, NoSid, KeepCookie, ClearCookie
<1>1. IInv /\ Known
  BY InitIInv
<1>2. \A p \in Pods : Len(wire[p]) = 0
  BY EmptySeq DEF Init
<1>3. \A p \in Pods : 1..Len(wire[p]) = {}
  BY <1>2
<1>4. \A r \in Requests :
         /\ pc[r] = "idle" /\ sid[r] = NoSid /\ setCookie[r] = KeepCookie
         /\ reply[r] = "pending"
  BY DEF Init
<1>5. Unmade
  BY <1>3 DEF Init, Unmade
<1>6. cookie # NoSid => Over(cookie)
  BY <1>0, <1>3, <1>4 DEF Init, Over
<1>7. \A r \in Requests : MakesOwn(r) /\ CarriesOver(r) /\ Refuses(r)
  BY <1>0, <1>4 DEF MakesOwn, CarriesOver, Refuses, Making, Using
<1> QED BY <1>1, <1>3, <1>5, <1>6, <1>7 DEF EndInv

\* The invariant holds throughout.
LEMMA EndsWell == Spec => []EndInv
<1>1. EndInv /\ [Next]_vars => EndInv'
  <2> SUFFICES ASSUME EndInv, [Next]_vars PROVE EndInv'
    OBVIOUS
  <2>1. IInv' /\ Known'
    BY EndParts, NextKeeps, KnownKeeps
  <2> QED BY <2>1, StepEvolves, CookieComes, EndKept
<1> QED BY <1>1, InitEnd, PTL DEF Spec

\* An answer that clears the cookie leaves no session behind in Valkey, and
\* none comes back while the answer is on its way.
THEOREM ClearedIsGone == Spec => []ClearedCookieMeansGone
<1>1. EndInv => ClearedCookieMeansGone
  BY DEF EndInv, CarriesOver, ClearedCookieMeansGone, Gone
<1> QED BY <1>1, EndsWell, PTL

\* A login that is refused leaves no session that could be used, unless the
\* store and the revocation both failed.
THEOREM RefusedIsUseless == Spec => []RefusedLoginUnusable
<1>1. EndInv => RefusedLoginUnusable
  <2> SUFFICES ASSUME EndInv, NEW r \in Requests, kind[r] = "login",
                      reply[r] = "refused", sid[r] # NoSid, faults <= 1
               PROVE  store[sid[r]] = "absent" \/ token[sid[r]] = "dead"
    BY DEF RefusedLoginUnusable
  <2>1. faults \in Nat
    BY EndParts, BoundsAssumption DEF TypeOK
  <2> QED BY <2>1 DEF EndInv, Refuses, Gone
<1> QED BY <1>1, EndsWell, PTL
=============================================================================
