------------------------------ MODULE Sessions ------------------------------
(***************************************************************************)
(* Server sessions: src/src/lib/auth/ and the route handlers that create,  *)
(* use and destroy a session.                                              *)
(*                                                                         *)
(* Several server processes (pods) share one Valkey.  A pod sends its      *)
(* commands over one connection, which executes and answers them in the    *)
(* order they were issued; calls to the backend overtake one another.      *)
(* Within a pod, requests for one session id share a pending hydration and *)
(* a pending backend validation.  A handler runs without interruption from *)
(* one awaited call to the next, so every await is an action here.         *)
(***************************************************************************)
EXTENDS Naturals, Integers, Sequences, FiniteSets

CONSTANTS
    Pods,       \* server processes
    Requests,   \* HTTP requests, and the separate parts of a page render
    Nobody,     \* no request
    MaxLogins,  \* bound: logins, each with its own session id and token
    SignedIn,   \* whether the browser holds a session to begin with
    Offered,    \* the kinds of request that are sent
    MaxFaults   \* bound: failed calls, timeouts, lost replies and restarts

ASSUME NobodyAssumption == Nobody \notin Requests
ASSUME BoundsAssumption ==
    /\ MaxLogins \in Nat \ {0}
    /\ MaxFaults \in Nat
    /\ SignedIn \in BOOLEAN

NoSid == 0
Sids == 1..MaxLogins

VARIABLES
    token,       \* backend: the token issued with a session id
    store,       \* Valkey: the session payload
    wire,        \* per pod: Valkey commands issued and not yet answered
    hydrating,   \* per pod and session id: pendingSessionHydrations
    validating,  \* per pod and session id: pendingValidations
    cookie,      \* browser: hubuum.sid
    pc,          \* what a request is waiting for
    kind,        \* which handler it runs in
    pod,         \* where it runs
    sid,         \* the session it carries, or the one it creates
    leader,      \* whose hydration or validation it awaits
    got,         \* what the hydration resolved to
    verdict,     \* what the backend said to its validation
    reply,       \* how it was answered
    setCookie,   \* the Set-Cookie of its answer
    faults       \* failures so far

shared == <<hydrating, validating>>
request == <<pc, kind, pod, sid, leader, got, verdict, reply, setCookie>>
vars == <<token, store, wire, shared, cookie, request, faults>>

\* page: requireServerSession; proxy: the generic proxy, the class helpers and
\* the report routes; admin: the proxy for /api/v0/meta; settings: the
\* settings route; status: /auth/session.
Kinds == {"login", "logout", "page", "proxy", "admin", "settings", "status"}
CommandPcs == {"get", "touch", "create", "del"}
BackendPcs == {"login", "whoami", "revoke", "signout", "upstream", "probe",
               "identify", "validate"}
SharedPcs == {"joined", "sharing"}
ReadyPcs == {"hydrated", "validated"}
Pcs == {"idle", "answered", "done"} \union CommandPcs \union BackendPcs
            \union SharedPcs \union ReadyPcs
Ops == {"get", "touch", "create", "del"}
Found == {"none", "fresh", "stale"}
Replies == {"pending", "ok", "refused", "error", "crashed"}
Commands == [op : Ops, sid : Sids, by : Requests \union {Nobody},
             result : Found \union {"unsent", "ok"}]
KeepCookie == -1
ClearCookie == NoSid

TypeOK ==
    /\ token \in [Sids -> {"none", "live", "dead"}]
    /\ store \in [Sids -> {"absent", "fresh", "stale"}]
    /\ wire \in [Pods -> Seq(Commands)]
    /\ hydrating \in [Pods -> [Sids -> Requests \union {Nobody}]]
    /\ validating \in [Pods -> [Sids -> Requests \union {Nobody}]]
    /\ cookie \in Sids \union {NoSid}
    /\ pc \in [Requests -> Pcs]
    /\ kind \in [Requests -> Kinds]
    /\ pod \in [Requests -> Pods]
    /\ sid \in [Requests -> Sids \union {NoSid}]
    /\ leader \in [Requests -> Requests \union {Nobody}]
    /\ got \in [Requests -> {"pending", "session", "none", "failed"}]
    /\ verdict \in [Requests -> {"pending", "valid", "expired", "unavailable"}]
    /\ reply \in [Requests -> Replies]
    /\ setCookie \in [Requests -> Sids \union {KeepCookie, ClearCookie}]
    /\ faults \in 0..MaxFaults

-----------------------------------------------------------------------------
(* Helpers                                                                 *)

\* Continuations of resolved promises run before their pod's next event.
Quiet(p) == \A r \in Requests : pod[r] = p => pc[r] \notin ReadyPcs

GoTo(r, where) == pc' = [pc EXCEPT ![r] = where]

Answer(r, how, cookieHeader) ==
    /\ GoTo(r, "answered")
    /\ reply' = [reply EXCEPT ![r] = how]
    /\ setCookie' = [setCookie EXCEPT ![r] = cookieHeader]

Unanswered == UNCHANGED <<reply, setCookie>>

Command(r, op, s) == [op |-> op, sid |-> s, by |-> r, result |-> "unsent"]

\* r sends a command for its session on the pod's connection and awaits it.
Issue(r, op) ==
    /\ wire' = [wire EXCEPT ![pod[r]] = Append(@, Command(r, op, sid[r]))]
    /\ GoTo(r, op)

Fault ==
    /\ faults < MaxFaults
    /\ faults' = faults + 1

\* What a handler answers without a session.
NoSessionReply(k) == IF k = "logout" THEN "ok" ELSE "refused"
NoSessionCookie(k) ==
    IF k \in {"logout", "settings"} THEN ClearCookie ELSE KeepCookie

\* What it answers after destroying one; only the guard of pages, which
\* cannot set cookies, leaves the cookie alone.
DestroyedReply(k) == IF k = "logout" THEN "ok" ELSE "refused"
DestroyedCookie(k) == IF k = "page" THEN KeepCookie ELSE ClearCookie

\* The id of a new token and of the session created for it: the next one.
Unissued(s) == token[s] = "none" /\ \A t \in 1..(s - 1) : token[t] # "none"

-----------------------------------------------------------------------------
Init ==
    \E p \in Pods :
        /\ token = [s \in Sids |-> IF SignedIn /\ s = 1 THEN "live" ELSE "none"]
        /\ store = [s \in Sids |->
                       IF SignedIn /\ s = 1 THEN "fresh" ELSE "absent"]
        /\ wire = [q \in Pods |-> <<>>]
        /\ hydrating = [q \in Pods |-> [s \in Sids |-> Nobody]]
        /\ validating = [q \in Pods |-> [s \in Sids |-> Nobody]]
        /\ cookie = IF SignedIn THEN 1 ELSE NoSid
        /\ pc = [r \in Requests |-> "idle"]
        /\ kind = [r \in Requests |-> "status"]
        /\ pod = [r \in Requests |-> p]
        /\ sid = [r \in Requests |-> NoSid]
        /\ leader = [r \in Requests |-> Nobody]
        /\ got = [r \in Requests |-> "pending"]
        /\ verdict = [r \in Requests |-> "pending"]
        /\ reply = [r \in Requests |-> "pending"]
        /\ setCookie = [r \in Requests |-> KeepCookie]
        /\ faults = 0

-----------------------------------------------------------------------------
(* The browser: any tab sends any request with the cookie it has now, and  *)
(* answers arrive in any order.                                            *)

Send(r, k, p) ==
    /\ pc[r] = "idle"
    /\ k \in Offered
    /\ Quiet(p)
    /\ kind' = [kind EXCEPT ![r] = k]
    /\ pod' = [pod EXCEPT ![r] = p]
    /\ Unanswered
    /\ UNCHANGED <<token, store, validating, cookie, verdict, faults>>

SendLogin(r, p) ==
    /\ Send(r, "login", p)
    /\ GoTo(r, "login")
    /\ UNCHANGED <<wire, hydrating, sid, leader, got>>

\* hydrateSession: the first request for a session id loads it, the others
\* await the same promise.
Hydrate(r, p, s) ==
    IF hydrating[p][s] = Nobody
    THEN /\ hydrating' = [hydrating EXCEPT ![p][s] = r]
         /\ wire' = [wire EXCEPT ![p] = Append(@, Command(r, "get", s))]
         /\ leader' = [leader EXCEPT ![r] = r]
         /\ GoTo(r, "get")
    ELSE /\ leader' = [leader EXCEPT ![r] = hydrating[p][s]]
         /\ GoTo(r, "joined")
         /\ UNCHANGED <<hydrating, wire>>

SendWithCookie(r, k, p) ==
    /\ k # "login"
    /\ Send(r, k, p)
    /\ sid' = [sid EXCEPT ![r] = cookie]
    /\ IF cookie = NoSid
       THEN /\ got' = [got EXCEPT ![r] = "none"]
            /\ GoTo(r, "hydrated")
            /\ UNCHANGED <<hydrating, wire, leader>>
       ELSE /\ Hydrate(r, p, cookie)
            /\ UNCHANGED got

Receive(r) ==
    /\ pc[r] = "answered"
    /\ GoTo(r, "done")
    /\ cookie' = IF setCookie[r] = KeepCookie THEN cookie ELSE setCookie[r]
    /\ UNCHANGED <<token, store, wire, shared, kind, pod, sid, leader, got,
                   verdict, reply, setCookie, faults>>

-----------------------------------------------------------------------------
(* Valkey                                                                  *)

TouchRecreates(s) == TRUE

\* SET ... XX
TouchApplies(s) == store[s] # "absent"

OutcomeWithoutNull(c) ==
    IF c.op = "get" THEN store[c.sid]
    ELSE IF c.op = "touch" /\ ~TouchApplies(c.sid) THEN "none" ELSE "ok"

\* What Valkey does with a command, and answers.
Outcome(c) ==
    CASE c.op = "get" -> IF store[c.sid] = "absent" THEN "none" ELSE store[c.sid]
      [] c.op = "touch" -> IF TouchApplies(c.sid) THEN "ok" ELSE "none"
      [] OTHER -> "ok"

Effect(c) ==
    CASE c.op = "create" -> [store EXCEPT ![c.sid] = "fresh"]
      [] c.op = "touch" /\ TouchApplies(c.sid) ->
             [store EXCEPT ![c.sid] = "fresh"]
      [] c.op = "del" -> [store EXCEPT ![c.sid] = "absent"]
      [] OTHER -> store

\* The next command of a connection is executed.
Execute(p) ==
    \E i \in 1..Len(wire[p]) :
        /\ wire[p][i].result = "unsent"
        /\ \A j \in 1..(i - 1) : wire[p][j].result # "unsent"
        /\ store' = Effect(wire[p][i])
        /\ wire' = [wire EXCEPT ![p][i].result = Outcome(wire[p][i])]
        /\ UNCHANGED <<token, shared, cookie, request, faults>>

\* The EX expiry of a session, and the time after which it is touched.
SessionAges(s) ==
    /\ store[s] = "fresh"
    /\ store' = [store EXCEPT ![s] = "stale"]
    /\ UNCHANGED <<token, wire, shared, cookie, request, faults>>

SessionExpires(s) ==
    /\ store[s] = "stale"
    /\ store' = [store EXCEPT ![s] = "absent"]
    /\ UNCHANGED <<token, wire, shared, cookie, request, faults>>

\* The backend's token expires or is revoked elsewhere.
TokenExpires(s) ==
    /\ token[s] = "live"
    /\ token' = [token EXCEPT ![s] = "dead"]
    /\ UNCHANGED <<store, wire, shared, cookie, request, faults>>

-----------------------------------------------------------------------------
(* Hydration                                                               *)

\* The finally clause of hydrateSession: only the request's own entry goes.
ForgetHydration(r) ==
    hydrating' = [hydrating EXCEPT ![pod[r]][sid[r]] =
                     IF @ = r THEN Nobody ELSE @]

\* The promise of r's hydration resolves, for r and for all who joined it.
Hydrated(r, outcome) ==
    LET awaiting == {q \in Requests : /\ leader[q] = r
                                      /\ pc[q] \in {"get", "touch", "joined"}}
    IN  /\ pc' = [q \in Requests |->
                     IF q \in awaiting THEN "hydrated" ELSE pc[q]]
        /\ got' = [q \in Requests |-> IF q \in awaiting THEN outcome ELSE got[q]]

SettleHydration(r, outcome) ==
    /\ Hydrated(r, outcome)
    /\ ForgetHydration(r)

RejectionStays(r) ==
    /\ Hydrated(r, "failed")
    /\ UNCHANGED hydrating

RejectLeaderOnly(r) ==
    /\ GoTo(r, "hydrated")
    /\ got' = [got EXCEPT ![r] = "failed"]
    /\ ForgetHydration(r)

RejectHydration(r) ==
    /\ Hydrated(r, "failed")
    /\ ForgetHydration(r)

\* The answer to the oldest command of the pod arrives at r.
Answers(r, op) ==
    /\ Quiet(pod[r])
    /\ wire[pod[r]] # <<>>
    /\ Head(wire[pod[r]]).by = r
    /\ Head(wire[pod[r]]).op = op
    /\ Head(wire[pod[r]]).result # "unsent"

Answered(p) == wire' = [wire EXCEPT ![p] = Tail(@)]
Result(r) == Head(wire[pod[r]]).result

\* loadSession after the GET: a session not touched for a while is touched.
GetAnswered(r) ==
    /\ Answers(r, "get")
    /\ IF Result(r) = "stale"
       THEN /\ wire' = [wire EXCEPT ![pod[r]] =
                           Append(Tail(@), Command(r, "touch", sid[r]))]
            /\ GoTo(r, "touch")
            /\ UNCHANGED <<hydrating, got>>
       ELSE /\ Answered(pod[r])
            /\ SettleHydration(r, IF Result(r) = "none" THEN "none"
                                  ELSE "session")
    /\ Unanswered
    /\ UNCHANGED <<token, store, validating, cookie, kind, pod, sid, leader,
                   verdict, faults>>

\* loadSession after the touch: no session if it had gone meanwhile.
TouchAnswered(r) ==
    /\ Answers(r, "touch")
    /\ Answered(pod[r])
    /\ SettleHydration(r, IF Result(r) = "ok" THEN "session" ELSE "none")
    /\ Unanswered
    /\ UNCHANGED <<token, store, validating, cookie, kind, pod, sid, leader,
                   verdict, faults>>

-----------------------------------------------------------------------------
(* destroySession: local entries are dropped at once, then the DEL is      *)
(* awaited.                                                                *)

ValidationStays(p, s) == validating

DropValidation(p, s) == [validating EXCEPT ![p][s] = Nobody]

Destroy(r) ==
    /\ hydrating' = [hydrating EXCEPT ![pod[r]][sid[r]] = Nobody]
    /\ validating' = DropValidation(pod[r], sid[r])
    /\ Issue(r, "del")
    /\ Unanswered

DelAnswered(r) ==
    /\ Answers(r, "del")
    /\ Answered(pod[r])
    /\ Answer(r, DestroyedReply(kind[r]), DestroyedCookie(kind[r]))
    /\ UNCHANGED <<token, store, shared, cookie, kind, pod, sid, leader, got,
                   verdict, faults>>

\* validateBackendSession: the first validation of a session id asks the
\* backend, the others await its answer.
Validate(r) ==
    /\ IF validating[pod[r]][sid[r]] = Nobody
       THEN /\ validating' = [validating EXCEPT ![pod[r]][sid[r]] = r]
            /\ leader' = [leader EXCEPT ![r] = r]
            /\ GoTo(r, "validate")
       ELSE /\ leader' = [leader EXCEPT ![r] = validating[pod[r]][sid[r]]]
            /\ GoTo(r, "sharing")
            /\ UNCHANGED validating
    /\ UNCHANGED <<wire, hydrating>>
    /\ Unanswered

-----------------------------------------------------------------------------
(* What the handlers do once the session is known.                         *)

HydrationFailed(r) ==
    /\ got[r] = "failed"
    /\ Answer(r, "error", KeepCookie)
    /\ UNCHANGED <<wire, shared, leader>>

NoSession(r) ==
    /\ got[r] = "none"
    /\ Answer(r, NoSessionReply(kind[r]), NoSessionCookie(kind[r]))
    /\ UNCHANGED <<wire, shared, leader>>

HasSession(r) ==
    /\ got[r] = "session"
    /\ \/ /\ kind[r] = "page"
          /\ Validate(r)
       \/ /\ kind[r] = "status"
          /\ Answer(r, "ok", KeepCookie)
          /\ UNCHANGED <<wire, shared, leader>>
       \/ /\ kind[r] \in {"logout", "proxy", "admin", "settings"}
          /\ GoTo(r, CASE kind[r] = "logout" -> "signout"
                       [] kind[r] = "proxy" -> "upstream"
                       [] kind[r] = "admin" -> "probe"
                       [] kind[r] = "settings" -> "identify")
          /\ Unanswered
          /\ UNCHANGED <<wire, shared, leader>>

Continue(r) ==
    /\ pc[r] = "hydrated"
    /\ HydrationFailed(r) \/ NoSession(r) \/ HasSession(r)
    /\ UNCHANGED <<token, store, cookie, kind, pod, sid, got, verdict, faults>>

-----------------------------------------------------------------------------
(* Backend calls of the handlers                                           *)

Settled == <<store, cookie, kind, pod, got, verdict>>

\* The backend accepts the credentials and issues a token.
LoginAccepted(r) ==
    /\ pc[r] = "login"
    /\ Quiet(pod[r])
    /\ \E s \in Sids : /\ Unissued(s)
                       /\ token' = [token EXCEPT ![s] = "live"]
                       /\ sid' = [sid EXCEPT ![r] = s]
    /\ GoTo(r, "whoami")
    /\ Unanswered
    /\ UNCHANGED <<Settled, wire, shared, leader, faults>>

LoginRefused(r) ==
    /\ pc[r] = "login"
    /\ Quiet(pod[r])
    /\ Answer(r, "refused", KeepCookie)
    /\ UNCHANGED <<Settled, token, wire, shared, sid, leader, faults>>

\* The identity matches the requested scope, or no check is asked for.
WhoamiMatches(r) ==
    /\ pc[r] = "whoami"
    /\ Quiet(pod[r])
    /\ Issue(r, "create")
    /\ Unanswered
    /\ UNCHANGED <<Settled, token, shared, sid, leader, faults>>

\* It does not, or could not be read.
WhoamiMismatch(r) ==
    /\ pc[r] = "whoami"
    /\ Quiet(pod[r])
    /\ GoTo(r, "revoke")
    /\ Unanswered
    /\ UNCHANGED <<Settled, token, wire, shared, sid, leader, faults>>

CreateAnswered(r) ==
    /\ Answers(r, "create")
    /\ Answered(pod[r])
    /\ Answer(r, "ok", sid[r])
    /\ UNCHANGED <<Settled, token, shared, sid, leader, faults>>

\* revokeIssuedToken, whose failure is ignored.
Revoke(r) ==
    /\ pc[r] = "revoke"
    /\ Quiet(pod[r])
    /\ \/ /\ token' = [token EXCEPT ![sid[r]] = "dead"]
          /\ UNCHANGED faults
       \/ /\ Fault
          /\ UNCHANGED token
    /\ Answer(r, "refused", KeepCookie)
    /\ UNCHANGED <<Settled, wire, shared, sid, leader>>

\* The backend logout of performLogout, whose failure is ignored.
SignOut(r) ==
    /\ pc[r] = "signout"
    /\ Quiet(pod[r])
    /\ \/ /\ token' = [token EXCEPT ![sid[r]] = "dead"]
          /\ UNCHANGED faults
       \/ /\ Fault
          /\ UNCHANGED token
    /\ Destroy(r)
    /\ UNCHANGED <<Settled, sid, leader>>

\* The proxied call: 401 destroys the session, all else is passed on.
Upstream(r) ==
    /\ pc[r] = "upstream"
    /\ Quiet(pod[r])
    /\ \/ /\ token[sid[r]] = "live"
          /\ Answer(r, "ok", KeepCookie)
          /\ UNCHANGED <<wire, shared>>
       \/ /\ token[sid[r]] = "dead"
          /\ Destroy(r)
    /\ UNCHANGED <<Settled, token, sid, leader, faults>>

\* A 401 of the probe is not taken for an expired session before the backend
\* has been asked whether it is.
ProbeUnauthorized(r) == Validate(r)

\* probeAdminAccess; a live token may be refused with 403 or 401.
Probe(r) ==
    /\ pc[r] = "probe"
    /\ Quiet(pod[r])
    /\ \/ /\ token[sid[r]] = "live"
          /\ \/ GoTo(r, "upstream") /\ Unanswered
             \/ Answer(r, "ok", KeepCookie)
             \/ Answer(r, "refused", KeepCookie)
          /\ UNCHANGED <<wire, shared, leader>>
       \/ ProbeUnauthorized(r)
    /\ UNCHANGED <<Settled, token, sid, faults>>

\* getCurrentPrincipalId in the settings route: no principal id, whatever
\* the reason, ends the session.
Identify(r) ==
    /\ pc[r] = "identify"
    /\ Quiet(pod[r])
    /\ \/ /\ token[sid[r]] = "live"
          /\ GoTo(r, "upstream")
          /\ Unanswered
          /\ UNCHANGED <<wire, shared, faults>>
       \/ /\ token[sid[r]] = "dead"
          /\ Destroy(r)
          /\ UNCHANGED faults
       \/ /\ Fault
          /\ Destroy(r)
    /\ UNCHANGED <<Settled, token, sid, leader>>

-----------------------------------------------------------------------------
(* Validation                                                              *)

\* The backend answers the validation.
BackendValidates(r) ==
    /\ pc[r] = "validate"
    /\ verdict[r] = "pending"
    /\ \/ /\ verdict' = [verdict EXCEPT ![r] =
                            IF token[sid[r]] = "live" THEN "valid" ELSE "expired"]
          /\ UNCHANGED faults
       \/ /\ verdict' = [verdict EXCEPT ![r] = "unavailable"]
          /\ Fault
    /\ UNCHANGED <<token, store, wire, shared, cookie, pc, kind, pod, sid,
                   leader, got, reply, setCookie>>

\* The answer arrives, for r and for all who share its validation.
ValidationSettles(r) ==
    LET awaiting == {q \in Requests : /\ leader[q] = r
                                      /\ pc[q] \in {"validate", "sharing"}}
    IN  /\ pc[r] = "validate"
        /\ verdict[r] # "pending"
        /\ Quiet(pod[r])
        /\ pc' = [q \in Requests |->
                     IF q \in awaiting THEN "validated" ELSE pc[q]]
        /\ verdict' = [q \in Requests |->
                          IF q \in awaiting THEN verdict[r] ELSE verdict[q]]
        /\ validating' = [validating EXCEPT ![pod[r]][sid[r]] =
                             IF @ = r THEN Nobody ELSE @]
        /\ Unanswered
        /\ UNCHANGED <<token, store, wire, hydrating, cookie, kind, pod, sid,
                       leader, got, faults>>

OutageExpires(r) == verdict[r] \in {"expired", "unavailable"}

\* Only the backend's word ends a session, not its absence.
Expired(r) == verdict[r] = "expired"

Conclude(r) ==
    /\ pc[r] = "validated"
    /\ \/ /\ Expired(r)
          /\ Destroy(r)
       \/ /\ ~Expired(r)
          /\ Answer(r, CASE kind[r] = "page" -> "ok"
                         [] verdict[r] = "valid" -> "refused"
                         [] OTHER -> "error",
                    KeepCookie)
          /\ UNCHANGED <<wire, shared>>
    /\ UNCHANGED <<Settled, token, sid, leader, faults>>

-----------------------------------------------------------------------------
(* Failures                                                                *)

\* A backend call of r fails, with the handler's catch or error page as the
\* consequence; of a login the token may have been issued.
CallFails(r) ==
    /\ pc[r] \in {"login", "upstream", "probe", "identify"}
    /\ Quiet(pod[r])
    /\ Fault
    /\ \/ UNCHANGED token
       \/ \E s \in Sids : /\ pc[r] = "login" /\ Unissued(s)
                          /\ token' = [token EXCEPT ![s] = "live"]
    /\ Answer(r, "error", KeepCookie)
    /\ UNCHANGED <<Settled, wire, shared, sid, leader>>

TokenKept(r) == Answer(r, "refused", KeepCookie)

\* createSession failed: the token is of no use.
CreateRejected(r) == GoTo(r, "revoke") /\ Unanswered

DelRejectionIgnored(r) ==
    Answer(r, DestroyedReply(kind[r]), DestroyedCookie(kind[r]))

\* A handler whose DEL failed ends with a 500.
DelRejected(r) == Answer(r, "error", KeepCookie)

\* The promise of a command rejects: of a hydration for all who await it, of
\* a new session with the revocation of its token.
Rejected(r) ==
    CASE pc[r] \in {"get", "touch"} ->
             RejectHydration(r) /\ Unanswered
      [] pc[r] = "create" ->
             CreateRejected(r) /\ UNCHANGED <<hydrating, got>>
      [] pc[r] = "del" ->
             DelRejected(r) /\ UNCHANGED <<hydrating, got>>

\* A command times out and may still be executed, or is never executed.
CommandFails(p, i) ==
    LET r == wire[p][i].by IN
    /\ r # Nobody
    /\ Quiet(p)
    /\ Fault
    /\ \/ wire' = [wire EXCEPT ![p][i].by = Nobody]
       \/ /\ wire[p][i].result = "unsent"
          /\ wire' = [wire EXCEPT ![p] = SubSeq(@, 1, i - 1)
                                           \o SubSeq(@, i + 1, Len(@))]
    /\ Rejected(r)
    /\ UNCHANGED <<token, store, validating, cookie, kind, pod, sid, leader,
                   verdict>>

\* The answer to a command nobody awaits any more.
LateAnswer(p) ==
    /\ wire[p] # <<>>
    /\ Head(wire[p]).by = Nobody
    /\ Head(wire[p]).result # "unsent"
    /\ Answered(p)
    /\ UNCHANGED <<token, store, shared, cookie, request, faults>>

\* A pod is lost with its maps and requests; its commands may be executed.
Restart(p) ==
    /\ Fault
    /\ pc' = [r \in Requests |->
                 IF pod[r] = p /\ pc[r] \notin {"idle", "answered"}
                 THEN "done" ELSE pc[r]]
    /\ reply' = [r \in Requests |->
                    IF pc'[r] = pc[r] THEN reply[r] ELSE "crashed"]
    /\ hydrating' = [hydrating EXCEPT ![p] = [s \in Sids |-> Nobody]]
    /\ validating' = [validating EXCEPT ![p] = [s \in Sids |-> Nobody]]
    /\ \/ wire' = [wire EXCEPT ![p] = <<>>]
       \/ wire' = [wire EXCEPT ![p] =
                      [i \in DOMAIN @ |-> [@[i] EXCEPT !.by = Nobody]]]
    /\ UNCHANGED <<token, store, cookie, kind, pod, sid, leader, got, verdict,
                   setCookie>>

-----------------------------------------------------------------------------
Handler(r) ==
    \/ GetAnswered(r) \/ TouchAnswered(r) \/ CreateAnswered(r)
    \/ DelAnswered(r) \/ Continue(r) \/ WhoamiMatches(r) \/ WhoamiMismatch(r)
    \/ LoginAccepted(r) \/ LoginRefused(r) \/ Revoke(r) \/ SignOut(r)
    \/ Upstream(r) \/ Probe(r) \/ Identify(r) \/ BackendValidates(r)
    \/ ValidationSettles(r) \/ Conclude(r)

Sending(r) ==
    \E p \in Pods : \/ SendLogin(r, p)
                    \/ \E k \in Kinds : SendWithCookie(r, k, p)

Failing ==
    \/ \E r \in Requests : CallFails(r)
    \/ \E p \in Pods : \/ Restart(p)
                       \/ \E i \in 1..Len(wire[p]) : CommandFails(p, i)

Environment ==
    \E s \in Sids : SessionAges(s) \/ SessionExpires(s) \/ TokenExpires(s)

Next ==
    \/ \E r \in Requests : Sending(r) \/ Receive(r) \/ Handler(r)
    \/ \E p \in Pods : Execute(p) \/ LateAnswer(p)
    \/ Environment
    \/ Failing

Spec == Init /\ [][Next]_vars

(* Calls are answered; the browser need not send, nor answers arrive.      *)
Fairness ==
    /\ \A r \in Requests : WF_vars(Handler(r))
    /\ \A p \in Pods : WF_vars(Execute(p)) /\ WF_vars(LateAnswer(p))

FairSpec == Spec /\ Fairness
-----------------------------------------------------------------------------
(* Safety                                                                  *)

\* A session that is gone from Valkey comes back neither through a touch nor
\* through a late command: only the one create of a login makes a session.
NeverResurrected ==
    [][\A s \in Sids :
          store[s] = "absent" /\ store'[s] # "absent"
          => \E p \in Pods : \E i \in DOMAIN wire[p] :
                 /\ wire[p][i].op = "create" /\ wire[p][i].sid = s
                 /\ wire[p][i].result = "unsent"]_store

\* The session a command is about to delete, unless for a logout or for a
\* handler that gave up waiting.
Ending(c) == c.op = "del" /\ c.by # Nobody /\ kind[c.by] # "logout"

\* Apart from a logout and the settings route, no request destroys a session
\* whose token the backend still accepts: neither an outage nor a 401 of the
\* admin probe is taken for an expired session.
SignedOutOnlyIfRejected ==
    \A p \in Pods : \A i \in DOMAIN wire[p] :
        LET c == wire[p][i] IN
        Ending(c) /\ kind[c.by] # "settings" => token[c.sid] = "dead"

\* "When the backend rejects that bearer token with 401 Unauthorized, the BFF
\* deletes the Valkey session ... A 403 Forbidden response remains an in-place
\* authorization error and does not sign the user out" (README): the same of
\* every route.
OtherStatusKeepsSession ==
    \A p \in Pods : \A i \in DOMAIN wire[p] :
        LET c == wire[p][i] IN Ending(c) => token[c.sid] = "dead"

\* An answer that clears the cookie leaves no session behind in Valkey.
ClearedCookieMeansGone ==
    \A r \in Requests :
        pc[r] = "answered" /\ setCookie[r] = ClearCookie /\ sid[r] # NoSid
            => store[sid[r]] = "absent"

\* A login that is refused leaves no session that could be used, neither when
\* the store failed after the SET took effect nor when the SET is executed
\* late; it takes two failures, of the store and of the revocation.
RefusedLoginUnusable ==
    \A r \in Requests :
        kind[r] = "login" /\ reply[r] = "refused" /\ sid[r] # NoSid /\ faults <= 1
            => store[sid[r]] = "absent" \/ token[sid[r]] = "dead"

\* Nobody joins a hydration or validation that is no longer running: its
\* request waits for it on the same pod and for the same session.
PendingIsRunning ==
    \A p \in Pods, s \in Sids :
        /\ LET r == hydrating[p][s] IN
           r # Nobody => /\ pc[r] \in {"get", "touch"}
                         /\ pod[r] = p /\ sid[r] = s
        /\ LET r == validating[p][s] IN
           r # Nobody => /\ pc[r] = "validate"
                         /\ pod[r] = p /\ sid[r] = s

-----------------------------------------------------------------------------
(* Liveness                                                                *)

\* Every request is answered, though its hydration or validation is run by
\* another request that may fail.
EveryRequestAnswered ==
    \A r \in Requests :
        (pc[r] \notin {"idle", "answered", "done"})
            ~> (pc[r] \in {"answered", "done"})
=============================================================================
