------------------------ MODULE SessionHistoryProofs ------------------------
(***************************************************************************)
(* Proofs about SessionHistory: what requests are told that come after the *)
(* end of a session.  Each has an invariant about the promise such a       *)
(* request could join: whoever runs it found no session (LogoutInv), or    *)
(* has no verdict that lets it in (DropInv).  That a hydration under way   *)
(* on the pod of a logout finds nothing follows from the order in which a  *)
(* connection executes its commands (QueueInv).                            *)
(***************************************************************************)
EXTENDS SessionHistory, SessionsProofs

Loading == {"get", "touch", "joined"}
Asking == {"validate", "sharing"}
Asked == Asking \union {"validated", "del", "answered", "done"}

\* What l has on its way will not find a session, and has not found one.
Blind(l) ==
    \A p \in Pods : \A i \in 1..Len(wire[p]) :
        wire[p][i].by = l /\ wire[p][i].op \in {"get", "touch"}
            => wire[p][i].result \in {"unsent", "none"}

-----------------------------------------------------------------------------
(* What a step may do                                                      *)

\* What a request learns, and from whom.
Traces(q) ==
    /\ pc'[q] = "idle" => pc[q] = "idle" /\ got'[q] = got[q]
    /\ pc'[q] \in Loading =>
          \/ pc[q] \in Loading /\ leader'[q] = leader[q]
          \/ /\ pc[q] = "idle" /\ got'[q] = got[q]
             /\ \/ pc'[q] = "get" /\ leader'[q] = q
                \/ /\ pc'[q] = "joined" /\ leader'[q] # Nobody
                   /\ leader'[q] = hydrating[pod'[q]][sid'[q]]
    /\ got'[q] = "session" =>
          \/ got[q] = "session"
          \/ pc[q] \in Loading /\ leader[q] \in Requests /\ ~Blind(leader[q])
    /\ verdict'[q] = "valid" =>
          \/ verdict[q] = "valid"
          \/ pc[q] = "validate" /\ token[sid[q]] = "live"
          \/ /\ pc[q] \in Asking /\ leader[q] \in Requests
             /\ verdict[leader[q]] = "valid"
    /\ pc'[q] \in Asking =>
          \/ pc[q] \in Asking /\ leader'[q] = leader[q]
          \/ /\ pc[q] \in {"hydrated", "probe"}
             /\ \/ leader'[q] = q
                \/ /\ leader'[q] # Nobody
                   /\ leader'[q] = validating[pod[q]][sid[q]]
    /\ pc[q] \in Asked => pc'[q] \in Asked
    /\ pc'[q] = "del" => pc[q] = "del" \/ validating'[pod[q]][sid[q]] = Nobody
    /\ pc[q] = "del" /\ pc'[q] = "answered" /\ reply'[q] = "ok" => DelAnswered(q)

\* Who enters the maps of a pod.
Places(p, s) ==
    /\ \/ hydrating'[p][s] \in {hydrating[p][s], Nobody}
       \/ hydrating'[p][s] \in Requests /\ pc[hydrating'[p][s]] = "idle"
    /\ \/ validating'[p][s] \in {validating[p][s], Nobody}
       \/ /\ validating'[p][s] \in Requests
          /\ pc[validating'[p][s]] \in {"hydrated", "probe"}

Follows ==
    /\ \A q \in Requests : Traces(q)
    /\ \A p \in Pods, s \in Sids : Places(p, s)

\* A request that learns nothing.
Unmoved(q) ==
    /\ pc'[q] = pc[q] /\ leader'[q] = leader[q]
    /\ got'[q] = got[q] /\ verdict'[q] = verdict[q]

\* It does nothing that counts.
LEMMA UnmovedTraces ==
    ASSUME NEW q \in Requests, Unmoved(q)
    PROVE  Traces(q)
BY DEF Unmoved, Traces, Loading, Asking, Asked

\* Only r learns something.
LEMMA OneFollows ==
    ASSUME NEW r \in Requests, Traces(r),
           \A q \in Requests : q # r => Unmoved(q),
           \A p \in Pods, s \in Sids : Places(p, s)
    PROVE  Follows
BY UnmovedTraces DEF Follows

\* The maps stay as they are.
LEMMA MapsStay ==
    ASSUME UNCHANGED shared
    PROVE  \A p \in Pods, s \in Sids : Places(p, s)
BY DEF shared, Places

\* r goes on without a session, or is answered.
LEMMA MoveFollows ==
    ASSUME TypeOK, NEW r \in Requests, NEW where, GoTo(r, where),
           UNCHANGED <<got, verdict>>,
           \A q \in Requests : q # r => leader'[q] = leader[q],
           \A p \in Pods, s \in Sids : Places(p, s),
           where \in Pcs \ (Loading \union Asking \union {"idle"}),
           where # "del" \/ validating'[pod[r]][sid[r]] = Nobody,
           pc[r] \in Asked => where \in Asked,
           pc[r] = "del" /\ where = "answered" /\ reply'[r] = "ok" => DelAnswered(r)
    PROVE  Follows
<1>1. /\ pc'[r] = where /\ got'[r] = got[r] /\ verdict'[r] = verdict[r]
      /\ \A q \in Requests : q # r => Unmoved(q)
  BY DEF GoTo, Unmoved, TypeOK
<1>2. Traces(r)
  BY <1>1 DEF Traces
<1> QED BY <1>1, <1>2, OneFollows

\* r asks the backend, or joins who does.
LEMMA ValidateFollows ==
    ASSUME TypeOK, NEW r \in Requests, pc[r] \in {"hydrated", "probe"},
           sid[r] \in Sids, Validate(r), UNCHANGED <<got, verdict>>
    PROVE  Follows
<1>0. pod[r] \in Pods /\ UNCHANGED hydrating
  BY DEF TypeOK, Validate
<1>1. CASE validating[pod[r]][sid[r]] = Nobody
  <2>1. /\ validating' = [validating EXCEPT ![pod[r]][sid[r]] = r]
        /\ pc'[r] = "validate" /\ leader'[r] = r
        /\ \A q \in Requests : q # r => Unmoved(q)
    BY <1>1 DEF Validate, GoTo, Unmoved, TypeOK
  <2>2. \A p \in Pods, s \in Sids : validating'[p][s] \in {validating[p][s], r}
    BY <1>0, <2>1 DEF TypeOK
  <2>3. \A p \in Pods, s \in Sids : Places(p, s)
    BY <1>0, <2>2 DEF Places
  <2>4. Traces(r)
    BY <2>1 DEF Traces, Loading, Asking, Asked
  <2> QED BY <2>1, <2>3, <2>4, OneFollows
<1>2. CASE validating[pod[r]][sid[r]] # Nobody
  <2>1. /\ UNCHANGED validating
        /\ pc'[r] = "sharing" /\ leader'[r] = validating[pod[r]][sid[r]]
        /\ \A q \in Requests : q # r => Unmoved(q)
    BY <1>2 DEF Validate, GoTo, Unmoved, TypeOK
  <2>2. Traces(r)
    BY <1>2, <2>1 DEF Traces, Loading, Asking, Asked
  <2> QED BY <1>0, <2>1, <2>2, MapsStay, OneFollows DEF shared
<1> QED BY <1>1, <1>2

\* r destroys its session.
LEMMA DestroyFollows ==
    ASSUME TypeOK, NEW r \in Requests, sid[r] \in Sids, Destroy(r),
           UNCHANGED <<leader, got, verdict>>
    PROVE  Follows
<1>1. /\ pod[r] \in Pods /\ GoTo(r, "del")
      /\ hydrating' = [hydrating EXCEPT ![pod[r]][sid[r]] = Nobody]
      /\ validating' = [validating EXCEPT ![pod[r]][sid[r]] = Nobody]
  BY DEF Destroy, Issue, DropValidation, TypeOK
<1>2. /\ validating'[pod[r]][sid[r]] = Nobody
      /\ \A p \in Pods, s \in Sids : /\ hydrating'[p][s] \in {hydrating[p][s], Nobody}
                                     /\ validating'[p][s] \in {validating[p][s], Nobody}
  BY <1>1 DEF TypeOK
<1>3. \A p \in Pods, s \in Sids : Places(p, s)
  BY <1>2 DEF Places
<1>4. "del" \in Pcs \ (Loading \union Asking \union {"idle"}) /\ "del" \in Asked
  BY DEF Pcs, CommandPcs, Loading, Asking, Asked
<1> QED BY <1>1, <1>2, <1>3, <1>4, MoveFollows

\* A request is sent.
LEMMA SendFollows ==
    ASSUME EndInv, NEW r \in Requests, NEW k \in Kinds, NEW p \in Pods,
           SendLogin(r, p) \/ SendWithCookie(r, k, p)
    PROVE  Follows
<1>0. TypeOK
  BY EndParts
<1>1. CASE SendLogin(r, p)
  <2>1. /\ GoTo(r, "login") /\ UNCHANGED <<got, verdict, leader, shared>>
        /\ pc[r] = "idle"
    BY <1>1 DEF SendLogin, Send, shared
  <2>2. "login" \in Pcs \ (Loading \union Asking \union {"idle"})
    BY DEF Pcs, BackendPcs, Loading, Asking
  <2> QED BY <1>0, <2>1, <2>2, MapsStay, MoveFollows DEF Asked, Asking
<1>2. CASE SendWithCookie(r, k, p)
  <2>1. /\ pc[r] = "idle" /\ UNCHANGED <<validating, verdict>>
        /\ pod'[r] = p /\ sid'[r] = cookie
    BY <1>0, <1>2 DEF SendWithCookie, Send, TypeOK
  <2>2. CASE cookie = NoSid
    <3>1. /\ pc'[r] = "hydrated" /\ got'[r] = "none" /\ UNCHANGED shared
          /\ \A q \in Requests : q # r => Unmoved(q)
      BY <1>0, <1>2, <2>1, <2>2 DEF SendWithCookie, GoTo, Unmoved, shared, TypeOK
    <3>2. Traces(r)
      BY <2>1, <3>1 DEF Traces, Loading, Asking, Asked
    <3> QED BY <3>1, <3>2, MapsStay, OneFollows
  <2>3. CASE cookie # NoSid
    <3>1. cookie \in Sids /\ Hydrate(r, p, cookie) /\ UNCHANGED got
      BY <1>0, <1>2, <2>3, SidTypes DEF SendWithCookie
    <3>2. CASE hydrating[p][cookie] = Nobody
      <4>1. /\ hydrating' = [hydrating EXCEPT ![p][cookie] = r]
            /\ pc'[r] = "get" /\ leader'[r] = r
            /\ \A q \in Requests : q # r => Unmoved(q)
        BY <1>0, <2>1, <3>1, <3>2 DEF Hydrate, GoTo, Unmoved, TypeOK
      <4>2. \A o \in Pods, s \in Sids : hydrating'[o][s] \in {hydrating[o][s], r}
        BY <1>0, <3>1, <4>1 DEF TypeOK
      <4>3. \A o \in Pods, s \in Sids : Places(o, s)
        BY <2>1, <4>2 DEF Places
      <4>4. Traces(r)
        BY <2>1, <3>1, <4>1 DEF Traces, Loading, Asking, Asked
      <4> QED BY <4>1, <4>3, <4>4, OneFollows
    <3>3. CASE hydrating[p][cookie] # Nobody
      <4>1. /\ UNCHANGED hydrating /\ pc'[r] = "joined"
            /\ leader'[r] = hydrating[p][cookie]
            /\ \A q \in Requests : q # r => Unmoved(q)
        BY <1>0, <2>1, <3>1, <3>3 DEF Hydrate, GoTo, Unmoved, TypeOK
      <4>2. Traces(r)
        BY <2>1, <3>1, <3>3, <4>1 DEF Traces, Loading, Asking, Asked
      <4> QED BY <2>1, <4>1, <4>2, MapsStay, OneFollows DEF shared
    <3> QED BY <3>2, <3>3
  <2> QED BY <2>2, <2>3
<1> QED BY <1>1, <1>2

\* A hydration ends: that there is a session was not found by the blind.
LEMMA LoadedFollows ==
    ASSUME TypeOK, NEW r \in Requests, NEW outcome,
           pc[r] \in {"get", "touch"}, sid[r] \in Sids,
           Hydrated(r, outcome), ForgetHydration(r),
           outcome = "session" => ~Blind(r),
           UNCHANGED <<validating, leader, verdict>>
    PROVE  Follows
<1>1. ASSUME NEW q \in Requests PROVE Traces(q)
  <2>1. CASE leader[q] = r /\ pc[q] \in {"get", "touch", "joined"}
    <3>1. pc'[q] = "hydrated" /\ got'[q] = outcome
      BY <2>1 DEF Hydrated
    <3> QED BY <2>1, <3>1 DEF Traces, Loading, Asking, Asked
  <2>2. CASE ~(leader[q] = r /\ pc[q] \in {"get", "touch", "joined"})
    <3>1. pc'[q] = pc[q] /\ got'[q] = got[q]
      BY <2>2 DEF Hydrated
    <3> QED BY <3>1, UnmovedTraces DEF Unmoved
  <2> QED BY <2>1, <2>2
<1>2. \A p \in Pods, s \in Sids : hydrating'[p][s] \in {hydrating[p][s], Nobody}
  BY DEF ForgetHydration, TypeOK
<1>3. \A p \in Pods, s \in Sids : Places(p, s)
  BY <1>2 DEF Places
<1> QED BY <1>1, <1>3 DEF Follows

\* The answer to a get or to a touch arrives.
LEMMA HydrationFollows ==
    ASSUME EndInv, NEW r \in Requests, GetAnswered(r) \/ TouchAnswered(r)
    PROVE  Follows
<1>0. TypeOK /\ UNCHANGED <<validating, leader, verdict>>
  BY EndParts DEF GetAnswered, TouchAnswered
<1>1. ASSUME NEW op \in {"get", "touch"}, Answers(r, op),
             Result(r) \notin {"unsent", "none"}
      PROVE  ~Blind(r)
  <2>1. /\ pod[r] \in Pods /\ 1 \in 1..Len(wire[pod[r]])
        /\ Head(wire[pod[r]]) = wire[pod[r]][1]
        /\ wire[pod[r]][1].by = r /\ wire[pod[r]][1].op = op
    BY <1>1, Arrived DEF Ops
  <2> QED BY <1>1, <2>1 DEF Blind, Result
<1>2. CASE GetAnswered(r)
  <2>1. Answers(r, "get") /\ pc[r] = "get" /\ sid[r] \in Sids
    BY <1>2, Arrived DEF GetAnswered, Ops
  <2>2. CASE Result(r) = "stale"
    <3>1. /\ pc'[r] = "touch" /\ UNCHANGED <<hydrating, got>>
          /\ \A q \in Requests : q # r => Unmoved(q)
      BY <1>0, <1>2, <2>2 DEF GetAnswered, GoTo, Unmoved, TypeOK
    <3>2. Traces(r)
      BY <1>0, <2>1, <3>1 DEF Traces, Loading, Asking, Asked
    <3> QED BY <1>0, <3>1, <3>2, MapsStay, OneFollows DEF shared
  <2>3. CASE Result(r) # "stale"
    <3>1. SettleHydration(r, IF Result(r) = "none" THEN "none" ELSE "session")
      BY <1>2, <2>3 DEF GetAnswered
    <3>2. Result(r) # "none" => ~Blind(r)
      BY <1>1, <2>1 DEF Answers, Result
    <3> QED BY <1>0, <2>1, <3>1, <3>2, LoadedFollows DEF SettleHydration
  <2> QED BY <2>2, <2>3
<1>3. CASE TouchAnswered(r)
  <2>1. Answers(r, "touch") /\ pc[r] = "touch" /\ sid[r] \in Sids
    BY <1>3, Arrived DEF TouchAnswered, Ops
  <2>2. SettleHydration(r, IF Result(r) = "ok" THEN "session" ELSE "none")
    BY <1>3 DEF TouchAnswered
  <2>3. Result(r) = "ok" => ~Blind(r)
    BY <1>1, <2>1
  <2> QED BY <1>0, <2>1, <2>2, <2>3, LoadedFollows DEF SettleHydration
<1> QED BY <1>2, <1>3

\* A handler is answered, or goes on.
LEMMA HandlerFollows ==
    ASSUME EndInv, NEW r \in Requests, Handler(r)
    PROVE  Follows
<1>0. /\ TypeOK /\ (pc[r] \in Carrying => sid[r] \in Sids)
      /\ (pc[r] = "hydrated" /\ got[r] = "session" => sid[r] \in Sids)
  BY EndParts DEF Carries
<1>1. ASSUME NEW how, NEW header, Answer(r, how, header),
             UNCHANGED <<shared, got, verdict>>,
             \A q \in Requests : q # r => leader'[q] = leader[q],
             pc[r] = "del" /\ how = "ok" => DelAnswered(r)
      PROVE  Follows
  <2>1. GoTo(r, "answered") /\ reply'[r] = how
    BY <1>0, <1>1 DEF Answer, TypeOK
  <2>2. /\ "answered" \in Pcs \ (Loading \union Asking \union {"idle"})
        /\ "answered" \in Asked
    BY DEF Pcs, Loading, Asking, Asked
  <2> QED BY <1>0, <1>1, <2>1, <2>2, MapsStay, MoveFollows
<1>2. ASSUME NEW where \in {"signout", "upstream", "probe", "identify", "create",
                            "revoke", "whoami"},
             GoTo(r, where), UNCHANGED <<shared, got, verdict, leader>>,
             pc[r] \notin Asked
      PROVE  Follows
  <2>1. where \in Pcs \ (Loading \union Asking \union {"idle"}) /\ where # "del"
    BY <1>2 DEF Pcs, CommandPcs, BackendPcs, Loading, Asking
  <2> QED BY <1>0, <1>2, <2>1, MapsStay, MoveFollows
<1> USE DEF Settled, Unanswered
<1>3. CASE CreateAnswered(r)
  <2>1. pc[r] = "create"
    BY <1>3, Arrived DEF CreateAnswered, Ops
  <2> QED BY <1>1, <1>3, <2>1 DEF CreateAnswered
<1>4. CASE DelAnswered(r)
  <2>1. /\ Answer(r, DestroyedReply(kind[r]), DestroyedCookie(kind[r]))
        /\ UNCHANGED <<shared, got, verdict, leader>>
    BY <1>4 DEF DelAnswered
  <2> QED BY <1>1, <1>4, <2>1
<1>5. CASE Continue(r)
  <2>1. pc[r] = "hydrated" /\ UNCHANGED <<got, verdict>>
    BY <1>5 DEF Continue
  <2>2. CASE HydrationFailed(r) \/ NoSession(r)
    BY <1>1, <2>1, <2>2 DEF HydrationFailed, NoSession
  <2>3. CASE HasSession(r) /\ kind[r] = "page"
    BY <1>0, <2>1, <2>3, ValidateFollows DEF HasSession
  <2>4. CASE HasSession(r) /\ kind[r] = "status"
    BY <1>1, <2>1, <2>4 DEF HasSession
  <2>5. CASE HasSession(r) /\ kind[r] \in {"logout", "proxy", "admin", "settings"}
    <3>1. /\ UNCHANGED <<shared, leader>>
          /\ \E where \in {"signout", "upstream", "probe", "identify"} : GoTo(r, where)
      BY <2>5 DEF HasSession
    <3> QED BY <1>2, <2>1, <3>1 DEF Asked, Asking
  <2> QED BY <1>5, <2>2, <2>3, <2>4, <2>5 DEF Continue, HasSession
<1>6. CASE WhoamiMatches(r) \/ WhoamiMismatch(r) \/ LoginAccepted(r)
  <2>1. /\ pc[r] \in {"whoami", "login"} /\ UNCHANGED <<shared, got, verdict, leader>>
        /\ \E where \in {"create", "revoke", "whoami"} : GoTo(r, where)
    BY <1>6 DEF WhoamiMatches, WhoamiMismatch, LoginAccepted, Issue
  <2> QED BY <1>2, <2>1 DEF Asked, Asking
<1>7. CASE LoginRefused(r) \/ Revoke(r)
  <2>1. pc[r] \in {"login", "revoke"} /\ Answer(r, "refused", KeepCookie)
        /\ UNCHANGED <<shared, got, verdict, leader>>
    BY <1>7 DEF LoginRefused, Revoke
  <2> QED BY <1>1, <2>1
<1>8. ASSUME Destroy(r), UNCHANGED <<leader, got, verdict>>, pc[r] \in Carrying
      PROVE  Follows
  BY <1>0, <1>8, DestroyFollows
<1>9. CASE SignOut(r)
  BY <1>8, <1>9 DEF SignOut, Carrying, BackendPcs
<1>10. CASE Upstream(r)
  BY <1>1, <1>8, <1>10 DEF Upstream, Carrying, BackendPcs
<1>11. CASE Probe(r)
  <2>1. pc[r] = "probe" /\ sid[r] \in Sids /\ UNCHANGED <<got, verdict>>
    BY <1>0, <1>11 DEF Probe, Carrying, BackendPcs
  <2>2. CASE Validate(r)
    BY <1>0, <2>1, <2>2, ValidateFollows
  <2>3. CASE ~Validate(r)
    BY <1>1, <1>2, <1>11, <2>1, <2>3 DEF Probe, ProbeUnauthorized, Asked, Asking
  <2> QED BY <2>2, <2>3
<1>12. CASE Identify(r)
  <2>1. pc[r] = "identify" /\ UNCHANGED <<leader, got, verdict>>
    BY <1>12 DEF Identify
  <2>2. CASE Destroy(r)
    BY <1>8, <2>1, <2>2 DEF Carrying, BackendPcs
  <2>3. CASE ~Destroy(r)
    <3>1. GoTo(r, "upstream") /\ UNCHANGED shared
      BY <1>12, <2>3 DEF Identify
    <3> QED BY <1>2, <2>1, <3>1 DEF Asked, Asking
  <2> QED BY <2>2, <2>3
<1>13. CASE Conclude(r)
  <2>1. pc[r] = "validated" /\ UNCHANGED <<leader, got, verdict>>
    BY <1>13 DEF Conclude
  <2>2. CASE Destroy(r)
    BY <1>8, <2>1, <2>2 DEF Carrying
  <2>3. CASE ~Destroy(r)
    BY <1>1, <1>13, <2>1, <2>3 DEF Conclude
  <2> QED BY <2>2, <2>3
<1>14. CASE BackendValidates(r)
  <2>1. /\ pc[r] = "validate" /\ UNCHANGED <<pc, shared, leader, got>>
        /\ verdict'[r] = "valid" => token[sid[r]] = "live"
        /\ \A q \in Requests : q # r => verdict'[q] = verdict[q]
    BY <1>0, <1>14 DEF BackendValidates, TypeOK
  <2>2. Traces(r)
    BY <2>1 DEF Traces, Loading, Asking, Asked
  <2> QED BY <2>1, <2>2, MapsStay, OneFollows DEF Unmoved
<1>15. CASE ValidationSettles(r)
  <2>0. pc[r] = "validate" /\ UNCHANGED <<hydrating, leader, got, pod, sid>>
    BY <1>15 DEF ValidationSettles
  <2>1. ASSUME NEW q \in Requests PROVE Traces(q)
    <3>1. CASE leader[q] = r /\ pc[q] \in Asking
      <4>1. pc'[q] = "validated" /\ verdict'[q] = verdict[r]
        BY <1>15, <3>1 DEF ValidationSettles, Asking
      <4> QED BY <2>0, <3>1, <4>1 DEF Traces, Loading, Asking, Asked
    <3>2. CASE ~(leader[q] = r /\ pc[q] \in Asking)
      <4>1. pc'[q] = pc[q] /\ verdict'[q] = verdict[q]
        BY <1>15, <3>2 DEF ValidationSettles, Asking
      <4> QED BY <2>0, <4>1, UnmovedTraces DEF Unmoved
    <3> QED BY <3>1, <3>2
  <2>2. \A p \in Pods, s \in Sids : validating'[p][s] \in {validating[p][s], Nobody}
    BY <1>0, <1>15 DEF ValidationSettles, TypeOK
  <2>3. \A p \in Pods, s \in Sids : Places(p, s)
    BY <2>0, <2>2 DEF Places
  <2> QED BY <2>1, <2>3 DEF Follows
<1> QED BY <1>3, <1>4, <1>5, <1>6, <1>7, <1>9, <1>10, <1>11, <1>12, <1>13, <1>14,
        <1>15, HydrationFollows DEF Handler

\* Something fails.
LEMMA FailureFollows ==
    ASSUME EndInv, Failing
    PROVE  Follows
<1>0. TypeOK /\ IInv
  BY EndParts
<1>1. ASSUME NEW r \in Requests, UNCHANGED <<shared, got, verdict, leader>>,
             NEW where \in {"answered", "revoke"}, GoTo(r, where),
             pc[r] \in Asked => where = "answered",
             pc[r] = "del" => reply'[r] = "error"
      PROVE  Follows
  <2>1. where \in Pcs \ (Loading \union Asking \union {"idle"}) /\ where # "del"
        /\ "answered" \in Asked
    BY <1>1 DEF Pcs, CommandPcs, BackendPcs, Loading, Asking, Asked
  <2> QED BY <1>0, <1>1, <2>1, MapsStay, MoveFollows
<1>2. ASSUME NEW r \in Requests, CallFails(r)
      PROVE  Follows
  <2>1. /\ GoTo(r, "answered") /\ reply'[r] = "error"
        /\ UNCHANGED <<shared, got, verdict, leader>>
    BY <1>0, <1>2 DEF CallFails, Answer, Settled, TypeOK
  <2> QED BY <1>1, <2>1
<1>3. ASSUME NEW p \in Pods, Restart(p)
      PROVE  Follows
  <2>1. ASSUME NEW q \in Requests PROVE Traces(q)
    <3>1. /\ UNCHANGED <<leader, got, verdict>>
          /\ pc'[q] = pc[q] \/ pc'[q] = "done"
      BY <1>3 DEF Restart
    <3>2. CASE pc'[q] = pc[q]
      BY <3>1, <3>2, UnmovedTraces DEF Unmoved
    <3>3. CASE pc'[q] = "done"
      BY <3>1, <3>3 DEF Traces, Loading, Asking, Asked
    <3> QED BY <3>1, <3>2, <3>3
  <2>2. \A o \in Pods, s \in Sids : /\ hydrating'[o][s] \in {hydrating[o][s], Nobody}
                                    /\ validating'[o][s] \in {validating[o][s], Nobody}
    BY <1>0, <1>3 DEF Restart, TypeOK
  <2>3. \A o \in Pods, s \in Sids : Places(o, s)
    BY <2>2 DEF Places
  <2> QED BY <2>1, <2>3 DEF Follows
<1>4. ASSUME NEW p \in Pods, NEW k \in 1..Len(wire[p]), CommandFails(p, k)
      PROVE  Follows
  <2>1. PICK r \in Requests : r = wire[p][k].by
    BY <1>0, <1>4, WireTypes DEF CommandFails
  <2>2. /\ pc[r] \in Ops /\ Rejected(r) /\ sid[r] \in Sids
        /\ UNCHANGED <<leader, validating, verdict>>
    <3>1. pc[r] = wire[p][k].op /\ sid[r] = wire[p][k].sid
      BY <1>0, <2>1, NobodyAssumption DEF IInv, WireMatched, Matches
    <3> QED BY <1>0, <1>4, <2>1, <3>1, WireTypes DEF CommandFails
  <2>3. CASE pc[r] \in {"get", "touch"}
    <3>1. Hydrated(r, "failed") /\ ForgetHydration(r)
      BY <2>2, <2>3 DEF Rejected, RejectHydration
    <3> QED BY <1>0, <2>2, <2>3, <3>1, LoadedFollows
  <2>4. CASE pc[r] = "create"
    <3>1. GoTo(r, "revoke") /\ UNCHANGED <<hydrating, got>>
      BY <2>2, <2>4 DEF Rejected, CreateRejected
    <3> QED BY <1>1, <2>2, <2>4, <3>1 DEF shared, Asked, Asking
  <2>5. CASE pc[r] = "del"
    <3>1. GoTo(r, "answered") /\ reply'[r] = "error" /\ UNCHANGED <<hydrating, got>>
      BY <1>0, <2>2, <2>5 DEF Rejected, DelRejected, Answer, TypeOK
    <3> QED BY <1>1, <2>2, <3>1 DEF shared
  <2> QED BY <2>2, <2>3, <2>4, <2>5 DEF Ops
<1> QED BY <1>2, <1>3, <1>4 DEF Failing

\* Every step does what it may.
LEMMA StepFollows ==
    ASSUME EndInv, [Next]_vars
    PROVE  Follows
<1>0. TypeOK
  BY EndParts
<1>1. ASSUME UNCHANGED <<shared, request>>
      PROVE  Follows
  BY <1>1, UnmovedTraces, MapsStay DEF request, Follows, Unmoved
<1>2. ASSUME NEW r \in Requests, Sending(r)
      PROVE  Follows
  <2>1. "status" \in Kinds
    BY DEF Kinds
  <2> QED BY <1>2, <2>1, SendFollows DEF Sending
<1>3. ASSUME NEW r \in Requests, Receive(r)
      PROVE  Follows
  <2>1. /\ GoTo(r, "done") /\ UNCHANGED <<shared, got, verdict, leader>>
    BY <1>3 DEF Receive
  <2>2. "done" \in Pcs \ (Loading \union Asking \union {"idle"}) /\ "done" \in Asked
    BY DEF Pcs, Loading, Asking, Asked
  <2> QED BY <1>0, <2>1, <2>2, MapsStay, MoveFollows
<1>4. CASE Environment \/ \E p \in Pods : Execute(p) \/ LateAnswer(p)
  BY <1>1, <1>4 DEF Environment, SessionAges, SessionExpires, TokenExpires, Execute,
                    LateAnswer
<1>5. CASE UNCHANGED vars
  BY <1>1, <1>5 DEF vars
<1> QED BY <1>2, <1>3, <1>4, <1>5, HandlerFollows, FailureFollows DEF Next
-----------------------------------------------------------------------------
(* Requests that come after the end of a session on their pod              *)

\* A dead session that a pod destroys has no verdict there that would let
\* anybody in, and who asked since then gets none.
DropInv ==
    /\ \A p \in Pods : \A s \in dropped[p] :
          /\ s \in Sids /\ token[s] = "dead"
          /\ validating[p][s] # Nobody => verdict[validating[p][s]] # "valid"
    /\ \A r \in informed :
          /\ r \in Requests /\ pc[r] \in Asked /\ verdict[r] # "valid"
          /\ pc[r] \in Asking =>
                /\ leader[r] \in Requests /\ verdict[leader[r]] # "valid"
                /\ sid[r] \in Sids /\ token[sid[r]] = "dead"

\* The records only grow by what the step shows.
Records ==
    /\ \A p \in Pods : /\ ended'[p] \subseteq ended[p] \union LoggedOut(p)
                       /\ dropped'[p] \subseteq dropped[p] \union Destroying(p)
    /\ \A r \in barred' : r \in barred \/ (r \in Requests /\ TooLate(r))
    /\ \A r \in informed' : r \in informed \/ (r \in Requests /\ AsksInformed(r))

\* They do in every step.
LEMMA StepRecords ==
    ASSUME [HistoryNext]_<<vars, history>>
    PROVE  [Next]_vars /\ Records
<1>1. CASE HistoryNext
  BY <1>1 DEF HistoryNext, Records
<1>2. CASE UNCHANGED <<vars, history>>
  BY <1>2 DEF history, Records
<1> QED BY <1>1, <1>2

\* What the invariant says of who hydrates and validates.
LEMMA PendingParts ==
    ASSUME EndInv, NEW p \in Pods, NEW s \in Sids
    PROVE  /\ hydrating[p][s] # Nobody =>
                 /\ hydrating[p][s] \in Requests /\ sid[hydrating[p][s]] = s
                 /\ pod[hydrating[p][s]] = p
                 /\ pc[hydrating[p][s]] \in {"get", "touch"}
           /\ validating[p][s] # Nobody =>
                 /\ validating[p][s] \in Requests /\ sid[validating[p][s]] = s
                 /\ pc[validating[p][s]] = "validate"
<1>1. TypeOK /\ PendingIsRunning
  BY EndParts DEF IInv
<1> QED BY <1>1 DEF TypeOK, PendingIsRunning

\* And of a request.
LEMMA RequestParts ==
    ASSUME EndInv, NEW r \in Requests
    PROVE  Led(r) /\ VerdictTrue(r) /\ Carries(r) /\ CarriesOver(r)
BY DEF EndInv, IInv, Local

\* Who is not let in, and asks about a dead token, is not let in afterwards.
LEMMA StillDenied ==
    ASSUME Follows, NEW l \in Requests, verdict[l] # "valid",
           pc[l] = "validate" => token[sid[l]] = "dead",
           pc[l] \in Asking => verdict[leader[l]] # "valid"
    PROVE  verdict'[l] # "valid"
<1>1. Traces(l)
  BY DEF Follows
<1> QED BY <1>1 DEF Traces

\* Neither is who runs the validation of a dead token.
LEMMA LeaderDenied ==
    ASSUME EndInv, Follows, NEW l \in Requests, verdict[l] # "valid",
           pc[l] = "validate", token[sid[l]] = "dead"
    PROVE  verdict'[l] # "valid"
<1>1. leader[l] = l
  BY RequestParts DEF Led
<1> QED BY <1>1, StillDenied

\* Nor who has not asked yet.
LEMMA NewcomerDenied ==
    ASSUME EndInv, Follows, NEW l \in Requests, pc[l] \in {"hydrated", "probe"}
    PROVE  verdict'[l] # "valid"
<1>1. verdict[l] # "valid"
  BY RequestParts DEF VerdictTrue
<1> QED BY <1>1, StillDenied DEF Asking

\* A step keeps it so.
LEMMA DropKept ==
    ASSUME EndInv, [Next]_vars, Records, DropInv
    PROVE  DropInv'
<1>0. TypeOK /\ Follows /\ DeadStays /\ \A q \in Requests : Moves(q)
  BY EndParts, StepFollows, StepEvolves, TokensAgeAlways DEF TokensAge, Evolves
<1>1. ASSUME NEW p \in Pods, NEW s \in dropped'[p]
      PROVE  /\ s \in Sids /\ token'[s] = "dead"
             /\ validating'[p][s] # Nobody => verdict'[validating'[p][s]] # "valid"
  <2>1. s \in dropped[p] \/ s \in Destroying(p)
    BY <1>1 DEF Records
  <2>2. s \in Sids /\ token'[s] = "dead"
    BY <1>0, <2>1 DEF DropInv, DeadStays, Destroying
  <2>3. ASSUME validating'[p][s] # Nobody
        PROVE  verdict'[validating'[p][s]] # "valid"
    <3>1. Places(p, s)
      BY <1>0, <2>2 DEF Follows
    <3>2. CASE /\ validating'[p][s] \in Requests
               /\ pc[validating'[p][s]] \in {"hydrated", "probe"}
      BY <1>0, <3>2, NewcomerDenied
    <3>3. CASE validating'[p][s] = validating[p][s]
      <4>1. s \in dropped[p]
        <5> SUFFICES ASSUME s \in Destroying(p) PROVE FALSE
          BY <2>1
        <5>1. PICK r \in Requests : /\ pod[r] = p /\ sid[r] = s
                                    /\ pc[r] # "del" /\ pc'[r] = "del"
          BY DEF Destroying
        <5>2. Traces(r)
          BY <1>0 DEF Follows
        <5> QED BY <2>3, <5>1, <5>2 DEF Traces
      <4>2. PICK l \in Requests : l = validating[p][s]
        BY <2>2, <2>3, <3>3, PendingParts
      <4>3. pc[l] = "validate" /\ sid[l] = s
        BY <2>2, <2>3, <3>3, <4>2, PendingParts
      <4>4. verdict[l] # "valid" /\ token[s] = "dead"
        BY <2>3, <3>3, <4>1, <4>2 DEF DropInv
      <4>5. verdict'[l] # "valid"
        BY <1>0, <4>3, <4>4, LeaderDenied
      <4> QED BY <3>3, <4>2, <4>5
    <3> QED BY <2>3, <3>1, <3>2, <3>3 DEF Places
  <2> QED BY <2>2, <2>3
<1>2. ASSUME NEW r \in informed'
      PROVE  /\ r \in Requests /\ pc'[r] \in Asked /\ verdict'[r] # "valid"
             /\ pc'[r] \in Asking =>
                   /\ leader'[r] \in Requests /\ verdict'[leader'[r]] # "valid"
                   /\ sid'[r] \in Sids /\ token'[sid'[r]] = "dead"
  <2>1. CASE r \in informed
    <3>1. /\ r \in Requests /\ pc[r] \in Asked /\ verdict[r] # "valid"
          /\ pc[r] \in Asking =>
                /\ leader[r] \in Requests /\ verdict[leader[r]] # "valid"
                /\ sid[r] \in Sids /\ token[sid[r]] = "dead"
      BY <2>1 DEF DropInv
    <3>2. Traces(r) /\ Moves(r) /\ Led(r)
      BY <1>0, <3>1, RequestParts DEF Follows
    <3>3. verdict'[r] # "valid"
      BY <1>0, <3>1, StillDenied DEF Asking
    <3>4. ASSUME pc'[r] \in Asking
          PROVE  /\ leader'[r] \in Requests /\ verdict'[leader'[r]] # "valid"
                 /\ sid'[r] \in Sids /\ token'[sid'[r]] = "dead"
      <4>1. pc[r] \in Asking /\ leader'[r] = leader[r]
        BY <3>1, <3>2, <3>4 DEF Traces, Asked, Asking
      <4>2. sid'[r] = sid[r] /\ sid[r] \in Sids
        BY <3>1, <3>2, <4>1 DEF Moves, Asking
      <4>3. token'[sid'[r]] = "dead"
        BY <1>0, <3>1, <4>1, <4>2 DEF DeadStays
      <4>4. PICK l \in Requests : l = leader[r]
        BY <3>1, <4>1
      <4>5. /\ pc[l] = "validate" /\ token[sid[l]] = "dead" /\ verdict[l] # "valid"
        BY <3>1, <3>2, <4>1, <4>4 DEF Led, Asking
      <4>6. verdict'[l] # "valid"
        BY <1>0, <4>5, LeaderDenied
      <4> QED BY <4>1, <4>2, <4>3, <4>4, <4>6
    <3> QED BY <3>1, <3>2, <3>3, <3>4 DEF Traces
  <2>2. CASE r \notin informed
    <3>1. r \in Requests /\ AsksInformed(r)
      BY <1>2, <2>2 DEF Records
    <3>2. /\ pc[r] \in {"hydrated", "probe"} /\ pc'[r] \in Asking
          /\ pod[r] \in Pods /\ sid[r] \in dropped[pod[r]]
      BY <1>0, <3>1 DEF AsksInformed, Asking, TypeOK
    <3>3. Traces(r) /\ Moves(r)
      BY <1>0, <3>1 DEF Follows
    <3>4. /\ sid[r] \in Sids /\ token[sid[r]] = "dead"
          /\ sid'[r] = sid[r]
      BY <3>2, <3>3 DEF DropInv, Moves
    <3>5. token'[sid'[r]] = "dead"
      BY <1>0, <3>4 DEF DeadStays
    <3>6. verdict'[r] # "valid"
      BY <1>0, <3>1, <3>2, NewcomerDenied
    <3>7. leader'[r] \in Requests /\ verdict'[leader'[r]] # "valid"
      <4>1. CASE leader'[r] = r
        BY <3>1, <3>6, <4>1
      <4>2. CASE /\ leader'[r] # Nobody
                 /\ leader'[r] = validating[pod[r]][sid[r]]
        <5>1. PICK l \in Requests : l = leader'[r]
          BY <3>2, <3>4, <4>2, PendingParts
        <5>2. /\ pc[l] = "validate" /\ sid[l] = sid[r] /\ verdict[l] # "valid"
          BY <3>2, <3>4, <4>2, <5>1, PendingParts DEF DropInv
        <5>3. verdict'[l] # "valid"
          BY <1>0, <3>4, <5>2, LeaderDenied
        <5> QED BY <5>1, <5>3
      <4> QED BY <3>2, <3>3, <4>1, <4>2 DEF Traces, Asking
    <3> QED BY <3>1, <3>2, <3>4, <3>5, <3>6, <3>7 DEF Asked
  <2> QED BY <2>1, <2>2
<1> QED BY <1>1, <1>2 DEF DropInv

-----------------------------------------------------------------------------
(* The order of a connection's commands                                    *)

\* What holds of two commands of a connection, c before d: they are executed
\* in order, so what asks for a session behind its deletion does not find it;
\* and a deletion is behind the commands of a hydration it leaves pending,
\* for it removes those it finds.
QueuedBefore(p, c, d) ==
    /\ d.result # "unsent" => c.result # "unsent"
    /\ c.op = "del" /\ d.op \in {"get", "touch"} /\ c.sid = d.sid
          => d.result \in {"unsent", "none"}
    /\ d.op = "del" /\ c.by # Nobody => hydrating[p][d.sid] # c.by

QueueInv ==
    \A p \in Pods : \A i, j \in 1..Len(wire[p]) :
        i < j => QueuedBefore(p, wire[p][i], wire[p][j])

\* c is d after a step that executes nothing.
From(c, d) ==
    /\ c.op = d.op /\ c.sid = d.sid /\ c.result = d.result
    /\ c.by = d.by \/ c.by = Nobody

\* c has just been sent; a deletion by who has forgotten the hydration.
Fresh(p, c) ==
    /\ c.result = "unsent"
    /\ c.op = "del" => hydrating'[p][c.sid] = Nobody

\* Commands stay in their order, and new ones come last.
InOrder(p) ==
    \A i, j \in 1..Len(wire'[p]) :
        i < j =>
            \/ Fresh(p, wire'[p][j])
            \/ \E a, b \in 1..Len(wire[p]) :
                  /\ a < b
                  /\ From(wire'[p][i], wire[p][a]) /\ From(wire'[p][j], wire[p][b])

\* Then the invariant is kept.
LEMMA OrderKept ==
    ASSUME EndInv, QueueInv, NEW p \in Pods, InOrder(p),
           \A s \in Sids : Places(p, s)
    PROVE  \A i, j \in 1..Len(wire'[p]) :
              i < j => QueuedBefore(p, wire[p][i], wire[p][j])'
<1> SUFFICES ASSUME NEW i \in 1..Len(wire'[p]), NEW j \in 1..Len(wire'[p]), i < j
             PROVE  QueuedBefore(p, wire[p][i], wire[p][j])'
  OBVIOUS
<1>0. TypeOK /\ IInv
  BY EndParts
<1>1. CASE Fresh(p, wire'[p][j])
  BY <1>1 DEF Fresh, QueuedBefore
<1>2. ASSUME NEW a \in 1..Len(wire[p]), NEW b \in 1..Len(wire[p]), a < b,
             From(wire'[p][i], wire[p][a]), From(wire'[p][j], wire[p][b])
      PROVE  QueuedBefore(p, wire[p][i], wire[p][j])'
  <2>1. QueuedBefore(p, wire[p][a], wire[p][b])
    BY <1>2 DEF QueueInv
  <2>2. ASSUME wire'[p][j].op = "del", wire'[p][i].by # Nobody
        PROVE  hydrating'[p][wire'[p][j].sid] # wire'[p][i].by
    <3>1. PICK l \in Requests : l = wire'[p][i].by
      BY <1>0, <1>2, <2>2, WireTypes DEF From
    <3>2. PICK s \in Sids : s = wire'[p][j].sid
      BY <1>0, <1>2, WireTypes DEF From
    <3>3. hydrating[p][s] # l /\ wire[p][a].by = l
      BY <1>2, <2>1, <2>2, <3>1, <3>2 DEF QueuedBefore, From
    <3>4. pc[l] \in Ops
      <4>1. Matches(p, wire[p][a])
        BY <1>0, <1>2 DEF IInv, WireMatched
      <4> QED BY <1>0, <1>2, <3>3, <4>1, WireTypes, NobodyAssumption DEF Matches
    <3>5. Places(p, s)
      OBVIOUS
    <3> QED BY <3>1, <3>2, <3>3, <3>4, <3>5, NobodyAssumption DEF Places, Ops
  <2> QED BY <1>2, <2>1, <2>2 DEF QueuedBefore, From
<1> QED BY <1>1, <1>2 DEF InOrder

\* A connection on which nothing happens.
LEMMA OrderStill ==
    ASSUME TypeOK, NEW p \in Pods, wire'[p] = wire[p]
    PROVE  InOrder(p)
<1>1. Len(wire[p]) \in Nat
  BY LenProperties DEF TypeOK
<1> QED BY <1>1 DEF InOrder, From

\* Any part of the commands in their order, and perhaps a new one.
LEMMA OrderAppended ==
    ASSUME TypeOK, NEW p \in Pods, NEW w \in Seq(Commands), NEW c \in Commands,
           Fresh(p, c), wire'[p] = Append(w, c) \/ wire'[p] = w,
           \A i, j \in 1..Len(w) :
              i < j => \E a, b \in 1..Len(wire[p]) :
                          a < b /\ w[i] = wire[p][a] /\ w[j] = wire[p][b]
    PROVE  InOrder(p)
<1>0. Len(w) \in Nat
  BY LenProperties
<1>1. ASSUME NEW i \in 1..Len(w), NEW j \in 1..Len(w), i < j,
             wire'[p][i] = w[i], wire'[p][j] = w[j]
      PROVE  \E a, b \in 1..Len(wire[p]) :
                /\ a < b
                /\ From(wire'[p][i], wire[p][a]) /\ From(wire'[p][j], wire[p][b])
  <2>1. PICK a \in 1..Len(wire[p]), b \in 1..Len(wire[p]) :
           a < b /\ w[i] = wire[p][a] /\ w[j] = wire[p][b]
    BY <1>1
  <2> QED BY <1>1, <2>1 DEF From
<1>2. CASE wire'[p] = w
  BY <1>1, <1>2 DEF InOrder
<1>3. CASE wire'[p] = Append(w, c)
  <2>1. /\ Len(wire'[p]) = Len(w) + 1 /\ wire'[p][Len(w) + 1] = c
        /\ \A j \in 1..Len(w) : wire'[p][j] = w[j]
    BY <1>3, AppendProperties
  <2> SUFFICES ASSUME NEW i \in 1..Len(wire'[p]), NEW j \in 1..Len(wire'[p]), i < j
               PROVE  \/ Fresh(p, wire'[p][j])
                      \/ \E a, b \in 1..Len(wire[p]) :
                            /\ a < b
                            /\ From(wire'[p][i], wire[p][a])
                            /\ From(wire'[p][j], wire[p][b])
    BY DEF InOrder
  <2>2. CASE j = Len(w) + 1
    BY <2>1, <2>2
  <2>3. CASE j # Len(w) + 1
    <3>1. i \in 1..Len(w) /\ j \in 1..Len(w)
      BY <1>0, <2>1, <2>3
    <3> QED BY <1>1, <2>1, <3>1
  <2> QED BY <2>2, <2>3
<1> QED BY <1>2, <1>3

\* A command is sent.
LEMMA OrderSent ==
    ASSUME TypeOK, NEW o \in Pods, NEW c \in Commands, Fresh(o, c),
           wire' = [wire EXCEPT ![o] = Append(wire[o], c)],
           NEW p \in Pods
    PROVE  InOrder(p)
<1>1. CASE p # o
  BY <1>1, OrderStill DEF TypeOK
<1>2. CASE p = o
  <2>1. wire[p] \in Seq(Commands) /\ wire'[p] = Append(wire[p], c)
    BY <1>2 DEF TypeOK
  <2> QED BY <1>2, <2>1, OrderAppended
<1> QED BY <1>1, <1>2

\* The oldest command is answered, and perhaps followed by another.
LEMMA OrderTaken ==
    ASSUME TypeOK, NEW o \in Pods, wire[o] # <<>>, NEW c \in Commands, Fresh(o, c),
           \/ wire' = [wire EXCEPT ![o] = Tail(wire[o])]
           \/ wire' = [wire EXCEPT ![o] = Append(Tail(wire[o]), c)],
           NEW p \in Pods
    PROVE  InOrder(p)
<1>1. CASE p # o
  BY <1>1, OrderStill DEF TypeOK
<1>2. CASE p = o
  <2> DEFINE w == Tail(wire[p])
  <2>1. /\ w \in Seq(Commands) /\ Len(w) = Len(wire[p]) - 1
        /\ \A j \in 1..Len(w) : w[j] = wire[p][j + 1]
        /\ Len(wire[p]) \in Nat
    BY <1>2, Shortened, LenProperties DEF TypeOK
  <2>2. wire'[p] = Append(w, c) \/ wire'[p] = w
    BY <1>2 DEF TypeOK
  <2> HIDE DEF w
  <2>3. ASSUME NEW i \in 1..Len(w), NEW j \in 1..Len(w), i < j
        PROVE  \E a, b \in 1..Len(wire[p]) :
                  a < b /\ w[i] = wire[p][a] /\ w[j] = wire[p][b]
    <3>1. /\ i + 1 \in 1..Len(wire[p]) /\ j + 1 \in 1..Len(wire[p]) /\ i + 1 < j + 1
          /\ w[i] = wire[p][i + 1] /\ w[j] = wire[p][j + 1]
      BY <2>1, <2>3
    <3> QED BY <3>1
  <2> QED BY <1>2, <2>1, <2>2, <2>3, OrderAppended
<1> QED BY <1>1, <1>2

\* Every command stays in its place, or loses who awaits it.
LEMMA OrderAbandoned ==
    ASSUME TypeOK, NEW p \in Pods, Len(wire'[p]) = Len(wire[p]),
           \A i \in 1..Len(wire[p]) : From(wire'[p][i], wire[p][i])
    PROVE  InOrder(p)
<1>1. Len(wire[p]) \in Nat
  BY LenProperties DEF TypeOK
<1> QED BY <1>1 DEF InOrder

\* A command is given up by its request, or never executed.
LEMMA OrderGivenUp ==
    ASSUME TypeOK, NEW o \in Pods, NEW k \in 1..Len(wire[o]), CommandFails(o, k),
           NEW p \in Pods
    PROVE  InOrder(p)
<1>0. wire[p] \in Seq(Commands) /\ Len(wire[p]) \in Nat
  BY LenProperties DEF TypeOK
<1>1. CASE p # o
  <2>1. wire'[p] = wire[p]
    BY <1>1 DEF CommandFails, TypeOK
  <2> QED BY <2>1, OrderStill
<1>2. CASE p = o /\ wire' = [wire EXCEPT ![o][k].by = Nobody]
  <2>1. wire[p][k] \in Commands /\ k \in 1..Len(wire[p])
    BY <1>0, <1>2, ElementOfSeq
  <2> DEFINE c == [wire[p][k] EXCEPT !.by = Nobody]
  <2>2. wire'[p] = [wire[p] EXCEPT ![k] = c]
    BY <1>2 DEF TypeOK
  <2>3. From(c, wire[p][k]) /\ c \in Commands
    BY <2>1 DEF Commands, From
  <2> HIDE DEF c
  <2>4. /\ Len(wire'[p]) = Len(wire[p])
        /\ \A j \in 1..Len(wire[p]) : wire'[p][j] = IF j = k THEN c ELSE wire[p][j]
    BY <1>0, <2>1, <2>2, <2>3, ExceptSeq
  <2>5. \A j \in 1..Len(wire[p]) : From(wire'[p][j], wire[p][j])
    BY <2>3, <2>4 DEF From
  <2> QED BY <2>4, <2>5, OrderAbandoned
<1>3. CASE p = o /\ wire' = [wire EXCEPT ![o] = SubSeq(@, 1, k - 1)
                                                  \o SubSeq(@, k + 1, Len(@))]
  <2> DEFINE w == SubSeq(wire[p], 1, k - 1) \o SubSeq(wire[p], k + 1, Len(wire[p]))
  <2>1. wire'[p] = w
    BY <1>3 DEF TypeOK
  <2>2. /\ Len(w) = Len(wire[p]) - 1
        /\ \A j \in 1..Len(w) : w[j] = IF j < k THEN wire[p][j] ELSE wire[p][j + 1]
    BY <1>3, Removed
  <2> HIDE DEF w
  <2> DEFINE at(j) == IF j < k THEN j ELSE j + 1
  <2>3. \A j \in 1..Len(w) : at(j) \in 1..Len(wire[p]) /\ w[j] = wire[p][at(j)]
    BY <1>0, <2>2
  <2>4. \A i, j \in 1..Len(w) : i < j => at(i) < at(j)
    BY <1>0, <2>2
  <2> HIDE DEF at
  <2> QED BY <2>1, <2>3, <2>4 DEF InOrder, From
<1> QED BY <1>1, <1>2, <1>3 DEF CommandFails

\* A pod is lost.
LEMMA OrderLost ==
    ASSUME TypeOK, NEW o \in Pods, Restart(o), NEW p \in Pods
    PROVE  InOrder(p)
<1>1. CASE p # o
  <2>1. wire'[p] = wire[p]
    BY <1>1 DEF Restart, TypeOK
  <2> QED BY <2>1, OrderStill
<1>2. CASE p = o /\ wire' = [wire EXCEPT ![o] = <<>>]
  <2>1. wire'[p] = <<>> /\ Len(wire'[p]) = 0
    BY <1>2, EmptySeq DEF TypeOK
  <2> QED BY <2>1 DEF InOrder
<1>3. CASE p = o /\ wire' = [wire EXCEPT ![o] =
                                [j \in DOMAIN @ |-> [@[j] EXCEPT !.by = Nobody]]]
  <2>1. /\ DOMAIN wire[p] = 1..Len(wire[p]) /\ Len(wire[p]) \in Nat
        /\ \A j \in 1..Len(wire[p]) : wire[p][j] \in Commands
    BY LenProperties, WireTypes DEF TypeOK
  <2> DEFINE w == [j \in 1..Len(wire[p]) |-> [wire[p][j] EXCEPT !.by = Nobody]]
  <2>2. wire'[p] = w
    BY <1>3, <2>1 DEF TypeOK
  <2>3. /\ DOMAIN w = 1..Len(wire[p])
        /\ \A j \in 1..Len(wire[p]) : From(w[j], wire[p][j])
    BY <2>1 DEF Commands, From
  <2> HIDE DEF w
  <2>4. Len(wire'[p]) = Len(wire[p])
    BY <2>1, <2>2, <2>3
  <2> QED BY <2>2, <2>3, <2>4, OrderAbandoned
<1> QED BY <1>1, <1>2, <1>3 DEF Restart

\* A command of r that is no deletion, or is one that forgets the hydration.
LEMMA OwnIsFresh ==
    ASSUME NEW r \in Requests, NEW op \in Ops, NEW s \in Sids, NEW p \in Pods,
           op # "del" \/ hydrating'[p][s] = Nobody
    PROVE  Command(r, op, s) \in Commands /\ Fresh(p, Command(r, op, s))
BY DEF Command, Commands, Fresh

\* r destroys its session.
LEMMA OrderDestroyed ==
    ASSUME TypeOK, NEW r \in Requests, sid[r] \in Sids, Destroy(r), NEW p \in Pods
    PROVE  InOrder(p)
<1>1. /\ pod[r] \in Pods /\ hydrating'[pod[r]][sid[r]] = Nobody
      /\ wire' = [wire EXCEPT ![pod[r]] =
                     Append(wire[pod[r]], Command(r, "del", sid[r]))]
  BY DEF Destroy, Issue, TypeOK
<1>2. Command(r, "del", sid[r]) \in Commands /\ Fresh(pod[r], Command(r, "del", sid[r]))
  BY <1>1, OwnIsFresh DEF Ops
<1> QED BY <1>1, <1>2, OrderSent

\* The answer to the oldest command arrives, and nothing is sent.
LEMMA OrderAnswered ==
    ASSUME EndInv, NEW r \in Requests, NEW op \in Ops, Answers(r, op),
           Answered(pod[r]), NEW p \in Pods
    PROVE  InOrder(p)
<1>1. /\ TypeOK /\ pod[r] \in Pods /\ wire[pod[r]] # <<>> /\ sid[r] \in Sids
      /\ wire' = [wire EXCEPT ![pod[r]] = Tail(wire[pod[r]])]
  BY Arrived, EndParts DEF Answered
<1>2. Command(r, "get", sid[r]) \in Commands /\ Fresh(pod[r], Command(r, "get", sid[r]))
  BY <1>1, OwnIsFresh DEF Ops
<1> QED BY <1>1, <1>2, OrderTaken

\* All handlers keep the order.
LEMMA HandlerInOrder ==
    ASSUME EndInv, NEW r \in Requests, Handler(r), NEW p \in Pods
    PROVE  InOrder(p)
<1>0. TypeOK /\ pod[r] \in Pods /\ (pc[r] \in Carrying => sid[r] \in Sids)
  BY EndParts DEF Carries
<1>1. ASSUME UNCHANGED wire PROVE InOrder(p)
  BY <1>0, <1>1, OrderStill
<1>2. CASE GetAnswered(r)
  <2>1. Answers(r, "get")
    BY <1>2 DEF GetAnswered
  <2>2. CASE Result(r) = "stale"
    <3>1. /\ wire[pod[r]] # <<>> /\ sid[r] \in Sids
          /\ wire' = [wire EXCEPT ![pod[r]] =
                         Append(Tail(wire[pod[r]]), Command(r, "touch", sid[r]))]
      BY <1>2, <2>1, <2>2, Arrived DEF GetAnswered, Ops
    <3>2. /\ Command(r, "touch", sid[r]) \in Commands
          /\ Fresh(pod[r], Command(r, "touch", sid[r]))
      BY <1>0, <3>1, OwnIsFresh DEF Ops
    <3> QED BY <1>0, <3>1, <3>2, OrderTaken
  <2>3. CASE Result(r) # "stale"
    <3>1. Answered(pod[r])
      BY <1>2, <2>3 DEF GetAnswered
    <3> QED BY <2>1, <3>1, OrderAnswered DEF Ops
  <2> QED BY <2>2, <2>3
<1>3. ASSUME NEW op \in {"touch", "create", "del"}, Answers(r, op), Answered(pod[r])
      PROVE  InOrder(p)
  BY <1>3, OrderAnswered DEF Ops
<1>4. CASE TouchAnswered(r) \/ CreateAnswered(r) \/ DelAnswered(r)
  BY <1>3, <1>4 DEF TouchAnswered, CreateAnswered, DelAnswered
<1>5. CASE WhoamiMatches(r)
  <2>1. /\ sid[r] \in Sids
        /\ wire' = [wire EXCEPT ![pod[r]] =
                       Append(wire[pod[r]], Command(r, "create", sid[r]))]
    BY <1>0, <1>5 DEF WhoamiMatches, Issue, Carrying, BackendPcs
  <2>2. /\ Command(r, "create", sid[r]) \in Commands
        /\ Fresh(pod[r], Command(r, "create", sid[r]))
    BY <1>0, <2>1, OwnIsFresh DEF Ops
  <2> QED BY <1>0, <2>1, <2>2, OrderSent
<1>6. ASSUME Destroy(r), pc[r] \in Carrying PROVE InOrder(p)
  BY <1>0, <1>6, OrderDestroyed
<1>7. CASE SignOut(r) \/ Upstream(r) \/ Identify(r) \/ Conclude(r)
  <2>1. pc[r] \in Carrying /\ (Destroy(r) \/ UNCHANGED wire)
    BY <1>7 DEF SignOut, Upstream, Identify, Conclude, Carrying, BackendPcs
  <2> QED BY <1>1, <1>6, <2>1
<1>8. CASE \/ Continue(r) \/ WhoamiMismatch(r) \/ LoginAccepted(r) \/ LoginRefused(r)
           \/ Revoke(r) \/ Probe(r) \/ BackendValidates(r) \/ ValidationSettles(r)
  <2>1. UNCHANGED wire
    BY <1>8 DEF Continue, HydrationFailed, NoSession, HasSession, Validate,
       WhoamiMismatch, LoginAccepted, LoginRefused, Revoke, Probe, ProbeUnauthorized,
       BackendValidates, ValidationSettles
  <2> QED BY <1>1, <2>1
<1> QED BY <1>2, <1>4, <1>5, <1>7, <1>8 DEF Handler

\* So does every step that executes no command.
LEMMA StepInOrder ==
    ASSUME EndInv, [Next]_vars, \A o \in Pods : ~Execute(o), NEW p \in Pods
    PROVE  InOrder(p)
<1>0. TypeOK
  BY EndParts
<1>1. ASSUME UNCHANGED wire PROVE InOrder(p)
  BY <1>0, <1>1, OrderStill
<1>2. ASSUME NEW r \in Requests, NEW o \in Pods, NEW k \in Kinds, SendWithCookie(r, k, o)
      PROVE  InOrder(p)
  <2>1. CASE UNCHANGED wire
    BY <1>1, <2>1
  <2>2. CASE ~UNCHANGED wire
    <3>1. /\ cookie \in Sids
          /\ wire' = [wire EXCEPT ![o] = Append(wire[o], Command(r, "get", cookie))]
      BY <1>0, <1>2, <2>2, SidTypes DEF SendWithCookie, Hydrate
    <3>2. Command(r, "get", cookie) \in Commands /\ Fresh(o, Command(r, "get", cookie))
      BY <3>1, OwnIsFresh DEF Ops
    <3> QED BY <1>0, <3>1, <3>2, OrderSent
  <2> QED BY <2>1, <2>2
<1>3. ASSUME NEW r \in Requests, Sending(r) \/ Receive(r)
      PROVE  InOrder(p)
  BY <1>1, <1>2, <1>3 DEF Sending, SendLogin, Receive
<1>4. ASSUME NEW o \in Pods, LateAnswer(o)
      PROVE  InOrder(p)
  <2>1. wire[o] # <<>> /\ wire' = [wire EXCEPT ![o] = Tail(wire[o])]
    BY <1>4 DEF LateAnswer, Answered
  <2>2. Head(wire[o]) \in Commands
    BY <1>0, <2>1, HeadTailProperties DEF TypeOK
  <2>3. PICK c \in Commands : Fresh(o, c)
    <3>1. [Head(wire[o]) EXCEPT !.result = "unsent", !.op = "get"] \in Commands
      BY <2>2 DEF Commands, Ops
    <3>2. Fresh(o, [Head(wire[o]) EXCEPT !.result = "unsent", !.op = "get"])
      BY <2>2 DEF Fresh, Commands
    <3> QED BY <3>1, <3>2
  <2> QED BY <1>0, <2>1, <2>3, OrderTaken
<1>5. CASE Environment
  BY <1>1, <1>5 DEF Environment, SessionAges, SessionExpires, TokenExpires
<1>6. CASE Failing
  BY <1>0, <1>1, <1>6, OrderGivenUp, OrderLost DEF Failing, CallFails
<1>7. CASE UNCHANGED vars
  BY <1>1, <1>7 DEF vars
<1> QED BY <1>3, <1>4, <1>5, <1>6, <1>7, HandlerInOrder DEF Next

\* A command is executed when those before it have been.
LEMMA ExecutedInOrder ==
    ASSUME EndInv, QueueInv, NEW o \in Pods, Execute(o)
    PROVE  QueueInv'
<1>0. TypeOK /\ UNCHANGED hydrating
  BY EndParts DEF Execute, shared
<1> SUFFICES ASSUME NEW p \in Pods, NEW i \in 1..Len(wire'[p]),
                    NEW j \in 1..Len(wire'[p]), i < j
             PROVE  QueuedBefore(p, wire[p][i], wire[p][j])'
  BY DEF QueueInv
<1>1. PICK k \in 1..Len(wire[o]) :
         /\ wire[o][k].result = "unsent"
         /\ \A n \in 1..(k - 1) : wire[o][n].result # "unsent"
         /\ wire' = [wire EXCEPT ![o][k].result = Outcome(wire[o][k])]
  BY DEF Execute
<1>2. CASE p # o
  <2>1. wire'[p] = wire[p]
    BY <1>0, <1>1, <1>2 DEF TypeOK
  <2> QED BY <1>0, <2>1 DEF QueueInv, QueuedBefore
<1>3. CASE p = o
  <2> DEFINE c == [wire[p][k] EXCEPT !.result = Outcome(wire[p][k])]
  <2>1. wire[p] \in Seq(Commands) /\ wire[p][k] \in Commands /\ Len(wire[p]) \in Nat
    BY <1>0, <1>1, <1>3, ElementOfSeq, LenProperties DEF TypeOK
  <2>2. wire'[p] = [wire[p] EXCEPT ![k] = c]
    BY <1>0, <1>1, <1>3 DEF TypeOK
  <2>3. /\ c.op = wire[p][k].op /\ c.sid = wire[p][k].sid /\ c.by = wire[p][k].by
        /\ c.result = Outcome(wire[p][k])
    BY <2>1 DEF Commands
  <2> HIDE DEF c
  <2>4. /\ Len(wire'[p]) = Len(wire[p])
        /\ \A n \in 1..Len(wire[p]) : wire'[p][n] = IF n = k THEN c ELSE wire[p][n]
    <3>1. DOMAIN wire[p] = 1..Len(wire[p])
      BY <2>1, LenProperties
    <3>2. DOMAIN wire'[p] = 1..Len(wire[p])
      BY <2>2, <3>1
    <3>3. Len(wire'[p]) = Len(wire[p])
      BY <2>1, <3>1, <3>2
    <3> QED BY <2>2, <3>1, <3>3
  <2>5. QueuedBefore(p, wire[p][i], wire[p][j])
    BY <2>4 DEF QueueInv
  <2>6. CASE j = k
    <3>1. /\ wire'[p][i] = wire[p][i] /\ wire'[p][j] = c
          /\ wire[p][i].result # "unsent"
      BY <1>1, <1>3, <2>1, <2>4, <2>6
    <3>2. ASSUME wire[p][i].op = "del", c.op \in {"get", "touch"},
                 wire[p][i].sid = c.sid
          PROVE  c.result = "none"
      <4>1. Truthful(wire[p][i])
        BY <2>4 DEF EndInv
      <4>2. store[wire[p][k].sid] = "absent"
        BY <2>3, <3>1, <3>2, <4>1 DEF Truthful, Gone
      <4> QED BY <2>3, <3>2, <4>2 DEF Outcome, TouchApplies
    <3> QED BY <1>0, <2>3, <2>5, <2>6, <3>1, <3>2 DEF QueuedBefore
  <2>7. CASE j # k
    <3>1. wire'[p][j] = wire[p][j] /\ (i = k => wire[p][j].result = "unsent")
      BY <1>1, <1>3, <2>4, <2>5, <2>7 DEF QueuedBefore
    <3>2. /\ wire'[p][i].op = wire[p][i].op /\ wire'[p][i].sid = wire[p][i].sid
          /\ wire'[p][i].by = wire[p][i].by
          /\ i # k => wire'[p][i].result = wire[p][i].result
      BY <2>3, <2>4
    <3> QED BY <1>0, <2>5, <3>1, <3>2 DEF QueuedBefore
  <2> QED BY <2>6, <2>7
<1> QED BY <1>2, <1>3

\* A step keeps the order.
LEMMA QueueKept ==
    ASSUME EndInv, [Next]_vars, QueueInv
    PROVE  QueueInv'
<1>1. CASE \E o \in Pods : Execute(o)
  BY <1>1, ExecutedInOrder
<1>2. CASE \A o \in Pods : ~Execute(o)
  <2>1. ASSUME NEW p \in Pods
        PROVE  \A i, j \in 1..Len(wire'[p]) :
                  i < j => QueuedBefore(p, wire[p][i], wire[p][j])'
    <3>1. InOrder(p) /\ \A s \in Sids : Places(p, s)
      BY <1>2, StepInOrder, StepFollows DEF Follows
    <3> QED BY <3>1, OrderKept
  <2> QED BY <2>1 DEF QueueInv
<1> QED BY <1>1, <1>2

-----------------------------------------------------------------------------
(* Requests that come after a logout                                       *)

\* A session whose logout was answered is gone, and no hydration on the pod
\* that answered finds it; who came after that awaits no other hydration.
LogoutInv ==
    /\ \A r \in Requests : pc[r] = "idle" => got[r] # "session"
    /\ \A p \in Pods : \A s \in ended[p] :
          /\ s \in Sids /\ Gone(s)
          /\ hydrating[p][s] # Nobody => Blind(hydrating[p][s])
    /\ \A r \in barred :
          /\ r \in Requests /\ pc[r] # "idle" /\ got[r] # "session"
          /\ pc[r] \in Loading =>
                /\ leader[r] \in Requests /\ Blind(leader[r])
                /\ sid[r] \in Sids /\ Gone(sid[r])

\* Who hydrates a session that is gone goes on not finding it.
LEMMA BlindStays ==
    ASSUME EndInv, Evolves, NEW l \in Requests, Blind(l),
           sid[l] \in Sids, Gone(sid[l])
    PROVE  Blind(l)'
<1>0. TypeOK /\ IInv
  BY EndParts
<1> SUFFICES ASSUME NEW p \in Pods, NEW i \in 1..Len(wire'[p]),
                    wire'[p][i].by = l, wire'[p][i].op \in {"get", "touch"}
             PROVE  wire'[p][i].result \in {"unsent", "none"}
  BY DEF Blind
<1>1. CASE Issued(wire'[p][i])
  BY <1>1 DEF Issued
<1>2. CASE Carried(p, wire'[p][i])
  <2>1. PICK j \in 1..Len(wire[p]) :
           /\ wire'[p][i].op = wire[p][j].op
           /\ wire[p][j].by = l
           /\ \/ wire'[p][i].result = wire[p][j].result
              \/ wire'[p][i].result = Outcome(wire[p][j])
    BY <1>2, NobodyAssumption DEF Carried
  <2>2. wire[p][j].sid = sid[l]
    BY <1>0, <2>1, NobodyAssumption DEF IInv, WireMatched, Matches
  <2>3. Outcome(wire[p][j]) = "none"
    BY <2>1, <2>2 DEF Outcome, TouchApplies, Gone
  <2> QED BY <2>1, <2>3 DEF Blind
<1> QED BY <1>1, <1>2 DEF Evolves, WireEvolves

\* Who is sent now has not found anything yet.
LEMMA NewcomerBlind ==
    ASSUME EndInv, Evolves, NEW l \in Requests, pc[l] = "idle"
    PROVE  Blind(l)'
<1>0. TypeOK /\ IInv
  BY EndParts
<1> SUFFICES ASSUME NEW p \in Pods, NEW i \in 1..Len(wire'[p]), wire'[p][i].by = l
             PROVE  wire'[p][i].result \in {"unsent", "none"}
  BY DEF Blind
<1>1. CASE Issued(wire'[p][i])
  BY <1>1 DEF Issued
<1>2. CASE Carried(p, wire'[p][i])
  <2>1. PICK j \in 1..Len(wire[p]) : wire[p][j].by = l
    BY <1>2, NobodyAssumption DEF Carried
  <2>2. pc[l] = wire[p][j].op /\ wire[p][j].op \in Ops
    BY <1>0, <2>1, WireTypes, NobodyAssumption DEF IInv, WireMatched, Matches
  <2> QED BY <2>2 DEF Ops
<1> QED BY <1>1, <1>2 DEF Evolves, WireEvolves

\* Who is sent hydrates, or awaits who does.
LEMMA NewcomerLed ==
    ASSUME NEW r \in Requests, Traces(r), pc[r] = "idle", pc'[r] \in {"get", "joined"}
    PROVE  \/ leader'[r] = r
           \/ /\ pc'[r] = "joined" /\ leader'[r] # Nobody
              /\ leader'[r] = hydrating[pod'[r]][sid'[r]]
<1>1. pc'[r] \in Loading /\ pc[r] \notin Loading
  BY DEF Loading
<1> QED BY <1>1 DEF Traces

\* When a logout is answered, the hydrations of its session on its pod find
\* nothing: their commands are behind the deletion.
LEMMA LogoutBlinds ==
    ASSUME EndInv, QueueInv, NEW r \in Requests, DelAnswered(r)
    PROVE  /\ Gone(sid[r]) /\ sid[r] \in Sids
           /\ hydrating[pod[r]][sid[r]] # Nobody => Blind(hydrating[pod[r]][sid[r]])
<1> DEFINE p == pod[r]
           s == sid[r]
<1>0. TypeOK /\ IInv
  BY EndParts
<1>1. /\ p \in Pods /\ s \in Sids /\ 1 \in 1..Len(wire[p])
      /\ wire[p][1].op = "del" /\ wire[p][1].sid = s /\ Gone(s)
  BY Arrived DEF DelAnswered, Ops, Truthful
<1> HIDE DEF p, s
<1>2. ASSUME hydrating[p][s] # Nobody
      PROVE  Blind(hydrating[p][s])
  <2>1. PICK l \in Requests : /\ l = hydrating[p][s] /\ pod[l] = p /\ sid[l] = s
                              /\ pc[l] \in {"get", "touch"}
    BY <1>1, <1>2, PendingParts
  <2>2. ASSUME NEW o \in Pods, NEW k \in 1..Len(wire[o]), wire[o][k].by = l
        PROVE  wire[o][k].result \in {"unsent", "none"}
    <3>1. o = p /\ wire[o][k].op = pc[l] /\ wire[o][k].sid = s
      BY <1>0, <2>1, <2>2, NobodyAssumption DEF IInv, WireMatched, Matches
    <3>2. k # 1
      BY <1>1, <2>1, <3>1
    <3>3. Len(wire[p]) \in Nat
      BY <1>0, <1>1, LenProperties DEF TypeOK
    <3>4. 1 < k /\ k \in 1..Len(wire[p])
      BY <2>2, <3>1, <3>2, <3>3
    <3>5. QueuedBefore(p, wire[p][1], wire[p][k])
      BY <1>1, <3>4 DEF QueueInv
    <3> QED BY <1>1, <2>1, <3>1, <3>5 DEF QueuedBefore
  <2> QED BY <2>1, <2>2 DEF Blind
<1> QED BY <1>1, <1>2 DEF p, s

\* A step keeps it so.
LEMMA LogoutKept ==
    ASSUME EndInv, EndInv', QueueInv, [Next]_vars, Records, LogoutInv
    PROVE  LogoutInv'
<1>0. /\ TypeOK /\ Follows /\ Evolves /\ TokensAge
      /\ \A q \in Requests : Moves(q) /\ Traces(q)
  BY EndParts, StepFollows, StepEvolves, TokensAgeAlways DEF Evolves, Follows
<1>1. /\ \A q \in Requests : pod'[q] \in Pods
      /\ \A p \in Pods, s \in Sids : hydrating'[p][s] \in Requests \union {Nobody}
  <2>1. TypeOK'
    BY DEF EndInv, IInv
  <2> QED BY <2>1 DEF TypeOK
<1>2. ASSUME NEW r \in Requests, pc'[r] = "idle" PROVE got'[r] # "session"
  BY <1>0, <1>2 DEF LogoutInv, Traces
<1>3. ASSUME NEW p \in Pods, NEW s \in ended'[p]
      PROVE  /\ s \in Sids /\ Gone(s)'
             /\ (hydrating[p][s] # Nobody => Blind(hydrating[p][s]))'
  <2>1. /\ s \in Sids /\ Gone(s)
        /\ hydrating[p][s] # Nobody => Blind(hydrating[p][s])
    <3>1. CASE s \in ended[p]
      BY <3>1 DEF LogoutInv
    <3>2. CASE s \in LoggedOut(p)
      <4>1. PICK r \in Requests :
               /\ s = sid[r] /\ pod[r] = p /\ pc[r] = "del"
               /\ pc'[r] = "answered" /\ reply'[r] = "ok"
        BY <3>2 DEF LoggedOut
      <4>2. DelAnswered(r)
        BY <1>0, <4>1 DEF Traces
      <4> QED BY <4>1, <4>2, LogoutBlinds
    <3> QED BY <1>3, <3>1, <3>2 DEF Records
  <2>2. Gone(s)'
    BY <1>0, <2>1, GoneStays
  <2>3. ASSUME hydrating'[p][s] # Nobody
        PROVE  Blind(hydrating[p][s])'
    <3>1. Places(p, s)
      BY <1>0, <2>1 DEF Follows
    <3>2. CASE hydrating'[p][s] = hydrating[p][s]
      <4>1. PICK l \in Requests : l = hydrating[p][s] /\ sid[l] = s
        BY <2>1, <2>3, <3>2, PendingParts
      <4>2. Blind(l)'
        BY <1>0, <2>1, <2>3, <3>2, <4>1, BlindStays
      <4> QED BY <3>2, <4>1, <4>2 DEF Blind
    <3>3. CASE hydrating'[p][s] \in Requests /\ pc[hydrating'[p][s]] = "idle"
      <4>1. PICK l \in Requests : l = hydrating'[p][s] /\ pc[l] = "idle"
        BY <3>3
      <4>2. Blind(l)'
        BY <1>0, <4>1, NewcomerBlind
      <4> QED BY <4>1, <4>2 DEF Blind
    <3> QED BY <2>3, <3>1, <3>2, <3>3 DEF Places
  <2> QED BY <2>1, <2>2, <2>3
<1>4. ASSUME NEW r \in barred'
      PROVE  /\ r \in Requests /\ pc'[r] # "idle" /\ got'[r] # "session"
             /\ (pc[r] \in Loading =>
                   /\ leader[r] \in Requests /\ Blind(leader[r])
                   /\ sid[r] \in Sids /\ Gone(sid[r]))'
  <2>1. CASE r \in barred
    <3>1. /\ r \in Requests /\ pc[r] # "idle" /\ got[r] # "session"
          /\ pc[r] \in Loading =>
                /\ leader[r] \in Requests /\ Blind(leader[r])
                /\ sid[r] \in Sids /\ Gone(sid[r])
      BY <2>1 DEF LogoutInv
    <3>2. Traces(r) /\ Moves(r) /\ Led(r) /\ CarriesOver(r)
      BY <1>0, <3>1, RequestParts
    <3>3. pc'[r] # "idle" /\ got'[r] # "session"
      BY <3>1, <3>2 DEF Traces
    <3>4. ASSUME pc'[r] \in Loading
          PROVE  (/\ leader[r] \in Requests /\ Blind(leader[r])
                  /\ sid[r] \in Sids /\ Gone(sid[r]))'
      <4>1. pc[r] \in Loading /\ leader'[r] = leader[r]
        BY <3>1, <3>2, <3>4 DEF Traces
      <4>2. sid'[r] = sid[r]
        BY <3>2, <4>1 DEF Moves, Loading
      <4>3. PICK l \in Requests : l = leader[r] /\ sid[l] = sid[r]
        BY <3>1, <3>2, <4>1 DEF Led, CarriesOver, Loading
      <4>4. Blind(l)'
        BY <1>0, <3>1, <4>1, <4>3, BlindStays
      <4>5. PICK s \in Sids : s = sid[r]
        BY <3>1, <4>1
      <4>6. Gone(s)'
        BY <1>0, <3>1, <4>1, <4>5, GoneStays
      <4> QED BY <4>1, <4>2, <4>3, <4>4, <4>5, <4>6 DEF Blind, Gone, Over
    <3> QED BY <3>1, <3>3, <3>4
  <2>2. CASE r \notin barred
    <3>1. r \in Requests /\ TooLate(r) /\ Traces(r)
      BY <1>0, <1>4, <2>2 DEF Records
    <3>2. /\ pc[r] = "idle" /\ pc'[r] \in {"get", "joined"}
          /\ \E p \in Pods : sid'[r] \in ended[p]
      BY <1>1, <3>1 DEF TooLate
    <3>3. got'[r] # "session"
      BY <3>1, <3>2 DEF Traces, LogoutInv, Loading
    <3>4. PICK s \in Sids : s = sid'[r] /\ Gone(s)
      BY <3>2 DEF LogoutInv
    <3>5. Gone(s)'
      BY <1>0, <3>4, GoneStays
    <3>6. leader'[r] \in Requests /\ Blind(leader[r])'
      <4>1. CASE leader'[r] = r
        <5>1. Blind(r)'
          BY <1>0, <3>1, <3>2, NewcomerBlind
        <5> QED BY <3>1, <4>1, <5>1 DEF Blind
      <4>2. CASE /\ pc'[r] = "joined" /\ leader'[r] # Nobody
                 /\ leader'[r] = hydrating[pod'[r]][sid'[r]]
        <5>1. PICK p \in Pods : p = pod'[r] /\ s \in ended[p]
          BY <1>1, <3>1, <3>4, <4>2 DEF TooLate
        <5>2. PICK l \in Requests : l = leader'[r] /\ l = hydrating[p][s] /\ sid[l] = s
          BY <3>4, <4>2, <5>1, PendingParts
        <5>3. Blind(l)
          BY <4>2, <5>1, <5>2 DEF LogoutInv
        <5>4. Blind(l)'
          BY <1>0, <3>4, <5>2, <5>3, BlindStays
        <5> QED BY <5>2, <5>4 DEF Blind
      <4>3. \/ leader'[r] = r
            \/ /\ pc'[r] = "joined" /\ leader'[r] # Nobody
               /\ leader'[r] = hydrating[pod'[r]][sid'[r]]
        BY <3>1, <3>2, NewcomerLed
      <4> QED BY <4>1, <4>2, <4>3
    <3> QED BY <3>1, <3>2, <3>3, <3>4, <3>5, <3>6 DEF Gone, Over
  <2> QED BY <2>1, <2>2
<1> QED BY <1>2, <1>3, <1>4 DEF LogoutInv

-----------------------------------------------------------------------------
(* The theorems                                                            *)

HistoryInv == EndInv /\ QueueInv /\ DropInv /\ LogoutInv

\* The records change nothing that Sessions specifies.
LEMMA HistoryIsSpec == HistorySpec => Spec
<1>1. HistoryInit => Init
  BY DEF HistoryInit
<1>2. [HistoryNext]_<<vars, history>> => [Next]_vars
  BY StepRecords
<1> QED BY <1>1, <1>2, PTL DEF HistorySpec, Spec

\* To begin with nothing has been ended, and nothing is under way.
LEMMA InitHistory == HistoryInit => QueueInv /\ DropInv /\ LogoutInv
<1> SUFFICES ASSUME HistoryInit PROVE QueueInv /\ DropInv /\ LogoutInv
  OBVIOUS
<1>1. \A p \in Pods : 1..Len(wire[p]) = {}
  <2>1. \A p \in Pods : Len(wire[p]) = 0
    BY EmptySeq DEF HistoryInit, Init
  <2> QED BY <2>1
<1>2. QueueInv
  BY <1>1 DEF QueueInv
<1>3. DropInv
  BY DEF HistoryInit, DropInv
<1>4. LogoutInv
  BY DEF HistoryInit, Init, LogoutInv
<1> QED BY <1>2, <1>3, <1>4

\* The invariants hold throughout.
LEMMA HistoryWell == HistorySpec => []HistoryInv
<1>1. QueueInv /\ DropInv /\ LogoutInv /\ EndInv /\ EndInv'
         /\ [HistoryNext]_<<vars, history>>
      => QueueInv' /\ DropInv' /\ LogoutInv'
  BY StepRecords, QueueKept, DropKept, LogoutKept
<1>2. HistoryInit => QueueInv /\ DropInv /\ LogoutInv
  BY InitHistory
<1>3. EndInv /\ QueueInv /\ DropInv /\ LogoutInv => HistoryInv
  BY DEF HistoryInv
<1> QED BY <1>1, <1>2, <1>3, HistoryIsSpec, EndsWell, PTL DEF HistorySpec

\* Once a logout has been answered, no later request is given the session: on
\* the pod that answered not even by joining a hydration, elsewhere unless it
\* joins one that read the session before the logout.
THEOREM LogoutIsTheEnd == HistorySpec => []LogoutIsFinal
<1>1. HistoryInv => LogoutIsFinal
  BY DEF HistoryInv, LogoutInv, LogoutIsFinal
<1> QED BY <1>1, HistoryWell, PTL

\* A pod that has begun to destroy a session whose token is dead lets nobody
\* in on a validation that the backend answered before.
THEOREM NoOldVerdict == HistorySpec => []NoValidationOutlivesSession
<1>1. HistoryInv => NoValidationOutlivesSession
  BY DEF HistoryInv, DropInv, NoValidationOutlivesSession
<1> QED BY <1>1, HistoryWell, PTL
=============================================================================
