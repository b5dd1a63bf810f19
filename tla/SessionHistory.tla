--------------------------- MODULE SessionHistory --------------------------
(* Sessions with a record of which sessions have been ended where, for the *)
(* properties of requests that come after the end.                         *)
EXTENDS Sessions

VARIABLES
    ended,      \* per pod: sessions whose logout it has answered
    dropped,    \* per pod: sessions with a dead token it began to destroy
    barred,     \* requests that came too late to find a session
    informed    \* requests that asked for a validation after that

history == <<ended, dropped, barred, informed>>

HistoryInit ==
    /\ Init
    /\ ended = [p \in Pods |-> {}]
    /\ dropped = [p \in Pods |-> {}]
    /\ barred = {}
    /\ informed = {}

LoggedOut(p) ==
    {sid[r] : r \in {q \in Requests :
        /\ pod[q] = p /\ kind[q] = "logout"
        /\ pc[q] = "del" /\ pc'[q] = "answered" /\ reply'[q] = "ok"}}

Destroying(p) ==
    {s \in Sids : \E r \in Requests :
        /\ pod[r] = p /\ sid[r] = s
        /\ pc[r] # "del" /\ pc'[r] = "del" /\ token'[s] = "dead"}

\* Sent to a pod that ended the session, or to any other while none of its
\* hydrations is under way.
TooLate(r) ==
    /\ pc[r] = "idle" /\ pc'[r] \in {"get", "joined"}
    /\ \/ sid'[r] \in ended[pod'[r]]
       \/ /\ pc'[r] = "get"
          /\ \E p \in Pods : sid'[r] \in ended[p]

AsksInformed(r) ==
    /\ pc[r] \in {"hydrated", "probe"}
    /\ pc'[r] \in {"validate", "sharing"}
    /\ sid[r] \in dropped[pod[r]]

HistoryNext ==
    /\ Next
    /\ ended' = [p \in Pods |-> ended[p] \union LoggedOut(p)]
    /\ dropped' = [p \in Pods |-> dropped[p] \union Destroying(p)]
    /\ barred' = barred \union {r \in Requests : TooLate(r)}
    /\ informed' = informed \union {r \in Requests : AsksInformed(r)}

HistorySpec == HistoryInit /\ [][HistoryNext]_<<vars, history>>
-----------------------------------------------------------------------------
\* Once a logout has been answered, no later request is given the session: on
\* the pod that answered not even by joining a hydration, elsewhere unless it
\* joins one that read the session before the logout.
LogoutIsFinal == \A r \in barred : got[r] # "session"

\* A pod that has begun to destroy a session whose token is dead lets nobody
\* in on a validation that the backend answered before.
NoValidationOutlivesSession == \A r \in informed : verdict[r] # "valid"
=============================================================================
