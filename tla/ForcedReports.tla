--------------------------- MODULE ForcedReports ---------------------------
(***************************************************************************)
(* TemplateReports with two history variables, for what the program itself *)
(* does not record: how many tasks the backend had accepted when a request *)
(* arrived, which says when a served run was submitted, and how long the   *)
(* request has been under way.                                             *)
(***************************************************************************)
EXTENDS TemplateReports

VARIABLES
    accepted,  \* tasks accepted when the request arrived
    since      \* ticks from its arrival to its answer, or to now

HistoryInit ==
    /\ Init
    /\ accepted = [r \in Requests |-> 0]
    /\ since = [r \in Requests |-> 0]

\* Time passes for a request whose call takes longer.
Waits(r) == Busy(r) /\ lag'[r] = lag[r] + 1

HistoryNext ==
    /\ Next
    /\ accepted' = [r \in Requests |->
                       IF pc[r] = "idle" /\ pc'[r] # "idle"
                       THEN Accepted ELSE accepted[r]]
    /\ since' = [r \in Requests |->
                    IF Waits(r) THEN since[r] + 1 ELSE since[r]]

HistorySpec == HistoryInit /\ [][HistoryNext]_<<vars, accepted, since>>

\* "max_age=0 explicitly forces a new run" (README): the run that answers a
\* forced request was submitted after the request arrived.
ForcedRunIsNew ==
    \A r \in Requests :
        result[r] = "ok" /\ want[r].kind # "inspect" /\ want[r].maxAge = 0
            => task[r] > accepted[r]

\* A request is under way no longer than the wait timeout and the calls of
\* one that asks for the lock just before: lock, recheck, the attempt on the
\* run found there (validate, output, forget), its own submission (submit,
\* remember) and the release.  However many runs it joins, tries and drops,
\* and whatever fails, it is answered by then.
AnsweredInTime ==
    \A r \in Requests :
        since[r] < WaitTimeout + 3 * BackendLag + 5 * StoreLag
=============================================================================
