--------------------------- MODULE ReportRegister ---------------------------
(***************************************************************************)
(* What bookmarkable template reports promise each other (README, "join    *)
(* one generation", "max_age=0 explicitly forces a new run"), without the  *)
(* store's lock, the clocks and the calls that keep it: requests for a     *)
(* report share a register of its latest run.  One request at a time has   *)
(* the right to make a run of a report; it makes at most one, only if no   *)
(* newer run than the one it found can be joined, and never puts an older  *)
(* run in the register.                                                    *)
(***************************************************************************)
EXTENDS Naturals

CONSTANTS Requests, Reports

VARIABLES
    made,     \* how many runs were made; a run is its number
    latest,   \* latest[k]: the run of k in the register
    makers,   \* who has the right to make a run of which report
    request   \* request[r]: what became of it so far

registerVars == <<made, latest, makers, request>>

NoRun == 0

\* A request that has yet to ask, or ended without a report, holds nothing.
Away == [phase |-> "away"]
Failed == [phase |-> "failed"]

Init ==
    /\ made = 0
    /\ latest = [k \in Reports |-> NoRun]
    /\ makers = {}
    /\ request = [r \in Requests |-> Away]

In(r, phase) == request[r].phase = phase
May(r) == <<r, request[r].report>> \in makers
With(r, phase, run) ==
    request' = [request EXCEPT ![r] =
       [phase |-> phase, report |-> @.report, found |-> @.found, run |-> run]]

(* What is in the register is at hand at once, unless a run is forced.     *)
Ask(r, k, forced) ==
    /\ In(r, "away")
    /\ request' = [request EXCEPT ![r] =
       [phase |-> "asking", report |-> k, found |-> latest[k],
        run |-> IF forced THEN NoRun ELSE latest[k]]]
    /\ UNCHANGED <<made, latest, makers>>

Looking(r) == In(r, "asking") /\ request[r].run = NoRun
Joinable(r) == latest[request[r].report] > request[r].found

(* A run that is newer than the one found on arrival is joined.            *)
Join(r) ==
    /\ Looking(r) /\ Joinable(r)
    /\ With(r, "asking", latest[request[r].report])
    /\ UNCHANGED <<made, latest, makers>>

(* The run at hand will not do; the register drops it, and no other.       *)
Dropped(r) ==
    /\ In(r, "asking") /\ request[r].run # NoRun
    /\ latest' = [latest EXCEPT ![request[r].report] =
                     IF @ = request[r].run THEN NoRun ELSE @]
    /\ UNCHANGED made

Drop(r) == Dropped(r) /\ With(r, "asking", NoRun) /\ UNCHANGED makers

(* Nobody else has the right.                                              *)
Enter(r) ==
    /\ Looking(r)
    /\ \A q \in Requests : <<q, request[r].report>> \notin makers
    /\ makers' = makers \union {<<r, request[r].report>>}
    /\ UNCHANGED <<made, latest, request>>

Made(r) ==
    /\ Looking(r) /\ May(r) /\ ~Joinable(r)
    /\ made' = made + 1
    /\ UNCHANGED latest

Make(r) == Made(r) /\ With(r, "made", made + 1) /\ UNCHANGED makers

Published(r) ==
    /\ In(r, "made") /\ May(r)
    /\ request[r].run > latest[request[r].report]
    /\ latest' = [latest EXCEPT ![request[r].report] = request[r].run]
    /\ UNCHANGED made

(* From here on the maker waits for the run it made and for no other.      *)
Publish(r) ==
    Published(r) /\ With(r, "waiting", request[r].run) /\ UNCHANGED makers

Serve(r) ==
    /\ In(r, "asking") \/ In(r, "waiting")
    /\ request[r].run # NoRun
    /\ With(r, "served", request[r].run)
    /\ UNCHANGED <<made, latest, makers>>

Retired(r) == {m \in makers : m[1] # r}

(* A request may fail at any point, after what it was about to do or       *)
(* before it, but a report that was served without the right to make one   *)
(* stays served.                                                           *)
GiveUp(r) ==
    /\ ~In(r, "failed")
    /\ In(r, "served") => May(r)
    /\ request' = [request EXCEPT ![r] = Failed]
    /\ makers' \in {makers, Retired(r)}
    /\ \/ UNCHANGED <<made, latest>>
       \/ Made(r) \/ Published(r) \/ Dropped(r)

(* Who has the right keeps it to its end.                                  *)
Leave(r) ==
    /\ In(r, "served") \/ In(r, "failed")
    /\ makers' = Retired(r)
    /\ UNCHANGED <<made, latest, request>>

(* The register forgets, because of its age or of somebody who saw that    *)
(* the run is gone.                                                        *)
Lose(k) ==
    /\ latest' = [latest EXCEPT ![k] = NoRun]
    /\ UNCHANGED <<made, makers, request>>

(* To look what the register has, for a status, leaves all as it is.       *)
Look == UNCHANGED registerVars

Next ==
    \/ Look
    \/ \E r \in Requests :
          \/ In(r, "away")
             /\ \E k \in Reports, forced \in BOOLEAN : Ask(r, k, forced)
          \/ Join(r) \/ Drop(r) \/ Enter(r) \/ Make(r) \/ Publish(r)
          \/ Serve(r) \/ GiveUp(r) \/ Leave(r)
    \/ \E k \in Reports : Lose(k)

Spec == Init /\ [][Next]_registerVars
=============================================================================
