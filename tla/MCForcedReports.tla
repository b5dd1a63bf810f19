------------------------- MODULE MCForcedReports ---------------------------
(* Instances of ForcedReports for TLC. *)
EXTENDS ForcedReports, TLC

CONSTANTS r1, r2, v1

TwoRequests == {r1, r2}
OneVariant == {v1}
AnyAge == {NoLimit}
PagesAndRefreshes == [r \in Requests |-> {"render", "prepare"}]
=============================================================================
