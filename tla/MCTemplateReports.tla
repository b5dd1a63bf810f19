------------------------- MODULE MCTemplateReports -------------------------
(* Instances of TemplateReports for TLC. *)
EXTENDS TemplateReports, TLC

CONSTANTS r1, r2, v1

TwoRequests == {r1, r2}
OneVariant == {v1}
AnyAge == {NoLimit}
AgeOne == {1}

Pages == [r \in Requests |-> {"render"}]
PagesAndStatus == [r \in Requests |-> {"render", "inspect"}]
PageAndRefresh == (r1 :> {"render"}) @@ (r2 :> {"prepare"})
=============================================================================
