----------------------------- MODULE MCSessions -----------------------------
(* Instances of Sessions for TLC. *)
EXTENDS Sessions, TLC

CONSTANTS p1, p2, q1, q2, q3

OnePod == {p1}
TwoPods == {p1, p2}
TwoRequests == {q1, q2}
ThreeRequests == {q1, q2, q3}

SymmetryTwoPods == Permutations(ThreeRequests) \union Permutations(TwoPods)
SymmetryTwoRequests == Permutations(TwoRequests) \union Permutations(TwoPods)
=============================================================================
