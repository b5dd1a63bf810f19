-------------------------- MODULE MCSessionHistory --------------------------
(* Instances of SessionHistory for TLC. *)
EXTENDS SessionHistory, TLC

CONSTANTS p1, p2, q1, q2, q3

TwoPods == {p1, p2}
ThreeRequests == {q1, q2, q3}

SymmetryTwoPods == Permutations(ThreeRequests) \union Permutations(TwoPods)
=============================================================================
