-------------------------- MODULE MCServedSettings --------------------------
(* Instances of ServedSettings for TLC. *)
EXTENDS ServedSettings, TLC

CONSTANTS p1, p2, s1, s2, s3, k1, k2, k3, v1, r1, r2

TwoPods == {p1, p2}
ThreeSids == {s1, s2, s3}

(* These are values of the pages' part alone. *)
Symmetry == Permutations(TwoPods) \union Permutations(ThreeSids)

(* The browsers read the settings, set k1 or delete it, and set k1 and k2  *)
(* together; no request writes k3.                                         *)
MCSendable ==
  {NoUpdates, [NoUpdates EXCEPT ![k1] = v1], [NoUpdates EXCEPT ![k1] = None],
   [NoUpdates EXCEPT ![k1] = None, ![k2] = v1]}
=============================================================================
