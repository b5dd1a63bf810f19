------------------------------ MODULE MCBrowser -----------------------------
EXTENDS Browser, TLC

CONSTANTS alice, bob, a1, b1, op1, op2, sub1, sub2, leaf1, leaf2, list1, list2,
          item1, item2, backup1, backup2

(* alice sets a1; a page that does not know whose it is sets b1; another device *)
(* of hers removes settings; bob only looks.                                   *)
MCChoosable == (alice :> {a1}) @@ (bob :> {}) @@ (None :> {b1})
MCElsewhere == (alice :> {None}) @@ (bob :> {})
=============================================================================
