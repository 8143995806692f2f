-------------------------- MODULE MCDealProducts --------------------------
(***************************************************************************)
(* Small instances of DealProducts for TLC.                                *)
(***************************************************************************)
EXTENDS DealProducts

CONSTANTS v1, v2, c1, c2, l1, l2

FirstThenSecond == <<v1, v2>>
NoneOrOne == {0, 1}
Either == Permutations({c1, c2})
=============================================================================
