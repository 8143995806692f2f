-------------------------- MODULE MCAutomationRules --------------------------
(***************************************************************************)
(* A small instance of AutomationRules for TLC: one instance takes events, *)
(* two sweep, and those two are interchangeable.                           *)
(***************************************************************************)
EXTENDS AutomationRules, TLC

CONSTANTS i1, i2, i3

SweepersAlike == Permutations({i2, i3})
=============================================================================
