------------------------------ MODULE MCOutbox ------------------------------
(***************************************************************************)
(* Small instances of Outbox for TLC.                                      *)
(***************************************************************************)
EXTENDS Outbox, TLC

CONSTANTS j1, j2, ann, bob

Alike == Permutations({j1, j2}) \cup Permutations({ann, bob})
=============================================================================
