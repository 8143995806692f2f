-------------------------- MODULE MCOutboundSend --------------------------
(***************************************************************************)
(* Small instances of OutboundSend for TLC.                                *)
(***************************************************************************)
EXTENDS OutboundSend, TLC

CONSTANTS w1, w2, a, b

Alike == Permutations({w1, w2}) \cup Permutations({a, b})
===========================================================================
