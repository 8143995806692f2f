------------------------- MODULE MCStripePayments -------------------------
(***************************************************************************)
(* Small instances of StripePayments for TLC.                              *)
(***************************************************************************)
EXTENDS StripePayments
===========================================================================
