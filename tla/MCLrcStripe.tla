---------------------------- MODULE MCLrcStripe ----------------------------
(***************************************************************************)
(* The stripe for TLC; the configurations choose the code, the clients and *)
(* the bounds.                                                             *)
(***************************************************************************)
EXTENDS StripeIsObject, TLC

ClientSymmetry == Permutations(Clients)
============================================================================
