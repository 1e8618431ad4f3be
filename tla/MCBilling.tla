------------------------------ MODULE MCBilling ------------------------------
(***************************************************************************)
(* TLC instances of Billing: two turns, which is what a shutdown needs to  *)
(* find one of them being priced and the other being delivered.            *)
(***************************************************************************)
EXTENDS Billing
=============================================================================
