------------------------------ MODULE MCBilling ------------------------------
(* Instances of Billing for TLC. *)
EXTENDS Billing, TLC

CONSTANTS s1, s2

Interchangeable == Permutations(Subscriptions)
=============================================================================
