----------------------------- MODULE MCRouterPlan -----------------------------
(* One router: a plan, its rollback and a second plan, with three faults. *)
EXTENDS RouterPlan
=============================================================================
