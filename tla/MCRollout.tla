----------------------------- MODULE MCRollout -----------------------------
(* The main server's scheduler, two of other nodes and a worker of a node. *)
EXTENDS Rollout
=============================================================================
