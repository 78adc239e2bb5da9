--------------------------- MODULE MCNodeExecutor ---------------------------
(* Instances of NodeExecutor for TLC. *)
EXTENDS NodeExecutor, TLC

CONSTANTS J1, J2, J3, R1

\* Three jobs of one router, the second a verification of the first.
OneRouter == (J1 :> R1) @@ (J2 :> R1) @@ (J3 :> R1)
SecondVerifies == (J1 :> NoJob) @@ (J2 :> J1) @@ (J3 :> NoJob)

=============================================================================
