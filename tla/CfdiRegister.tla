---------------------------- MODULE CfdiRegister ----------------------------
(***************************************************************************)
(* What the fiscal side of FireISP promises to the tax authority, without  *)
(* workers, leases, calls or retries: a document is issued at most once,   *)
(* after the documents it depends on, and only an issued document is       *)
(* annulled.  FiscalJobs implements it under a refinement mapping.         *)
(***************************************************************************)
EXTENDS Naturals

CONSTANTS
  Documents,
  DependsOn    \* the documents that must exist before each one
VARIABLES issued,    \* how many CFDI exist for each document
          annulled   \* documents annulled by the authority

Init == issued = [d \in Documents |-> 0] /\ annulled = {}

Issue(d) == /\ issued[d] = 0
            /\ \A p \in DependsOn[d] : issued[p] = 1
            /\ issued' = [issued EXCEPT ![d] = 1]
            /\ UNCHANGED annulled

Annul(d) == /\ issued[d] = 1
            /\ annulled' = annulled \cup {d}
            /\ UNCHANGED issued

Next == \E d \in Documents : Issue(d) \/ Annul(d)

Spec == Init /\ [][Next]_<<issued, annulled>>
=============================================================================
