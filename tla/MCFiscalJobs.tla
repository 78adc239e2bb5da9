---------------------------- MODULE MCFiscalJobs ----------------------------
(* Instances of FiscalJobs for TLC. *)
EXTENDS FiscalJobs, TLC

CONSTANTS D1, D2, D3

\* One income CFDI by itself.
Alone == [d \in {D1} |-> NoDoc]
NonePrior == [d \in Docs |-> {}]

\* An income CFDI and two parcialidades, the second after the first.
Partials == (D1 :> NoDoc) @@ (D2 :> D1) @@ (D3 :> D1)
PartialOrder == (D1 :> {}) @@ (D2 :> {}) @@ (D3 :> {D2})

Interchangeable == Permutations(Jobs) \cup Permutations(Workers)
===============================================================================
