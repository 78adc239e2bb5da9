---------------------------- MODULE MCRetention -----------------------------
EXTENDS Retention, TLC

\* Two policies for tickets, of which the longer decides, and one for the request.
MCTerms == [c \in Categories |-> IF c = "ticket" THEN {1, 2} ELSE {1}]
Interchangeable == Permutations(Tickets)
=============================================================================
