------------------------------- MODULE MCWalk -------------------------------
(* Small catalogs for Walk.                                                *)
EXTENDS Walk

Candidate(k, p, z) == [key |-> k, provider |-> p, zero |-> z]

\* A standard candidate listed ahead of a zero-retention one.
TwoProviders == << Candidate("a", "A", FALSE), Candidate("b", "B", TRUE) >>

OneProvider == << Candidate("a", "A", TRUE) >>

=============================================================================
