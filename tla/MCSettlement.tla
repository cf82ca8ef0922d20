---------------------------- MODULE MCSettlement ----------------------------
(* Settlement where no credit is taken back and one build is deployed,     *)
(* every request owned by the one user.                                    *)
EXTENDS Settlement, TLC

OneOwner == [r \in Requests |-> CHOOSE u \in Users : TRUE]

Interchangeable == Permutations(Requests)
=============================================================================
