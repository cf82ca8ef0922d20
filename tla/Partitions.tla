----------------------------- MODULE Partitions -----------------------------
(***************************************************************************)
(* The stable partitions a route is ordered by (order_candidates and       *)
(* partition_route_by_retention, router/src/api.rs).                       *)
(***************************************************************************)
EXTENDS Naturals, Sequences, Functions

\* What of a sequence is in S, in its order.
Among(s, S) ==
    LET kept[i \in 0..Len(s)] ==
            IF i = 0 THEN <<>>
            ELSE IF s[i] \in S THEN Append(kept[i - 1], s[i])
            ELSE kept[i - 1]
    IN  kept[Len(s)]

\* A stable partition: what is in S, then what is not.
FirstThose(s, S) == Among(s, S) \o Among(s, Range(s) \ S)
=============================================================================
