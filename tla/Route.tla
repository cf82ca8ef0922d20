-------------------------------- MODULE Route --------------------------------
(***************************************************************************)
(* The route a request walks: the tier's candidates with the customer's own*)
(* keys substituted, an opted-in fallback twin behind each substituted one *)
(* (router/src/providers.rs), ordered by health and, for a routed model, by*)
(* retention (router/src/api.rs).                                          *)
(***************************************************************************)
EXTENDS Health, Partitions, Sequences, SequencesExt

CONSTANTS
    Definitions,    \* the tier's candidates: [key, provider, zero], in table
                    \* order or, under cost priority, by expected cost
    Attachable,     \* providers a customer may attach an own key for
    OptedIn,        \* those whose key may fall back to the house credential
    HouseKeys,      \* providers the deployment holds its own credential for
    Unable,         \* keys that cannot serve this request (cost priority only)
    Routed          \* is the requested id a unified one

ASSUME DefinitionsAssumption ==
    Definitions \in Seq([key : Keys, provider : STRING, zero : BOOLEAN])

VARIABLES
    attached,       \* providers this customer attached an own key for
    route,          \* rungs in walk order; while ordering, the healthy ones
    sunk,           \* rungs found demoted while ordering
    at              \* position of the rung being looked at

routeVars == <<attached, route, sunk, at>>

\* The rungs of the i-th candidate: on the customer's key, then its twin on
\* the house credential; or on the house credential; or none.
RungsOf(i) ==
    LET d == Definitions[i]
        House == [def |-> i, key |-> d.key, provider |-> d.provider,
                  zero |-> d.zero, byok |-> FALSE, twin |-> FALSE]
    IN  CASE d.provider \in attached /\ d.provider \in OptedIn \cap HouseKeys ->
                <<[House EXCEPT !.byok = TRUE], [House EXCEPT !.twin = TRUE]>>
          [] d.provider \in attached /\ d.provider \notin OptedIn \cap HouseKeys ->
                <<[House EXCEPT !.byok = TRUE]>>
          [] d.provider \notin attached /\ d.provider \in HouseKeys -> <<House>>
          [] OTHER -> <<>>

Built == FlattenSeq([i \in 1..Len(Definitions) |-> RungsOf(i)])

RouteInit ==
    /\ HealthInit
    /\ attached \in SUBSET Attachable
    /\ route = <<>> /\ sunk = <<>> /\ at = 1

Here == route[at]

\* One should_skip of order_candidates; the registry may move between two.
RankOne ==
    /\ at <= Len(Built)
    /\ IF Demoted(Built[at].key)
       THEN sunk' = Append(sunk, Built[at]) /\ UNCHANGED route
       ELSE route' = Append(route, Built[at]) /\ UNCHANGED sunk
    /\ at' = at + 1
    /\ UNCHANGED attached

ByAbility ==
    LET found == route \o sunk
    IN  FirstThose(found, {rung \in Range(found) : rung.key \notin Unable})

\* Mutant: the retention partition is not re-established after the ranking.
OrderedByHealth == ByAbility

\* Demoted rungs sink to the back, those that cannot serve the request behind
\* them; on a routed id a zero-retention rung still precedes every standard one.
Ordered ==
    IF Routed THEN FirstThose(ByAbility, {rung \in Range(ByAbility) : rung.zero})
    ELSE ByAbility

StartWalk ==
    /\ at > Len(Built) /\ Built # <<>>
    /\ route' = Ordered
    /\ sunk' = <<>>
    /\ at' = 1
    /\ UNCHANGED attached

\* The health backstop's floor: a rung is skipped only when the walk has
\* dispatched already or has a position left.
Skippable(dispatched) ==
    Demoted(Here.key) /\ (dispatched \/ at < Len(route))

=============================================================================
