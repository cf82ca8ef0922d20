------------------------------ MODULE Selection ------------------------------
(***************************************************************************)
(* From the route just built for a request to the order it is walked in    *)
(* and the labels its answer carries (router/src/api.rs, from the priority *)
(* carriers of inference to its stream labels; ModelMetadata and           *)
(* RetentionPosture of router/src/config.rs).                              *)
(*                                                                         *)
(* The estimate cache and the health registry belong to the whole process: *)
(* other requests, the refresher and the clock move them between any two   *)
(* reads, so a read answers anything it may.  Walk and StreamWalk hold the *)
(* registry itself; this module holds what an order is made of.            *)
(***************************************************************************)
EXTENDS Integers, Partitions, Sequences, Functions

CONSTANTS
    Lanes,      \* the catalog's candidates: [ids -> lane]
    Routes,     \* routes as they are built: [routed, rungs], a rung being
                \* [id, byok]
    Shapes,     \* what a request is: [size, tools, modalities, stream]
    Medians     \* what a warm cell of the estimator may say

(* A lane is [provider, base, beyond, settlesFree, posture, window, tools, *)
(* modalities]: base and beyond are [input, output] rates, those past each *)
(* threshold in a set.  A window not declared is Undeclared, and tools are *)
(* "yes", "no" or "unknown"; an empty list of modalities does not load, so *)
(* {} is one that is not declared.                                         *)
Undeclared == -1

\* A cell of the estimator with nothing in it; a priority that is not stated.
Cold == -1
Unchosen == "unchosen"

\* What loads declares a window or none, a lane has no posture of the customer's,
\* and the rungs of a route are lanes of the catalog.
ASSUME SelectionAssumption ==
    /\ \A id \in DOMAIN Lanes :
         /\ Lanes[id].window \in Nat \cup {Undeclared}
         /\ Lanes[id].posture # "byok"
    /\ \A tier \in Routes : tier.rungs \in Seq([id : DOMAIN Lanes, byok : BOOLEAN])
    /\ \A shape \in Shapes : shape.size \in Nat

VARIABLES
    request,    \* what is being ordered, or "none" or "refused"
    costs,      \* expected costs of the priced rungs, as far as looked up
    asked,      \* of how many rungs, in the order so far, should_skip was read
    demoted,    \* positions it said to skip
    order,      \* positions of the route, in the order of the walk
    labels      \* what the answer says of itself: at most one label

selectionVars == <<request, costs, asked, demoted, order, labels>>

Priorities == {"cost", "balanced", "success"}

None == [stage |-> "none"]
Refused == [stage |-> "refused"]

SelectionInit ==
    /\ request = None
    /\ costs = <<>> /\ asked = 0 /\ demoted = {} /\ order = <<>> /\ labels = {}

Stage == request.stage
Offered == request.tier.rungs
LaneOf(p) == Lanes[Offered[p].id]
ByCost == request.priority = "cost"

-----------------------------------------------------------------------------
(* Facts of a lane.                                                        *)

\* rates_are_zero: at every prompt size.
RatesAreZero(lane) ==
    \A rates \in {lane.base} \cup lane.beyond : rates.input = 0 /\ rates.output = 0

\* is_free: the price and the provider's declaration.
IsFree(lane) == RatesAreZero(lane) /\ lane.settlesFree

\* can_serve: only what is declared can exclude.
CanServe(lane, shape) ==
    /\ lane.window # Undeclared => shape.size <= lane.window
    /\ shape.tools => lane.tools # "no"
    /\ lane.modalities # {} => shape.modalities \subseteq lane.modalities

\* ordering_rank
OrderingRank(posture) == IF posture = "zero" THEN 0 ELSE 1

\* expected_cost_basis: bytes at the input rate, at base rates.
ExpectedCostBasis(lane, size, output) ==
    size * lane.base.input + output * lane.base.output

\* narrowed: what a tier advertises binds every lane of it, and one lane that
\* does not declare leaves the tier undeclared.
Narrowed(lanes) ==
    LET all == Range(lanes)
        windows == {l.window : l \in all}
    IN
    [window |-> IF Undeclared \in windows THEN Undeclared
                ELSE CHOOSE w \in windows : \A v \in windows : w <= v,
     tools |-> IF \E l \in all : l.tools = "unknown" THEN "unknown"
               ELSE IF \E l \in all : l.tools = "no" THEN "no" ELSE "yes",
     declares |-> \A l \in all : l.modalities # {},
     modalities |-> {m \in UNION {l.modalities : l \in all} :
                        \A l \in all : m \in l.modalities}]

-----------------------------------------------------------------------------
(* A request and its priority.                                             *)

\* The typed option, then the suffix of the model's name, then the key's default.
Resolution(typed, suffix, default) ==
    IF typed # Unchosen THEN typed
    ELSE IF suffix # Unchosen THEN suffix
    ELSE IF default # Unchosen THEN default
    ELSE "balanced"

Conflict(typed, suffix) == typed # Unchosen /\ suffix # Unchosen /\ typed # suffix

\* The segment's own cell is read once, long before the candidates' cells.
Cells == Medians \cup {Cold}

Receive ==
    /\ Stage = "none"
    /\ \E typed, suffix, default \in Priorities \cup {Unchosen} :
         \/ Conflict(typed, suffix) /\ request' = Refused
         \/ /\ ~Conflict(typed, suffix)
            /\ \E tier \in Routes, shape \in Shapes, shared \in Cells :
                 request' = [stage |-> "pricing", tier |-> tier, shape |-> shape,
                             shared |-> shared,
                             priority |-> Resolution(typed, suffix, default)]
    /\ UNCHANGED <<costs, asked, demoted, order, labels>>

-----------------------------------------------------------------------------
(* Its order.                                                              *)

Places == [p \in DOMAIN Offered |-> p]

FreeOnes == {p \in DOMAIN Offered : IsFree(LaneOf(p))}
Priced == Among(Places, DOMAIN Offered \ FreeOnes)

\* One lookup of order_priced_by_expected_cost: the rung's own cell, else the
\* segment's, else nothing is known of the rung.
PriceOne ==
    /\ Stage = "pricing" /\ ByCost /\ Len(costs) < Len(Priced)
    /\ \E own \in Cells :
         LET lane == LaneOf(Priced[Len(costs) + 1])
             median == IF own # Cold THEN own ELSE request.shared
         IN  costs' = Append(costs,
                IF median = Cold THEN Cold
                ELSE ExpectedCostBasis(lane, request.shape.size, median))
    /\ UNCHANGED <<request, asked, demoted, order, labels>>

\* Ascending, and equal costs keep the table's order.
Cheaper(m, n) == costs[m] < costs[n] \/ (costs[m] = costs[n] /\ m < n)

\* The priced positions in that order.
Ascending ==
    {by \in [DOMAIN Priced -> DOMAIN Priced] :
        /\ Range(by) = DOMAIN Priced
        /\ \A m, n \in DOMAIN Priced : m < n => Cheaper(by[m], by[n])}

\* $0 rungs ahead of the estimator and of its whole-route cold fallback.
FreeFirst(priced) == Among(Places, FreeOnes) \o priced

\* order_by_expected_cost, or the table as it stands.
Sort ==
    /\ Stage = "pricing" /\ (ByCost => Len(costs) = Len(Priced))
    /\ \/ ~ByCost /\ order' = Places
       \/ ByCost /\ Cold \in Range(costs) /\ order' = FreeFirst(Priced)
       \/ /\ ByCost /\ Cold \notin Range(costs)
          /\ \E by \in Ascending : order' = FreeFirst([n \in DOMAIN Priced |-> Priced[by[n]]])
    /\ request' = [request EXCEPT !.stage = "ranking"]
    /\ UNCHANGED <<costs, asked, demoted, labels>>

\* One should_skip, in the order found so far.
AskHealth ==
    /\ Stage = "ranking" /\ asked < Len(order)
    /\ asked' = asked + 1
    /\ \/ demoted' = demoted \cup {order[asked + 1]}
       \/ UNCHANGED demoted
    /\ UNCHANGED <<request, costs, order, labels>>

Healthy == DOMAIN Offered \ demoted
Able == {p \in DOMAIN Offered : CanServe(LaneOf(p), request.shape)}
Unretained == {p \in DOMAIN Offered : OrderingRank(LaneOf(p).posture) = 0}

\* Health, then under cost what can take the request, then for a routed id
\* retention, which is the primary key.
Arranged ==
    LET healthy == FirstThose(order, Healthy)
        eligible == IF ByCost THEN FirstThose(healthy, Able) ELSE healthy
    IN  IF request.tier.routed THEN FirstThose(eligible, Unretained) ELSE eligible

-----------------------------------------------------------------------------
(* Its labels.                                                             *)

\* transparency_labels: on the customer's key the house says nothing of retention.
LabelOf(p) ==
    [provider |-> LaneOf(p).provider, byok |-> Offered[p].byok,
     retention |-> IF Offered[p].byok THEN "byok" ELSE LaneOf(p).posture]

\* unanimous_transparency
Unanimous(positions) ==
    IF \A p \in Range(positions) : LabelOf(p) = LabelOf(positions[1])
    THEN {LabelOf(positions[1])} ELSE {}

\* The end of order_candidates and the head of a stream, which is written before
\* any rung is called.
Arrange ==
    /\ Stage = "ranking" /\ asked = Len(order)
    /\ order' = Arranged
    /\ labels' = IF request.shape.stream THEN Unanimous(Arranged) ELSE {}
    /\ request' = [request EXCEPT !.stage = "ordered"]
    /\ UNCHANGED <<costs, asked, demoted>>

\* Some rung answers, on its key or on the house's; only a buffered answer still
\* has a head to write.
Answer ==
    /\ Stage = "ordered"
    /\ \E p \in Range(order) :
         /\ labels' = IF request.shape.stream THEN labels ELSE {LabelOf(p)}
         /\ request' = [stage |-> "answered", tier |-> request.tier,
                        shape |-> request.shape, by |-> p]
    /\ UNCHANGED <<costs, asked, demoted, order>>

SelectionNext == Receive \/ PriceOne \/ Sort \/ AskHealth \/ Arrange \/ Answer

SelectionSpec == SelectionInit /\ [][SelectionNext]_selectionVars

-----------------------------------------------------------------------------
(* Properties.                                                             *)

\* The columns an order is read by, the most significant first, as the documents
\* of order_candidates and partition_route_by_retention rank them.
Column(p) ==
    LET Bit(holds) == IF holds THEN 0 ELSE 1
    IN  << Bit(request.tier.routed => LaneOf(p).posture = "zero"),
           Bit(ByCost => CanServe(LaneOf(p), request.shape)),
           Bit(p \notin demoted),
           Bit(ByCost => IsFree(LaneOf(p))),
           IF ByCost /\ ~IsFree(LaneOf(p)) /\ Cold \notin Range(costs)
             THEN costs[AntiFunction(Priced)[p]] ELSE 0,
           p >>

Precedes(a, b) ==
    \E n \in DOMAIN a : a[n] < b[n] /\ \A m \in 1..(n - 1) : a[m] = b[m]

\* However the passes of the code interleave, every rung is walked once and they
\* are ranked by retention, ability, health as read, no cost, expected cost as
\* read and the table, in that order; a route one of whose priced rungs has no
\* estimate loses the expected cost alone, and a request that did not ask for
\* cost neither price nor ability (order_candidates, order_by_expected_cost).
OrderedAsRead ==
    Stage = "ordered" =>
        /\ Len(order) = Len(Offered) /\ Range(order) = DOMAIN Offered
        /\ \A i, j \in DOMAIN order : i < j => Precedes(Column(order[i]), Column(order[j]))

\* What an answer says of itself is true of the rung that gives it, and of one on
\* the customer's own key it repeats none of the house's guarantees
\* (unanimous_transparency, transparency_labels).
LabelledAsServed ==
    Stage = "answered" =>
        \A label \in labels :
            /\ label.provider = LaneOf(request.by).provider
            /\ label.byok = Offered[request.by].byok
            /\ label.retention # "byok" => LaneOf(request.by).posture = label.retention
            /\ label.retention = "byok" <=> Offered[request.by].byok

\* A request within all a tier advertises meets no lane that declares it cannot
\* take it (narrowed, can_serve).
AdvertisedIsServable ==
    Stage = "ordered" =>
        LET told == Narrowed([p \in DOMAIN Offered |-> LaneOf(p)])
            within == /\ told.window # Undeclared /\ request.shape.size <= told.window
                      /\ request.shape.tools => told.tools = "yes"
                      /\ told.declares /\ request.shape.modalities \subseteq told.modalities
        IN  within => \A p \in DOMAIN Offered : CanServe(LaneOf(p), request.shape)
=============================================================================
