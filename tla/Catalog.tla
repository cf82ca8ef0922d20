------------------------------ MODULE Catalog ------------------------------
(***************************************************************************)
(* From the tier file to the bill: what of a file is served at all         *)
(* (load_tier_catalog), which lanes a model id stands for, what a request  *)
(* holds and what it is charged.  The file is read again by every request, *)
(* so a deployment may replace it at any time; a request keeps the route   *)
(* it resolved.                                                            *)
(*                                                                         *)
(* The order of the lanes, health and retries are Route's and Walk's, the  *)
(* customer's own keys and the gates on the money Admission's.  Here any   *)
(* lane of the route may serve, on the house's credential.                 *)
(***************************************************************************)
EXTENDS Pricing, FiniteSets

CONSTANTS
    Files,           \* what tiers.toml may say, see IsFile
    Reserved,        \* tier ids of the zero/ namespace, which no lane may bear
    SettlesFree,     \* providers whose inventory entry bills nobody
    CarriesMarks,    \* providers dispatched on the Messages dialect
    Bounds,          \* the byte bound of a prompt and the max_tokens it asks for
    Reports,         \* what an upstream may report of a request
    Unstated         \* no override, no posture, no bare model name

\* A lane (TierCandidate): its id, who serves it, the model name without its
\* provider's prefix (Unstated when the id is no provider/model pair), what it
\* costs, and whether it declares that it takes images (Unstated: says nothing).
IsLane(lane) == IsSchedule(lane.basis)

\* A file: its tiers by id, and the posture of each provider it has pinned.
IsFile(f) ==
    /\ \A t \in DOMAIN f.tiers :
        /\ IsSchedule(f.tiers[t].sells)
        /\ IsFiniteSet(f.tiers[t].lanes)
        /\ \A lane \in f.tiers[t].lanes : IsLane(lane)
        /\ f.tiers[t].posture \in {"zero", "standard", Unstated}
    /\ \A p \in DOMAIN f.postures : f.postures[p] \in {"zero", "standard"}

ASSUME FilesAssumption == \A f \in Files : IsFile(f)
ASSUME BoundsAssumption == \A b \in Bounds : b.prompt \in Nat /\ b.output \in Nat
ASSUME ReportsAssumption == \A u \in Reports : IsUsage(u)

VARIABLES
    file,      \* the tier file as it is on the disk
    request    \* one request, and the catalog it was answered from

catalogVars == <<file, request>>

-----------------------------------------------------------------------------
(* Loading.                                                                *)

LanesOf(f) == UNION {f.tiers[t].lanes : t \in DOMAIN f.tiers}

\* candidate_retention: the tier's own statement before its provider's.
PostureOf(f, t, lane) ==
    IF f.tiers[t].posture # Unstated THEN f.tiers[t].posture
    ELSE IF lane.provider \in DOMAIN f.postures THEN f.postures[lane.provider]
    ELSE Unstated

\* validate_zero_price: given away in any band.
GivenAway(lane) ==
    \E t \in DOMAIN lane.basis : \A d \in Required : lane.basis[t][d] = 0

\* What refuses a whole file (validate_tier_catalog): a tier named like neither
\* an alias nor a lane of its own, a tier without lanes, an id twice, a lane
\* nobody labelled, a lane given away by a provider that bills, cache writes
\* priced where no breakpoint travels.
Sound(f) ==
    /\ \A t \in DOMAIN f.tiers :
        /\ t \in Reserved \/ \E lane \in f.tiers[t].lanes : lane.id = t
        /\ f.tiers[t].lanes # {}
        /\ \A lane \in f.tiers[t].lanes :
            /\ lane.id \notin Reserved
            /\ PostureOf(f, t, lane) # Unstated
            /\ GivenAway(lane) => lane.provider \in SettlesFree
            /\ lane.basis[0]["written"] # Absent => lane.provider \in CarriesMarks
    /\ \A s, t \in DOMAIN f.tiers : \A a \in f.tiers[s].lanes, b \in f.tiers[t].lanes :
           a.id = b.id => s = t /\ a = b

\* A tier that would lose money on some lane is withheld, the rest served.
Solvent(tier) ==
    \A lane \in tier.lanes :
        /\ Covers(tier.sells, lane.basis)
        /\ CacheIsDiscount(lane.basis) /\ CacheIsDiscount(tier.sells)

Served(f) == {t \in DOMAIN f.tiers : Solvent(f.tiers[t])}

\* load_tier_catalog answers with a catalog; a file of which nothing can be
\* served fails with the margin error.
Loads(f) == Sound(f) /\ (Served(f) # {} \/ DOMAIN f.tiers = {})

-----------------------------------------------------------------------------
(* Which lanes an id stands for.                                           *)

NoRoute == [lanes |-> {}]

RouteTo(f, t, lanes) ==
    [lanes |-> lanes, sells |-> f.tiers[t].sells, routed |-> FALSE,
     posture |-> [lane \in lanes |-> PostureOf(f, t, lane)]]

\* TierCatalog::resolve: the tier of that id, else the one lane of that id, at
\* the price of the tier that owns it.
Pinned(f, id) ==
    LET owners == {t \in Served(f) : \E lane \in f.tiers[t].lanes : lane.id = id}
    IN  IF id \in Served(f) THEN RouteTo(f, id, f.tiers[id].lanes)
        ELSE IF owners = {} THEN NoRoute
        ELSE LET t == CHOOSE t \in owners : TRUE
             IN  RouteTo(f, t, {lane \in f.tiers[t].lanes : lane.id = id})

\* The served lanes of one model, over every tier.
Members(f, bare) ==
    {m \in Served(f) \X LanesOf(f) :
        m[2] \in f.tiers[m[1]].lanes /\ m[2].bare = bare}

\* Mutant: one member's schedule for all of them.
FirstPrice(f, bare) ==
    LET m == CHOOSE m \in Members(f, bare) : TRUE IN f.tiers[m[1]].sells

\* What the lanes of one model sell at together.
UnifiedPrice(f, bare) == DearestAcross({f.tiers[m[1]].sells : m \in Members(f, bare)})

\* synthesize_unified: a model several providers serve at schedules with the
\* same thresholds is one id, at the dearest of their prices.
Unified(f, bare) ==
    LET members == Members(f, bare)
        lanes == {m[2] : m \in members}
    IN  IF /\ bare # Unstated /\ bare \notin Served(f)
           /\ Cardinality({lane.provider : lane \in lanes}) > 1
           /\ SameBands({f.tiers[m[1]].sells : m \in members})
          THEN [lanes |-> lanes, sells |-> UnifiedPrice(f, bare), routed |-> TRUE,
                posture |-> [lane \in lanes |->
                    PostureOf(f, (CHOOSE m \in members : m[2] = lane)[1], lane)]]
          ELSE NoRoute

\* resolve_model: a pin before a model, and models only where switched on.
RouteOf(f, id, unifies) ==
    IF Pinned(f, id) # NoRoute THEN Pinned(f, id)
    ELSE IF unifies THEN Unified(f, id) ELSE NoRoute

Ids(f) ==
    DOMAIN f.tiers \cup {lane.id : lane \in LanesOf(f)}
    \cup {lane.bare : lane \in LanesOf(f)}

-----------------------------------------------------------------------------
(* What is published (/v1/models).                                         *)

Weakest(postures) == IF "standard" \in postures THEN "standard" ELSE "zero"

\* Mutant: a lane is listed at its own cost.
ListedAtCost(f, id, able) ==
    LET t == CHOOSE t \in Served(f) : \E lane \in f.tiers[t].lanes : lane.id = id
        lane == CHOOSE lane \in f.tiers[t].lanes : lane.id = id
    IN  [sells |-> lane.basis, posture |-> PostureOf(f, t, lane)]

\* model_listing, the row of an alias: what can be reached of its tier, at the
\* weakest posture of it.
AliasRow(f, t, able) ==
    [sells |-> f.tiers[t].sells,
     posture |-> Weakest({PostureOf(f, t, lane) :
                     lane \in {l \in f.tiers[t].lanes : l.provider \in able}})]

\* The row of a lane, also of one whose tier bears its name.
LaneRow(f, id, able) ==
    LET t == CHOOSE t \in Served(f) : \E lane \in f.tiers[t].lanes : lane.id = id
        lane == CHOOSE lane \in f.tiers[t].lanes : lane.id = id
    IN  [sells |-> f.tiers[t].sells, posture |-> PostureOf(f, t, lane)]

Listed(f, able) ==
    {lane.id : lane \in {l \in LanesOf(f) : /\ l.provider \in able
                             /\ \E t \in Served(f) : l \in f.tiers[t].lanes}}
Aliases(f, able) ==
    {t \in Served(f) : /\ \E lane \in f.tiers[t].lanes : lane.provider \in able
                       /\ \A lane \in f.tiers[t].lanes : lane.id # t}

-----------------------------------------------------------------------------
(* A request.                                                              *)

NewRequest == [phase |-> "new"]

CatalogInit == file \in Files /\ request = NewRequest

\* The deployment writes another file.
Deploy(f) == f # file /\ file' = f /\ UNCHANGED request

\* unservable_modality and unservable_prompt_caching: no lane can take it.
\* An image narrows nothing, a breakpoint leaves the lanes that sell caching.
Takes(lane, image) == image => lane.images # FALSE
AfterGates(route, asks) ==
    IF \A lane \in route.lanes : ~Takes(lane, asks.image) THEN {}
    ELSE {lane \in route.lanes : asks.marked => PricesWrites(lane.basis)}

\* The retention switch, which governs routed ids only.
Eligible(route, asks) ==
    {lane \in AfterGates(route, asks) :
        route.routed /\ asks.zdr => route.posture[lane] = "zero"}

\* free_lane_admissible: sold for nothing, over lanes that cost nothing.
Unmetered(route, built) ==
    /\ IsFree(route.sells)
    /\ \A lane \in built : IsFree(lane.basis) /\ lane.provider \in SettlesFree

Asks == [image : BOOLEAN, marked : BOOLEAN, zdr : BOOLEAN, unifies : BOOLEAN]

\* The request path from the load to admission.  `able` holds the providers this
\* deployment has a credential for: a lane of another is not built.
Take(id, asks, able, b) ==
    LET route == RouteOf(file, id, asks.unifies)
        built == {lane \in Eligible(route, asks) : lane.provider \in able}
    IN  /\ request.phase = "new"
        /\ Loads(file)
        /\ route # NoRoute
        /\ built # {}
        /\ request' =
             [phase |-> "open", from |-> file, route |-> route, built |-> built,
              bound |-> b, metered |-> ~Unmetered(route, built),
              held |-> Cost(ReservationRates(route.sells), BoundOf(b.prompt, b.output))]
        /\ UNCHANGED file

\* Everything that ends a request before it holds anything: no catalog, no such
\* model, a gate, no credential.
TurnAway(id, asks, able) ==
    LET route == RouteOf(file, id, asks.unifies)
    IN  /\ request.phase = "new"
        /\ \/ ~Loads(file)
           \/ route = NoRoute
           \/ \A lane \in Eligible(route, asks) : lane.provider \notin able
        /\ request' = [phase |-> "refused"]
        /\ UNCHANGED file

\* What a reservation is sized to hold: no more than it asked for, whatever the
\* report says of the cache.
FitsIn(u, b) == u.prompt <= b.prompt /\ u.output <= b.output

\* persist_usage: the band the measured prompt landed in.
Billed(route, u) == Cost(At(route.sells, u.prompt), u)
SpentOn(lane, u) == Cost(At(lane.basis, u.prompt), u)

\* A lane of the route served.  A free route writes no row.
Bill(lane, u) ==
    /\ request.phase = "open"
    /\ lane \in request.built
    /\ FitsIn(u, request.bound)
    /\ request' =
         [phase |-> "billed", from |-> request.from, route |-> request.route,
          lane |-> lane, usage |-> u, metered |-> request.metered,
          held |-> request.held,
          charged |-> IF request.metered THEN Billed(request.route, u) ELSE 0,
          spent |-> SpentOn(lane, u)]
    /\ UNCHANGED file

CatalogNext ==
    \/ \E f \in Files : Deploy(f)
    \/ \E id \in Ids(file), asks \in Asks, able \in SUBSET {l.provider : l \in LanesOf(file)} :
         \/ TurnAway(id, asks, able)
         \/ \E b \in Bounds : Take(id, asks, able, b)
    \/ \E u \in Reports :
         request.phase = "open" /\ \E lane \in request.built : Bill(lane, u)

CatalogSpec == CatalogInit /\ [][CatalogNext]_catalogVars

-----------------------------------------------------------------------------
(* Properties.                                                             *)

\* A settlement never costs more than its request holds: the debit is clamped to
\* what was reserved, so anything above would be delivered and never charged
\* (sized_reservation).  Whatever the band, the cache split, the file meanwhile.
ReservationCovers ==
    request.phase = "billed" /\ request.metered => request.charged <= request.held

\* No lane is ever sold below what it costs, in any band, at any cache split,
\* whichever lane served, metered or not, and an unmetered request would not
\* have been charged anything (validate_candidate_margin, free_lane_admissible).
NeverBelowCost ==
    request.phase = "billed" =>
        /\ request.spent <= request.charged
        /\ ~request.metered => Billed(request.route, request.usage) = 0

\* A model asked for by its bare name is never cheaper than the same lane asked
\* for by its own id (synthesize_unified).
NeverUndercutsPin ==
    request.phase = "billed" /\ request.route.routed =>
        request.charged >= Billed(Pinned(request.from, request.lane.id), request.usage)

\* A row of /v1/models says what a request for its id gets: it resolves, at the
\* price published, and no lane it may land on retains more than published
\* (model_listing).  A tier named like one of several lanes of its own is left
\* out: its row is that one lane's.
ListingHonest ==
    Loads(file) =>
        \A able \in SUBSET {lane.provider : lane \in LanesOf(file)} :
            \A id \in Listed(file, able) \cup Aliases(file, able) :
                LET row == IF id \in Aliases(file, able) THEN AliasRow(file, id, able)
                           ELSE LaneRow(file, id, able)
                    route == RouteOf(file, id, TRUE)
                    built == {lane \in route.lanes : lane.provider \in able}
                IN  /\ built # {}
                    /\ row.sells = route.sells
                    /\ id \in Aliases(file, able) \/ Cardinality(route.lanes) = 1 =>
                         \A lane \in built :
                             row.posture = "zero" => route.posture[lane] = "zero"
=============================================================================
