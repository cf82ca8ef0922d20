------------------------------ MODULE MCAccess ------------------------------
(* Who may spend, and at what price: the admission of requests, the catalog *)
(* they are priced from and the upkeep of its file, the row that says what  *)
(* they cost, the minting and revoking of keys, the authenticator's cache, portal sign-in and the      *)
(* exchanged credentials of a lane, one of them per behaviour: they share   *)
(* no state here, and what a behaviour does not run stays where it started. *)
EXTENDS Admission, Upkeep, Attempts, SignIn, Keys, Credentials, TLC

CONSTANTS
    r1, r2,         \* requests
    k1, k2,         \* keys
    p1, p2,         \* what comes in pairs: mints, lookups, callbacks
    u1, g1,         \* a user, a device grant
    None,
    Components      \* the components a run is about

VARIABLE component

-----------------------------------------------------------------------------

Sum(price, tokens) == [price |-> price, tokens |-> tokens]

\* Two requests of one user over two keys: some of 40 that learned sizing may
\* hold at 20, some as large that it may not shrink, some free.
MixedShapes ==
    {[key |-> k1, free |-> FALSE, full |-> Sum(40, 4), learned |-> Sum(20, 2)],
     [key |-> k2, free |-> FALSE, full |-> Sum(40, 4), learned |-> Unsized],
     [key |-> k2, free |-> TRUE, full |-> Sum(0, 2), learned |-> Unsized]}
Caps == (k1 :> 50) @@ (k2 :> 100)
Speeds == (k1 :> 8) @@ (k2 :> 10)
SomeLimits == {Unlimited, [amount |-> 60, window |-> "daily"]}

-----------------------------------------------------------------------------
(* Tier files.  The local provider L settles free, A carries cache marks.  *)

Table(input, output, cached, written) ==
    [input |-> input, output |-> output, cached |-> cached, written |-> written]
Flat(table) == 0 :> table
Repriced(table, from, above) == (0 :> table) @@ (from :> above)

Lane(id, provider, bare, basis) ==
    [id |-> id, provider |-> provider, bare |-> bare, basis |-> basis,
     images |-> IF provider = "B" THEN FALSE ELSE Unstated]
Tier(sells, lanes) == [sells |-> sells, lanes |-> lanes, posture |-> Unstated]
TierFile(tiers) ==
    [tiers |-> tiers, postures |-> [A |-> "zero", B |-> "standard", L |-> "zero"]]

Gratis == Flat(Table(0, 0, Absent, Absent))
Plain == Flat(Table(2, 3, Absent, Absent))
Other == Flat(Table(3, 2, Absent, Absent))
Caching == Flat(Table(2, 3, 1, 3))
Climbs == Repriced(Table(2, 3, 1, 3), 2, Table(4, 4, 2, 5))
ClimbsToo == Repriced(Table(1, 4, Absent, Absent), 2, Table(3, 6, Absent, Absent))
ClimbsLate == Repriced(Table(2, 3, Absent, Absent), 3, Table(4, 5, Absent, Absent))

\* One model at two providers at two prices, one of which sells caching.
Twins == TierFile(("a/m" :> Tier(Caching, {Lane("a/m", "A", "m", Caching)}))
               @@ ("b/m" :> Tier(Other, {Lane("b/m", "B", "m", Other)})))
\* Two tiers that reprice at one size, over a lane that never does.
Banded == TierFile(("a/m" :> Tier(Climbs, {Lane("a/m", "A", "m", Climbs)}))
                @@ ("b/m" :> Tier(ClimbsToo, {Lane("b/m", "B", "m", Flat(Table(1, 4, Absent, Absent)))}))
                @@ ("b/n" :> Tier(Plain, {Lane("b/n", "B", "n", Plain)})))
\* A free local lane beside a hosted one, an alias that sells for nothing.
Edge == TierFile(("zero/burst" :> Tier(ClimbsLate, {Lane("l/m", "L", "m", Gratis),
                                                    Lane("b/m", "B", "m", Plain)}))
              @@ ("zero/home" :> Tier(Gratis, {Lane("l/n", "L", "n", Gratis)})))
\* A lane that reprices where its tier does not, beside a sound tier.
Losing == TierFile(("a/m" :> Tier(Plain, {Lane("a/m", "A", "m", Plain),
                                          Lane("b/m", "B", "m", ClimbsLate)}))
                @@ ("a/n" :> Tier(Plain, {Lane("a/n", "A", "n", Plain)})))
\* Nothing of it solvent; a lane without a posture.
Ruined == TierFile("b/m" :> Tier(Plain, {Lane("b/m", "B", "m", Climbs)}))
Unlabelled == [Twins EXCEPT !.postures = [A |-> "zero"]]

TierFiles == {Twins, Banded, Edge, Losing, Ruined, Unlabelled}
Asked == {[prompt |-> 3, output |-> 2]}
\* Reports that add up and reports that do not, in and between the bands.
UpstreamReports ==
    [prompt : {0, 1, 3}, output : {0, 2}, cached : {0, 2}, written : {0, 5}]

-----------------------------------------------------------------------------
(* The upkeep of a tier file with two providers: A, which the public catalog *)
(* files under a key of its own, and B, which it does not price.             *)

Low == Table(2, 3, 1, 3)
High == Table(4, 4, 2, 5)
Above(size, kind) == <<[kind |-> kind, size |-> size, rates |-> High]>>
Entry(tiers, takes) ==
    [priced |-> TRUE, base |-> Low, tiers |-> tiers, chat |-> TRUE,
     released |-> "old", window |-> 8, takes |-> takes]
Publishes(listing) == [key \in {"a-ai"} |-> listing]
Catalogs ==
    {Publishes(("m" :> Entry(<<>>, {"text"})) @@ ("n" :> Entry(<<>>, {"text", "image"}))),
     Publishes("m" :> Entry(Above(2, "context"), {"text", "image"})),
     Publishes("m" :> Entry(Above(3, "context"), {"text", "image"})),
     ("a-ai" :> ("v/m" :> Entry(Above(2, "output"), {})))
         @@ ("b-cloud" :> ("n" :> [Entry(<<>>, {}) EXCEPT !.priced = FALSE])),
     <<>>}
Second(from, timed) == "m" :> [priced |-> TRUE, overrides |-> <<[from |-> from, timed |-> timed]>>]
SecondCatalogs == {Second(2, FALSE), Second(2, TRUE)}

PageAt(passage, rest, anchors) ==
    [passage |-> passage, rest |-> rest, anchors |-> anchors, reachable |-> TRUE,
     account |-> "none"]
CitedPages ==
    {PageAt(0, 0, 1), PageAt(0, 1, 1), PageAt(1, 0, 1), PageAt(0, 0, 2),
     [PageAt(0, 0, 1) EXCEPT !.account = "default"],
     [PageAt(0, 0, 1) EXCEPT !.reachable = FALSE]}

Band(from, rates) == [from |-> from, rates |-> rates]
Sheet(base, bands) ==
    [base |-> base, bands |-> bands, traced |-> TRUE, window |-> 8, takes |-> {"text", "image"}]
Sheets ==
    {Sheet(Low, <<>>), Sheet(Low, <<Band(2, High), Band(Absent, Low)>>),
     Sheet(Low, <<Band(3, High), Band(2, High)>>),
     Sheet(Low, <<Band(2, Table(Absent, 4, Absent, Absent))>>),
     Sheet(Table(Absent, 3, 1, 3), <<>>), Sheet(Table(0, 0, Absent, Absent), <<>>),
     [Sheet(Low, <<>>) EXCEPT !.traced = FALSE]}
Reaches(kind) ==
    [kind |-> kind, posture |-> "zero", covers |-> TRUE, attested |-> TRUE, traced |-> TRUE,
     usable |-> TRUE, anchored |-> TRUE, document |-> TRUE]
Bases ==
    {Absent} \cup UNION {
        {Reaches(k), [Reaches(k) EXCEPT !.document = FALSE], [Reaches(k) EXCEPT !.anchored = FALSE],
         [Reaches(k) EXCEPT !.posture = "standard"], [Reaches(k) EXCEPT !.covers = FALSE],
         [Reaches(k) EXCEPT !.attested = FALSE], [Reaches(k) EXCEPT !.traced = FALSE],
         [Reaches(k) EXCEPT !.usable = FALSE]} : k \in {"enforced", "published-default"}}
Receipts ==
    {Absent} \cup {[usable |-> u, anchored |-> TRUE, document |-> TRUE] : u \in BOOLEAN}
Dossier(p, m, prices, basis, receipt, open) ==
    [provider |-> p, model |-> m, prices |-> prices, basis |-> basis, evidence |-> receipt,
     open |-> open, invokable |-> TRUE, dated |-> TRUE]
Undocumented == Dossier("A", "m", Sheet(Low, <<>>), Absent, Absent, TRUE)
Brought ==
    {[Undocumented EXCEPT !.prices = s] : s \in Sheets}
    \cup {[Undocumented EXCEPT !.model = m] : m \in {"m-0101", "v/m", "n"}}
    \cup {[Undocumented EXCEPT !.basis = b, !.open = o] : b \in Bases, o \in BOOLEAN}
    \cup {[Undocumented EXCEPT !.basis = b, !.evidence = e, !.open = o] :
             b \in {Absent, Reaches("enforced"), Reaches("published-default")},
             e \in Receipts, o \in BOOLEAN}
    \cup {[Undocumented EXCEPT !.invokable = FALSE], [Undocumented EXCEPT !.dated = FALSE]}

TheirKey == [A |-> "a-ai", B |-> Absent]
ScannedOnly == [A |-> Absent, B |-> "b-cloud"]
TheirNames == <<"m", "m-0101", "n", "v/m">>
NamesUndated == ("m" :> Absent) @@ ("m-0101" :> "m") @@ ("n" :> Absent) @@ ("v/m" :> Absent)
NamesUnpublished ==
    ("m" :> Absent) @@ ("m-0101" :> Absent) @@ ("n" :> Absent) @@ ("v/m" :> "m")
NamesCanonical == ("m" :> "m") @@ ("m-0101" :> "m") @@ ("n" :> "n") @@ ("v/m" :> "m")
OneFamily == ("m" :> [name |-> "f", version |-> 1]) @@ ("n" :> [name |-> "f", version |-> 2])
FirstLanes ==
    {[provider |-> "B", model |-> "m", basis |-> Flat(Low), window |-> 8,
      takes |-> {}, pin |-> Absent, earned |-> TRUE, saw |-> "zero"]}

\* The first file: A reprices and is pinned or not, B carries a zero of its own.
StartsUpkeep ==
    /\ source = Publishes("m" :> Entry(Above(2, "context"), {"text", "image"}))
    /\ second = Second(2, FALSE) /\ page = PageAt(0, 0, 1)

-----------------------------------------------------------------------------
(* A flat lane and one that reprices, and cheaper, with size.               *)

Draws(prompt, output, cached, written) ==
    [prompt |-> prompt, output |-> output, cached |-> cached, written |-> written]
Walked ==
    << Flat(Table(2, 3, Absent, 4)),
       Repriced(Table(2, 9, Absent, Absent), 2, Table(1, 2, Absent, Absent)) >>
SoldAt == Flat(Table(5, 6, Absent, 7))
Consumptions == {Draws(1, 2, 0, 0), Draws(3, 1, 1, 3)}

\* What the proofs take of these constants holds of them.
ASSUME LedgerAssumption == AttemptsAssumption

-----------------------------------------------------------------------------

\* While another component runs, admission stands at one of its starts.
Idles == attached = "none" /\ shape = [r \in Requests |-> CHOOSE x \in Shapes : TRUE]

\* While the cache does not run, its keys have no expiry.
Lasting == keyRows = [k \in CachedKeys |->
                         [disabled |-> FALSE, expires |-> Never, edited |-> 0 - CacheTtl]]

AccessInit ==
    /\ Init /\ CatalogInit /\ UpkeepInit /\ SignInInit /\ KeysInit /\ CacheInit /\ TokenInit
    /\ AttemptsInit
    /\ component \in Components
    /\ component # "admission" => Idles
    /\ StartsUpkeep /\ (component # "upkeep" => \A p \in Providers : tierFile.pins[p] = Absent)
    /\ component # "catalog" => file = Unlabelled
    /\ component # "cache" => Lasting

AccessNext ==
    /\ UNCHANGED component
    /\ \/ component = "admission" /\ Next
       \/ component # "admission" /\ UNCHANGED vars
    /\ \/ component = "catalog" /\ CatalogNext
       \/ component # "catalog" /\ UNCHANGED catalogVars
    /\ \/ component = "signin" /\ SignInNext
       \/ component # "signin" /\ UNCHANGED signInVars
    /\ \/ component = "keys" /\ KeysNext
       \/ component # "keys" /\ UNCHANGED keysVars
    /\ \/ component = "cache" /\ CacheNext
       \/ component # "cache" /\ UNCHANGED cacheVars
    /\ \/ component = "tokens" /\ TokenNext
       \/ component # "tokens" /\ UNCHANGED tokenVars
    /\ \/ component = "upkeep" /\ UpkeepNext
       \/ component # "upkeep" /\ UNCHANGED upkeepVars
    /\ \/ component = "attempts" /\ AttemptsNext
       \/ component # "attempts" /\ UNCHANGED attemptVars

AccessSpec ==
    /\ AccessInit
    /\ [][AccessNext]_<<component, vars, catalogVars, signInVars, keysVars,
                       cacheVars, tokenVars, upkeepVars, attemptVars>>

Interchangeable == Permutations({r1, r2}) \cup Permutations({p1, p2})
==============================================================================
