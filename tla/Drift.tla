-------------------------------- MODULE Drift --------------------------------
(***************************************************************************)
(* What the upkeep commands can tell of a tier file: does the public       *)
(* catalog still agree with it (router/src/drift.rs), does a second one    *)
(* (router/src/corroborate.rs), what is listed that it does not carry      *)
(* (router/src/discover.rs), and do the cited pages still say what they    *)
(* said (router/src/retention.rs).  They read and report, and write        *)
(* nothing.                                                                *)
(*                                                                         *)
(* A name is a member of a small set and its spellings are functions on    *)
(* it.  A page is the version of the passage a label was read from, the    *)
(* version of the rest, and how often the anchor phrase occurs.            *)
(***************************************************************************)
EXTENDS Catalog, Sequences, SequencesExt

CONSTANTS
    Providers,       \* the inventory
    Unreconcilable,  \* who declares that no public catalog prices it
    FiledUnder,      \* the key a provider declares in the public catalog, or Absent
    FoundUnder,      \* DISCOVERY_ONLY_SOURCE_KEYS, or Absent
    Spellings,       \* the names, in their order
    Undated,         \* a name without its date, or Absent
    Unpublished,     \* a name's last segment, or Absent
    Canonical,       \* the model a name spells
    Family           \* a model's family and version, or Absent

\* canonical drops the date and the publisher of a name itself, so neither changes
\* the model it spells: of a name with one date, and no deployment marker before it.
ASSUME SpellingsAssumption ==
    \A name \in DOMAIN Canonical :
        /\ Undated[name] # Absent => Canonical[Undated[name]] = Canonical[name]
        /\ Unpublished[name] # Absent => Canonical[Unpublished[name]] = Canonical[name]

-----------------------------------------------------------------------------
(* drift.rs.                                                               *)

\* The key reconcile joins on: the declared one, else the provider's own.
FiledKey(p) == IF FiledUnder[p] # Absent THEN FiledUnder[p] ELSE p

Listing(source, key) == IF key \in DOMAIN source THEN source[key] ELSE <<>>

\* The name an entry is found under: exact, then undated, then the last segment.
MatchedAs(listing, name) ==
    IF name \in DOMAIN listing THEN name
    ELSE IF Undated[name] \in DOMAIN listing THEN Undated[name]
    ELSE IF Unpublished[name] \in DOMAIN listing THEN Unpublished[name]
    ELSE Absent

\* A source that says nothing of a rate does not disagree about it, and a lane
\* that declares no write rate has decided not to sell cache writes.
RatesAgree(recorded, upstream) ==
    \A d \in Dimensions :
        \/ upstream[d] = Absent
        \/ d = "written" /\ recorded[d] = Absent
        \/ recorded[d] = upstream[d]

BandsOf(basis) == DOMAIN basis \ {0}

\* Mutant: the rates of the bands, wherever they start.
RatesOfBandsAgree(basis, tiers) ==
    /\ Cardinality(BandsOf(basis)) = Cardinality(DOMAIN tiers)
    /\ \A i \in DOMAIN tiers : \E t \in BandsOf(basis) :
         /\ Cardinality({s \in BandsOf(basis) : s <= t}) = i
         /\ RatesAgree(basis[t], tiers[i].rates)

\* Thresholds one for one in the order they are published, which is the order of
\* a schedule only when it ascends, then their rates.
ConditionalAgrees(basis, tiers) ==
    /\ BandsOf(basis) = {tiers[i].size : i \in DOMAIN tiers}
    /\ \A i, j \in DOMAIN tiers : i < j => tiers[i].size < tiers[j].size
    /\ \A i \in DOMAIN tiers :
         /\ tiers[i].kind = "context"
         /\ RatesAgree(basis[tiers[i].size], tiers[i].rates)

\* Verdict, of reconcile_with: both exemptions before the source is looked at.
Verdict(lane, source) ==
    LET listing == Listing(source, FiledKey(lane.provider))
        name == MatchedAs(listing, lane.model)
    IN  IF IsFree(lane.basis) /\ lane.provider \in SettlesFree THEN "local"
        ELSE IF lane.provider \in Unreconcilable THEN "not covered"
        ELSE IF name = Absent THEN "missing"
        ELSE IF ~listing[name].priced THEN "unpriced"
        ELSE IF \E i \in DOMAIN listing[name].tiers : listing[name].tiers[i].kind # "context"
          THEN "unmodelled"
        ELSE IF listing[name].tiers # <<>> /\ DOMAIN lane.basis = {0} THEN "tiered"
        ELSE IF /\ RatesAgree(lane.basis[0], listing[name].base)
                /\ ConditionalAgrees(lane.basis, listing[name].tiers) THEN "ok"
        ELSE "drift"

\* metadata_drift: what the lane states and the source contradicts.  A lane may
\* take less than its model; both silences are no contradiction.
Contradicted(lane, source) ==
    LET listing == Listing(source, FiledKey(lane.provider))
        name == MatchedAs(listing, lane.model)
        Differ(a, b) == a # Absent /\ b # Absent /\ a # b
    IN  name # Absent =>
          \/ Differ(lane.window, listing[name].window)
          \/ lane.takes # {} /\ listing[name].takes # {} /\ ~(lane.takes \subseteq listing[name].takes)

\* What makes catalog-drift fail.
Drifted(lane, source) ==
    \/ Verdict(lane, source) \in {"drift", "missing", "tiered", "unmodelled"}
    \/ Contradicted(lane, source)

-----------------------------------------------------------------------------
(* corroborate.rs.  Its rates are a reseller's and decide nothing; where it  *)
(* says a price changes is compared.                                       *)

\* Both sides are sorted before they are compared, so of a list of thresholds it
\* matters which it states, and how often.
Tally(sizes) ==
    [t \in {sizes[i] : i \in DOMAIN sizes} |-> Cardinality({i \in DOMAIN sizes : sizes[i] = t})]

\* Overrides by prompt size; those by time of day are counted elsewhere.
SecondBands(entry) ==
    LET sized == {i \in DOMAIN entry.overrides :
                     ~entry.overrides[i].timed /\ entry.overrides[i].from # Absent}
    IN  Tally([i \in sized |-> entry.overrides[i].from])

PrimaryBands(tiers) ==
    Tally([i \in {j \in DOMAIN tiers : tiers[j].kind = "context"} |-> tiers[i].size])

\* Finding, of corroborate and compare.
Corroborated(lane, source, second) ==
    LET listing == Listing(source, FiledKey(lane.provider))
        name == MatchedAs(listing, lane.model)
        tiers == IF name = Absent THEN <<>> ELSE listing[name].tiers
        silent == name = Absent \/ ~listing[name].priced
    IN  IF Verdict(lane, source) \in {"local", "not covered"} THEN "exempt"
        ELSE IF lane.model \notin DOMAIN second THEN "not listed"
        ELSE IF ~second[lane.model].priced /\ DOMAIN SecondBands(second[lane.model]) = {}
          THEN "unpriced"
        ELSE IF silent THEN "primary silent"
        ELSE IF PrimaryBands(tiers) = SecondBands(second[lane.model]) THEN "agree"
        ELSE "disagree"

-----------------------------------------------------------------------------
(* discover.rs.                                                            *)

\* resolve_source_keys: the first of a provider's keys the source has.
ScannedKey(source, p) ==
    IF FiledUnder[p] \in DOMAIN source THEN FiledUnder[p]
    ELSE IF FoundUnder[p] \in DOMAIN source THEN FoundUnder[p]
    ELSE IF p \in DOMAIN source THEN p ELSE Absent

\* Carried::by_provider.
CarriedBy(lanes, p) == {Canonical[lane.model] : lane \in {l \in lanes : l.provider = p}}

\* classify: a twin of another provider's lane, the next of a family, or new.
Category(lanes, p, model) ==
    LET kin == {m \in CarriedBy(lanes, p) :
                   Family[m] # Absent /\ Family[model] # Absent
                   /\ Family[m].name = Family[model].name}
    IN  IF \E q \in Providers \ {p} : model \in CarriedBy(lanes, q) THEN "cross-cloud"
        ELSE IF kin # {} /\ \A m \in kin : Family[m].version < Family[model].version
          THEN "version bump"
        ELSE "new"

\* The chat models a provider lists that are spellings of one model.
ListedAs(source, p, model) ==
    LET listing == Listing(source, ScannedKey(source, p))
        Lists(n) == n \in DOMAIN listing /\ listing[n].chat /\ Canonical[n] = model
    IN  SelectSeq(Spellings, Lists)

\* discover and filter_new_by_recency: a model once, for its first spelling; a
\* new one is dropped only when it is known to be old.
Found(lanes, source) ==
    {c \in Providers \X Range(Canonical) :
        LET p == c[1]
            model == c[2]
            spelled == ListedAs(source, p, model)
        IN  /\ spelled # <<>> /\ model \notin CarriedBy(lanes, p)
            /\ Category(lanes, p, model) = "new" =>
                 source[ScannedKey(source, p)][Head(spelled)].released # "old"}

-----------------------------------------------------------------------------
(* retention.rs.                                                           *)

\* A digest tells apart what it was taken over; nothing hashes to Absent.
WholePage(page) == <<page.passage, page.rest, page.anchors>>

\* extract: no fallback when the anchor is gone or there is more than one.
Extract(page) == IF page.anchors = 1 THEN <<page.passage>> ELSE Absent

\* evidence
Evidence(pin, page) == IF pin.anchored THEN Extract(page) ELSE WholePage(page)

\* check and unfetchable
PageVerdict(pin, page) ==
    CASE ~page.reachable -> "unreachable"
      [] Evidence(pin, page) = Absent \/ Evidence(pin, page) # pin.digest -> "changed"
      [] OTHER -> "unchanged"
=============================================================================
