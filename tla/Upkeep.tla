-------------------------------- MODULE Upkeep --------------------------------
(***************************************************************************)
(* The life of a tier file: drafts of new lanes from dossiers of facts     *)
(* (router/src/draft_pin.rs), merged by hand some time later, and the      *)
(* reports that say what has moved since (Drift, and the commands of       *)
(* router/src/admin.rs).  Upstream prices, the second catalog, the cited   *)
(* page and an account setting change at any time.  What the file means to *)
(* a request is Catalog's; of a price nothing is lost here, of a tier only *)
(* its lanes are told apart.                                               *)
(***************************************************************************)
EXTENDS Drift

CONSTANTS
    Hosted,         \* providers on the Messages dialect, whose marks travel
    Sources,        \* what the public catalog may say
    Seconds,        \* what the second one may say
    Pages,          \* what the cited page may say
    Dossiers,       \* what a researcher may bring
    Started,        \* the lanes of the first file
    Prompts,        \* the prompt sizes a report is held to
    MaxLanes,       \* bound: lanes of the file
    Changes         \* bound: how often anything outside changes

VARIABLES
    source, second, \* the two catalogs
    page,           \* the page every label here cites, and the account setting
    tierFile,       \* tiers.toml: the pin of each provider, the lanes
    draft,          \* a draft awaiting its merge, or Absent
    changes

upkeepVars == <<source, second, page, tierFile, draft, changes>>

\* A RetentionPin: what it claims, the digest it recorded and over what, and the
\* passage that was read for it.
Pin(posture, digest, anchored, read) ==
    [posture |-> posture, digest |-> digest, anchored |-> anchored, read |-> read]

ReadOn(p, posture, anchored) == Pin(posture, Evidence([anchored |-> anchored], p), anchored, p)

Labels == {"zero", "standard"}
Pins == [posture : Labels, digest : {Absent} \cup {<<p.passage>> : p \in Pages}
                                       \cup {WholePage(p) : p \in Pages},
         anchored : BOOLEAN, read : Pages]

\* Drafts are of providers of the inventory; the lanes of the first file inherit
\* their provider's label, which was given to what they are.  A tier list of the
\* public catalog is a list, whatever it says.
ASSUME UpkeepAssumption ==
    /\ Prompts \subseteq Nat
    /\ \A s \in Sources : \A key \in DOMAIN s : \A name \in DOMAIN s[key] :
         DOMAIN s[key][name].tiers = 1..Len(s[key][name].tiers)
    /\ Absent \notin Pins
    /\ \A d \in Dossiers :
         /\ d.provider \in Providers /\ d.model \in DOMAIN Canonical
         /\ d.basis # Absent => d.basis.anchored \in BOOLEAN
         /\ d.evidence # Absent => d.evidence.anchored \in BOOLEAN
    /\ \A l \in Started : /\ l.provider \in Providers /\ l.pin = Absent /\ l.earned
                          /\ l.model \in DOMAIN Canonical /\ IsSchedule(l.basis)

UpkeepInit ==
    /\ source \in Sources /\ second \in Seconds /\ page \in Pages
    /\ page.reachable /\ page.anchors = 1
    /\ \E postures \in [Providers -> {"zero", "standard", "none"}] :
         tierFile = [pins |-> [p \in Providers |->
                     IF postures[p] = "none" THEN Absent ELSE ReadOn(page, postures[p], TRUE)],
                 lanes |-> {l \in Started : postures[l.provider] # "none"}]
    /\ draft = Absent /\ changes = 0

-----------------------------------------------------------------------------
(* Drafting.                                                               *)

Private(basis) == basis.kind \in {"signed", "enforced"}

\* zero_ok, of resolve_posture: a basis that is traced, reaches this model, and
\* that the operator attests or the public can read.
EarnsZero(d) ==
    /\ d.basis # Absent
    /\ d.basis.traced /\ d.basis.posture = "zero" /\ d.basis.covers
    /\ IF Private(d.basis) THEN d.basis.attested ELSE d.open

\* anchor_digest: recomputed from the document when one is supplied and the
\* anchors find their place in it, else what the dossier supplied.
AnchoredDigest(e, read) ==
    IF e.anchored /\ e.document /\ Extract(read) # Absent THEN Extract(read)
    ELSE WholePage(read)

\* pin_from_basis, pin_from_standard_evidence
PinFrom(e, posture, read) == Pin(posture, AnchoredDigest(e, read), e.anchored, read)

\* standard_evidence before the basis, whichever could stand as a pin.
Citable(d) ==
    IF d.evidence # Absent /\ d.evidence.usable THEN d.evidence
    ELSE IF d.basis # Absent /\ d.basis.usable THEN d.basis
    ELSE Absent

NothingToCite == [refused |-> TRUE]
Inherits(posture) == [refused |-> FALSE, posture |-> posture, pin |-> Absent]
Overrides(pin) == [refused |-> FALSE, posture |-> pin.posture, pin |-> pin]

\* resolve_posture: never an inherited zero that was not earned.
PostureResolved(d, pinned, read) ==
    IF EarnsZero(d)
      THEN IF pinned = "zero" THEN Inherits("zero")
           ELSE Overrides(PinFrom(d.basis, "zero", read))
    ELSE IF pinned # "zero" THEN Inherits("standard")
    ELSE IF Citable(d) # Absent THEN Overrides(PinFrom(Citable(d), "standard", read))
    ELSE NothingToCite

PostureOfPin(pin) == IF pin = Absent THEN "none" ELSE pin.posture

\* The bands that condition on the prompt; others are left to the reader.
ContextBands(prices) ==
    LET ByPrompt(band) == band.from # Absent IN SelectSeq(prices.bands, ByPrompt)

Ascending(bands) == \A i, j \in DOMAIN bands : i < j => bands[i].from < bands[j].from

\* render_rates_block: sold at what it costs.
ScheduleOf(prices) ==
    LET bands == ContextBands(prices)
    IN  [t \in {0} \cup {bands[i].from : i \in DOMAIN bands} |->
            IF t = 0 THEN prices.base
            ELSE bands[CHOOSE i \in DOMAIN bands : bands[i].from = t].rates]

\* load_fragment: the stanza alone, its provider pinned as the draft says it
\* found it, through the loader of the router.
FragmentLoads(d, resolved) ==
    LET bands == ContextBands(d.prices)
        schedule == ScheduleOf(d.prices)
    IN  /\ Ascending(bands) /\ \A i \in DOMAIN bands : bands[i].from > 0
        /\ IsSchedule(schedule) /\ CacheIsDiscount(schedule)
        /\ schedule[0]["written"] # Absent => d.provider \in Hosted
        /\ (\E t \in DOMAIN schedule : \A r \in Required : schedule[t][r] = 0) =>
              d.provider \in SettlesFree
        /\ resolved.posture = "zero" => d.basis.usable

\* draft_and_validate, on the dossier of a page as it read when it was visited.
Draftable(d, resolved) ==
    /\ d.invokable /\ d.dated
    /\ \A r \in Required : d.prices.base[r] # Absent
    /\ d.prices.traced
    /\ ~resolved.refused
    /\ FragmentLoads(d, resolved)

Draft(d) ==
    LET pinned == PostureOfPin(tierFile.pins[d.provider])
        resolved == PostureResolved(d, pinned, page)
    IN  /\ draft = Absent /\ page.reachable
        /\ Draftable(d, resolved)
        /\ draft' = [lane |-> [provider |-> d.provider, model |-> d.model,
                               basis |-> ScheduleOf(d.prices),
                               window |-> d.prices.window, takes |-> d.prices.takes,
                               pin |-> resolved.pin,
                               earned |-> EarnsZero(d), saw |-> pinned],
                     says |-> resolved.posture]
        /\ UNCHANGED <<source, second, page, tierFile, changes>>

\* candidate_retention
Posture(f, lane) ==
    IF lane.pin # Absent THEN lane.pin.posture ELSE PostureOfPin(f.pins[lane.provider])

\* A person merges it: only beside a pin for its provider, and under an id that
\* is not taken, does the file still load.
Merge ==
    /\ draft # Absent /\ draft' = Absent /\ Cardinality(tierFile.lanes) < MaxLanes
    /\ tierFile.pins[draft.lane.provider] # Absent
    /\ ~\E lane \in tierFile.lanes :
          lane.provider = draft.lane.provider /\ lane.model = draft.lane.model
    /\ tierFile' = [tierFile EXCEPT !.lanes = @ \cup {draft.lane}]
    /\ UNCHANGED <<source, second, page, changes>>

Discard ==
    /\ draft # Absent /\ draft' = Absent
    /\ UNCHANGED <<source, second, page, tierFile, changes>>

-----------------------------------------------------------------------------
(* What people do about a report.                                          *)

Changed == changes < Changes /\ changes' = changes + 1

\* A provider's label is pinned anew against the page as it reads now, with the
\* digest the check prints: it prints none when the extract could not be taken.
Repin(p) ==
    \E posture \in {"zero", "standard"}, anchored \in BOOLEAN :
        /\ Changed /\ page.reachable
        /\ Evidence([anchored |-> anchored], page) # Absent
        /\ tierFile' = [tierFile EXCEPT !.pins[p] = ReadOn(page, posture, anchored)]
        /\ UNCHANGED <<source, second, page, draft>>

\* The vendors and the two catalogs.
VendorsMove ==
    /\ Changed /\ UNCHANGED <<tierFile, draft>>
    /\ \/ source' \in Sources \ {source} /\ UNCHANGED <<second, page>>
       \/ second' \in Seconds \ {second} /\ UNCHANGED <<source, page>>
       \/ page' \in Pages \ {page} /\ UNCHANGED <<source, second>>

UpkeepNext ==
    \/ \E d \in Dossiers : Draft(d)
    \/ Merge \/ Discard \/ VendorsMove
    \/ \E p \in Providers : Repin(p)

UpkeepSpec == UpkeepInit /\ [][UpkeepNext]_upkeepVars

-----------------------------------------------------------------------------
(* What the commands answer.                                               *)

\* catalog-drift finds nothing to act on.
CatalogGreen == \A lane \in tierFile.lanes : ~Drifted(lane, source)

\* claims: every pin of the file that labels a lane it serves.
Claims(f) ==
    ({f.pins[p] : p \in Providers} \cup {lane.pin : lane \in f.lanes}) \ {Absent}

\* retention-drift with the account checked: every page unchanged, the setting
\* what a zero of that account needs.
RetentionGreen ==
    /\ \A pin \in Claims(tierFile) : PageVerdict(pin, page) = "unchanged"
    /\ page.account = "none"

-----------------------------------------------------------------------------
(* Properties.                                                             *)

\* A lane is published zero because its own evidence reaches it; the one other way
\* is a person pinning its provider zero after it was drafted.  And a draft is
\* published as it said, while its provider stands as it found it (resolve_posture).
ZeroIsEarned ==
    /\ \A lane \in tierFile.lanes :
         Posture(tierFile, lane) = "zero" => lane.earned \/ (lane.pin = Absent /\ lane.saw # "zero")
    /\ draft # Absent /\ PostureOfPin(tierFile.pins[draft.lane.provider]) = draft.lane.saw =>
         Posture(tierFile, draft.lane) \in {draft.says, "none"}

\* When retention-drift has nothing to say, the passage behind every label of a
\* served lane is the one that was read for it, and all of the page where it pins
\* all of it (claims, check, check_live_mode).
QuietIsUnmoved ==
    RetentionGreen =>
        \A lane \in tierFile.lanes :
            LET pin == IF lane.pin # Absent THEN lane.pin ELSE tierFile.pins[lane.provider]
            IN  /\ page.passage = pin.read.passage
                /\ ~pin.anchored => page.rest = pin.read.rest

\* What an upstream publishes for a prompt of that size.
UpstreamAt(entry, prompt) ==
    LET reached == {i \in DOMAIN entry.tiers : entry.tiers[i].size <= prompt}
    IN  IF reached = {} THEN entry.base
        ELSE entry.tiers[CHOOSE i \in reached :
                           \A j \in reached : entry.tiers[j].size <= entry.tiers[i].size].rates

\* When catalog-drift has nothing to say, a lane it could compare costs what its
\* upstream publishes at every prompt size, it promises no input its model does
\* not take, and a second catalog that agrees on where the price changes agrees
\* with the file as well (reconcile_with, corroborate).
GreenIsTrue ==
    CatalogGreen =>
        \A lane \in tierFile.lanes :
            Verdict(lane, source) = "ok" =>
                LET listing == Listing(source, FiledKey(lane.provider))
                    entry == listing[MatchedAs(listing, lane.model)]
                IN  /\ \A prompt \in Prompts, d \in Dimensions :
                         LET asked == UpstreamAt(entry, prompt)[d]
                             recorded == At(lane.basis, prompt)[d]
                         IN  asked # Absent =>
                               recorded = asked \/ (d = "written" /\ recorded = Absent)
                    /\ lane.takes # {} /\ entry.takes # {} => lane.takes \subseteq entry.takes
                    /\ Corroborated(lane, source, second) = "agree" =>
                         SecondBands(second[lane.model]) = [t \in BandsOf(lane.basis) |-> 1]

\* What reconcile recognises as a lane's own listing, discover never reports as a
\* model the provider lists and nobody carries (undated and unpublished, canonical).
ReportsAgree ==
    \A lane \in tierFile.lanes :
        LET key == FiledKey(lane.provider)
            name == MatchedAs(Listing(source, key), lane.model)
        IN  name # Absent /\ ScannedKey(source, lane.provider) = key =>
                <<lane.provider, Canonical[name]>> \notin Found(tierFile.lanes, source)

\* What /v1/models says is what a request gets (model_listing, resolve), and a
\* zero it says was earned by the lane and is watched (draft, retention_drift).
PublishedHonestly == ListingHonest /\ ZeroIsEarned /\ QuietIsUnmoved

\* What the upkeep reports do not complain of is so, and they do not contradict
\* each other (catalog_drift, print_corroboration, discover).
ReportsTrue == GreenIsTrue /\ ReportsAgree
=============================================================================
