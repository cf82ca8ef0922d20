# ZeroRouter in TLA+

ZeroRouter is an LLM gateway with prepaid billing: a Rust service in front of
several inference providers and a PostgreSQL database, paid through Stripe.
This directory models the parts of it where order, failure, concurrency and the
arithmetic of prices decide whether a customer gets what was asked for and is
billed for it correctly. Paths below are relative to `router/src/` unless they
begin with another directory of the repository.

## 1. The system

| Part | State | Operations | What makes it correct |
|---|---|---|---|
| Reservation settlement, `db.rs` | `usage_reservations`, `usage_events`, `request_attempts`, `credit_ledger`, `users.credit_balance_usd` | admit, mark dispatched, persist intent, settle, stamp a failure, recover, collect, release | a request is billed once; delivered work is never forgotten; what was admitted is funded; each attempt's cost is on one side of the books |
| Admission gates, `db.rs`, `api.rs` | settled and reserved usage per user and key, caps, the month's allowance | one transaction under the user's advisory lock | concurrent admissions do not exceed a cap together |
| Output-size estimator, `estimator.rs` | a bounded cache, a queue and revert marks per process | read, refresh, judge | a segment that lost money is not sized as if it had not |
| Inventory and route, `providers.rs`, `api.rs` | entries read at start; a route per request | layer, substitute the customer's keys, build clients, order, label | every rung is dialled as declared and billed; labels are true |
| Health registry, `health.rs` | moving average and cooldown per (provider, model), one map per process | observe, should_skip | a failing rung sinks, a route is never emptied |
| Buffered walk, `api.rs`, `retry.rs` | locals of the request | skip, call, retry, truncate, arm, settle | ends, bills what was served, reports the right reason |
| Streaming walk, `api.rs` | locals, a bounded channel | the same, plus deltas, a client that leaves | one answer, billed if metered and delivered |
| Dialects, `wire/`, `openai.rs`, `responses.rs` | a machine per stream | read frames, write frames, turn one conversation into another | no piece of a call lost, moved or mixed with another's, no usage lost or counted twice, nothing of a conversation lost or moved |
| Exchanged credentials, `gcp_auth.rs` | one token cell per process | read, exchange | a token in use outlives its request |
| Prices and catalog, `config.rs`, `provider.rs` | the tier file in force | load, resolve, hold, bill, list | a hold covers its bill, a sale covers its cost, the listing is what a request gets |
| Upkeep of the catalog, `draft_pin.rs`, `drift.rs`, `corroborate.rs`, `discover.rs`, `retention.rs` | the file, a draft, what the world publishes | draft, merge, report | no label nobody earned, no report that is silent about a change |
| Purchases, `stripe.rs`, `billing.rs` | Checkout Sessions at Stripe, `stripe_checkout_intents`, a cache of forms per process | create, reuse, status, webhook, sweep | the credit that was asked for, at its price, once |
| Reversals, `stripe.rs`, `billing.rs` | ledger entries, tombstones (`stripe_observed_reversals`), freezes | webhooks, the credit, freeze and write-off | a reversal holds whichever event came first |
| Auto-recharge, `stripe.rs`, `billing.rs` | `stripe_autopay_intents`, strikes | sweep, replay, attach, settle, webhooks | no double charge, no collected money lost |
| Redemption tax, `redemption_tax.rs` | periods per user | enroll, price, collect, record | usage is taxed once and filed as priced |
| Keys and device grants, `portal.rs`, `device.rs`, `auth.rs` | `api_keys`, `device_authorizations`, a cache per process | mint, revoke, approve, poll, look up | caps hold under concurrent mints, a grant mints once, revocation takes effect |
| Sign-in, `oidc.rs`, `session.rs` | `oauth_states`, cookies, `portal_sessions` | login, callback, sign out | a session is of whoever its browser signed in as |

How they interact. A key is looked up; the route is built from the inventory,
the catalog and the customer's own keys, and ordered by estimates, health and
retention; a reservation is admitted for what the catalog says the request may
cost and the estimator says it is likely to; the walk dispatches under that
reservation, fires its dispatch marker once, and reads an upstream's dialect
while it writes its client's; its terminal hands one usage record, with one row
per attempt, to the settlement. The recovery task, Stripe's webhooks, the
autopay sweep, the tax pass and the operator's commands all move the same
balance, under one advisory lock per user; the statements between two locks
interleave freely. Health, estimates, the token cell and the caches are shared
by all requests of a process and by no two processes.

What is hard: a COMMIT whose reply is lost, a process that dies between two
statements, a TTL that passes under a live request, a client or a drain that
ends a stream at any point, fragments out of order, webhooks out of order and
more than once, a payment whose answer is lost, state read by one statement and
used by a later one, prices that change with the size of a prompt.
`PROJECT.json` lists each at its line ("hazards").

## 2. The modules

**Requests and their money**

* `Settlement` is the outbox. A statement or transaction is one action. A
  request's `pc` is the place of its task in `begin_usage_session → walk →
  UsageSession::record → settle_with_retry`; a row of `usage_reservations` is a
  record whose NULLable columns are Booleans; `charged` is what the ledger's
  usage entries of a request sum to; `marker` is the spawned UPDATE of
  `DispatchMarker`; `batch`, `stamping` and `collecting` are what the recovery
  pass and `admin settle-owed` have read and not yet acted on. `settle_once` is
  split by outcome (`SettleCommits`, `SettleFindsDecided`, `SettleRefused`) and
  used by its three callers; an ambiguous COMMIT is `SettleCommits` with a
  caller that sees an error. The 60 s grace, the LIMIT and the order of the
  recovery SELECT are dropped, which only adds interleavings. A payload another
  build wrote is a choice of `foreign` at the start.
* `Charge` is what the outbox promises: each request's account goes from none
  to held, and from held to billed, waived or void, once, and money moves only
  with the step to billed. `Settlement` implements it (`ImplementsCharge`) under
  the mapping `Account`.
* `Attempts` is the walk's ledger of attempts and the row they settle into:
  `build_attempt`, the usage each terminal bills, the payload (as a build that
  lacks a field reads it) and `settle_once`'s `cost_basis_usd`,
  `attempts_cost_basis_usd` and `attempts_cost_basis_complete` (`RowOf`). What an
  upstream really consumed (`calls`) is known to the model alone.
* `Admission` is `begin_usage_session`, one action per statement, with the two
  reads of the customer's coverage in `api.rs` around it, and everything that
  may run between two statements.
* `Estimator` is the cache, its queue, the refresher and the reverts. The ledger
  outlives a restart, nothing else does.

**A request on its way**

* `Inventory` is `config/providers.json` with an operator's entries layered on
  it, what the environment makes of each, and `build_with_byok`: clients shared
  by provider and surface, customers' keys and the fallback twins.
* `Selection` orders a built route: the priority, expected cost, health,
  ability, retention, and the labels of a stream written before any rung
  answers. The estimate cache and the registry belong to the process, so each
  read is answered with anything it may say.
* `Route` and `Health` are what both walks share: the rungs a tier yields, the
  order in which health is read, the moving averages (thousandths, rounded
  down, factors 0.3 and 0.7) and cooldowns. `Partitions` is the stable partition
  by which `Route` and `Selection` order.
* `Streams` extends `Inventory`, `Selection` and `StreamWalk`, each with variables
  of its own (a rung is a client to the first, a lane to the second, a health key to
  the third), and says of the three together what `RoutedAsDeclared` says; and it
  holds the two streams of tokens that are metered as they go, `Chat` and `Messages`,
  of which it says `UsageKept`.
* `Walk` is `run_non_streaming`, `StreamWalk` is `stream_to_channel` with its
  terminals. Other requests' observations, the end of a cooldown, the drain, the
  deadline and the client are the environment. `Metered` is what either promises
  its reservation: settle at most once, bill only after a dispatch, drop the
  session only when nothing was dispatched (`KeepsPromise`), which is what
  `Settlement` assumes of a request's task.
* `ChatStream`, `MessagesStream` and `ResponsesStream` are the streams of the
  dialects; the Bedrock runtime frames the Messages one. `ResponsesStream`
  composes the frames this router writes in that dialect with its own reader of
  it. What has been assembled of a stream is a recursive function of its pieces
  (`Assembled`, `ReceivedFirst`), and a bill is a position of the events (`Bills`).
  `Conversation` is what becomes of a history, its tools and its cache
  breakpoints from either surface to any of the three bodies.
* `Tokens` is the cell of access tokens: the clock is read before the mutex is
  waited for, and the mutex is held across the exchange.

**Prices**

* `Pricing` is the arithmetic: a schedule maps thresholds to rate tables, a
  report is made to add up, a bill is a sum by band, a hold the dearest of what
  a bound allows. Rates are integers, "not stated" is `Absent`.
* `Catalog` is the tier file as requests see it: what condemns a file or
  withholds a tier, pins by id, unified models by bare name, the bill, and what
  `/v1/models` says. A request keeps the schedule it was resolved with while the
  file is replaced under it.
* `Drift` is what the upkeep commands compare; `Upkeep` is the life of a file:
  a dossier drafted, merged by hand some time later, and the reports, while
  prices, pages and an account setting change.

**Money from outside**

* `Checkout` is the purchase until it is credited, `Reversals` what may be taken
  back afterwards; an event's `at` is how far `handle_reversal_event` is, and
  `Again` is a 503, a lost reply or a redelivery, from any point.
* `Autopay` is one account. `claim[k]` is the row named `local_<key>`,
  `intent[k]` the row named after the PaymentIntent of that key, `job[s]` where
  sweep `s` is in `run_autopay_sweep_once`. Stripe is external: one key, one
  charge; a request repeating a key with another card is refused; a webhook
  returns until acknowledged. Stripe's forgetting of keys after a day is the
  `overdue` age, after which the code does not replay.
* `RedemptionTax` is the sweep, statement by statement, beside another sweep,
  settles, deposits and crashes.

**Who may ask**

* `Keys` is minting from its four doors under `admit_key_mint`'s lock, the
  device grant and revocation; `KeyCache` is the authenticator's cache beside
  the portal's edits; `SignIn` is the login state, the callback and the session.

`Credentials` puts `KeyCache` and `Tokens` together: the two caches of
credentials a request passes.

`MC*` hold the small instances. Three of them are packs: `MCLedger`, `MCAccess`
and `MCWires` hold several components that share no state, of which a behaviour
runs the one `component` names while the others stay where they started. One run
then explores each component exactly as its own run would. `MCLedger` extends
`Reversals`, `Checkout`, `Autopay`, `RedemptionTax` and `Estimator`, and `MCAccess`
extends `Admission`, `Upkeep` (which extends `Drift` and `Catalog`), `Attempts`,
`SignIn`, `Keys` and `Credentials`, so that the definitions they check are the very ones the
theorems are about; no two modules of a pack define the same name for that
reason (`CheckoutInit`, `TaxNext`, …). In `MCWires` `Streams` is extended and the
others are INSTANCEs over as many of the slots `v1, v2, …` as they have
variables, their properties guarded by `component`. `Components` says which
components a run is about, one for `stream_lost` and one for `cogs_double`.
`MCLive` is the same for the
liveness of Autopay and Reversals. `*Proofs` hold the theorems and `Sums` the
lemmas about finite sums they share. A definition whose comment begins with "Mutant" is a plausible bug,
used only to show that a property can fail.

## 3. The runs

| Run | Question | Bounds |
|---|---|---|
| `settlement_prompt` | Is what was admitted funded, does no dispatched request vanish, is each charged once, does the outbox implement `Charge`? | two requests of one user, amounts 0..1, budgets 1; nothing clawed back (`PromptSpec`), which `outbox` below adds |
| `walk_all` | Does the buffered walk keep its promises to customer and reservation, and come to an end? | two providers, either attached or not, the first with a twin, all 7 failure classes, one foreign observation |
| `streams` | What of a streamed request may go wrong, from the inventory to the debt it leaves? | eight components, below |
| `live` | Is collected money resolved and the account's slot freed, is a full reversal carried out? | one key, one card; one purchase, three events |
| `ledger` | What may go wrong with credit outside a request? | five components, below |
| `access` | Who may spend, and at what price? | eight components, below |
| `walk_optin` | Is an opted-in failure retried on the house credential, as `docs/DEPLOY.md` says? **No** | one provider, its key and twin |
| `stream_lost` | Is a client that left never billed for lost output, as `api.rs` says? **No** | one live rung |
| `autopay_double` | Does one key stay one charge when the card changes? **No** | two keys, two cards |
| `tax_uncovered` | Can a settle never find less than was reserved, as `db.rs` says? **No** | two sweeps, one user |
| `boundary_named` | Is the cache boundary a client names the one sent, as `openai.rs` says? **No** | two messages |
| `cogs_double` | Does exactly one place count an attempt's cost, as `db.rs` says? **No** | two lanes, two calls |

The components of the packs:

| Pack | Component | Instance | Properties |
|---|---|---|---|
| `streams` | walk | two models of one provider, one live and one plain, the provider attached or not, with twins or not; two foreign observations | `AlwaysSettles`, `DeliveryAccounted`, `NeverTwoAnswers`, `KeepsPromise`, `WalkTerminates`; `FallbackEarned` in `RoutedAsDeclared` |
| | chat | an upstream that numbers the fragments of three calls and one that does not, ended or clipped anywhere; reports that grow, shrink, leave figures out, state cached tokens alone or an absurd count | `UsageKept`, `AnswerWhole` |
| | messages | two calls of two fragments, closed early or never, three counters, a pipe of two events cut anywhere | `UsageKept`, `AnswerWhole` |
| | responses | four pieces through writer and reader | `AnswerWhole` |
| | conversation | four items of seven or nine shapes, four breakpoints | `ArrivesWhole` |
| | inventory | four vendors; operator entries with up to two deviations; seven environments | `RoutedAsDeclared` |
| | selection | four lanes, six routes, four requests | `RoutedAsDeclared` |
| | outbox | one request, amounts 0..2, 2 attempts, budget 3, clawbacks, late, unreadable payload or not | `DebtResolved` |
| `ledger` | reversals | two purchases, three objects, four events | `ReversedOnce`, `AcknowledgedReversalHolds` |
| | checkout | two sessions, two amounts on two rails, two deliveries at once, all of Stripe's windows within four ticks | `CreditedAsSold`, `SoldIsHonoured` |
| | autopay | two keys, two cards, one instance | `CollectedIsKept` |
| | tax | two sweeps, one user, one crash | `TaxAccounted` |
| | estimator | two segments, a cache of one cell, one restart | `LossesConsulted` |
| `access` | admission | two requests over two keys, three shapes, two disturbances | `SpendBounded`, `AllowanceOnce`, `AdmittedAsAllowed` |
| | catalog | six tier files, two of them condemned in part or whole | `ReservationCovers`, `NeverBelowCost`, `NeverUndercutsPin`, `PublishedHonestly` |
| | upkeep | two providers, five public catalogs, six states of a page, some fifty dossiers, two changes | `PublishedHonestly`, `ReportsTrue` |
| | attempts | a flat lane and one that reprices, two calls, two consumptions | `CostsBooked` |
| | keys | one live key allowed, two mints at once, one grant | `MintsWithinLimits` |
| | cache | one key, two lookups at once, time for two lifetimes | `CachedIsFresh` |
| | signin | one browser with two callbacks, two people, two addresses | `SignedInAsThemselves` |
| | tokens | two requests at one cell, lifetimes short, long and unstated | `CachedIsFresh` |

Why the bounds suffice. The hazards of the outbox are between two actors on one
row, or between one row and the admission of another request of the same user;
users share nothing but the sweep, which touches a row whoever owns it. Two
requests give both; the instance in `streams` has the larger budgets and
amounts. A walk's hazards are between neighbouring rungs: in `walk_all` a customer's
rung, its twin and another provider's rung, in `streams` two rungs of one provider
and their twins, give every pair. One foreign observation
demotes a rung (a 429) or recovers it; the streaming walk allows two. Streams
break, and answers are clipped, between two fragments of one call or of two, so three
calls of two pieces are one more than needed. An upstream begins its calls in their
order, and one that does not number them sends each to its last fragment before the
next begins, since nothing else would tell the two apart; it may stop anywhere in it. Prices are compared band by band: one threshold on
either side, at the same size or not, gives every relation of two schedules, and
`AccessProofs` covers the rest. A reversal meets a credit, another reversal of
the same intent, and another intent of the same payer. Autopay's slot is per
account, so the second key is the next attempt; `MaxStrikes` is 2 for the code's
3, enough for a strike that disarms and one that does not. Locks, caps and
single-use rows are contended by two; a cache of one entry is full at the
second. Deadlines are a few ticks, each window at its smallest length that
keeps the code's order between the windows; a tick of `Checkout` is no shorter
than the time Stripe redelivers an event for, so that window is 0, and the theorem
covers every length of all of them.

`CHECK_DEADLOCK FALSE` stands in every configuration: each instance ends, in a
settled request, a spent bound or a clock that stops.

Late requests. A walk's deadline (15 minutes) lies inside the TTL (20 minutes),
but waits for the database come on top and are not bounded by it, so a request
can outlive its reservation. `EncumbranceFunded` and `LostOnlyWithItsMarker` are
checked without late requests, and the first without clawbacks too: a dispute
takes back money a reservation counts on by design, and the settle is then
refused and parked. `DebtResolved` holds late as well, and the theorems about
the outbox assume nothing of either. In `Admission` a reservation expires under a
task that is gone or a debt that waits (`LateDebts`), never under one that still
walks: such a row encumbers nothing (`db.rs`, the sums of `begin_usage_session`),
other requests are admitted over it, and the whole price of what it settles in the
end comes on top of `SpendBounded`. `SpendStaysBounded` is therefore about requests
that end their walk within the TTL.

## 4. Fairness

* Recovery (`DebtResolved`): the task runs every 60 s for as long as the process
  lives (`api.rs`, `spawn_settlement_recovery`), so a pass starts (weak
  fairness); a replay, its stamp and the parking of a row are strongly fair,
  because the process is not killed in every pass and the database accepts a
  write now and then.
* Streaming (`WalkTerminates`): the task is scheduled and a stream ends at its
  deadline, which the code sets for every rung (weak fairness of the walk's
  own steps except deltas).
* The buffered walk needs none: `NearerToItsEnd` says every step of it lowers a
  measure, so it ends if it is scheduled.
* Reversals (`ReversalHappens`): Stripe retries what was not acknowledged, and a
  step that is tried again and again does not fail every time (strong fairness
  of each step).
* Autopay (`ClaimsEnd`): the sweep runs every minute, a webhook is delivered
  until acknowledged, not every answer of Stripe's is lost, and the reconcile
  delay passes. The replay window is not assumed to stay open: the property
  excuses a row that is overdue, and an account an operator or its own strikes
  disarmed.

In the packs the two kinds of weakly fair steps are one formula where they
cannot be enabled in one behaviour.

## 5. The proofs

For all values of the constants that satisfy the modules' assumptions, and, where
it is said so, one hypothesis more:

* `SettlementProofs`: `TypeCorrect`, `BilledExactlyOnce` (`ChargedOnce`),
  `ConsumedByItsEvent` (`NoRowBesideItsEvent`), and from the same invariant
  `EvidenceOutlivesEverything` (`EvidenceLeavesOnlyBilled`) and
  `ForgivenessIsFinal` (`ReleaseIsFinal`). `ChargedOnce` is not inductive
  alone: a debit is a function of `cost` and `reserved`, so those must be known
  to be fixed before anything can bill. `IInv` adds `Fixed` (a request that has
  an event, an intent or a pending replay is past the choice of its cost) and
  `NewHasNoRow`. A second, independent invariant (`RowsHonest`: a row that is gone
  says nothing, a parked one has evidence, a released one is parked) gives
  `ParkedRowsHaveEvidence` (`ParkedWithEvidence`); that events stay and releases
  are final gives `ReportedMeansResolved` (`OkMeansResolved`). Two lemmas carry
  the case analysis: `QuietStep` for actions that bill nobody, `BillingStep` for
  any caller of a settle transaction.
  `Refinement`: the outbox implements `Charge`. Every action is mapped to a step
  of one request's account or to a stutter; the interesting ones are the sweep,
  which voids, and a settle that finds a released row.
  Where no request outlives its TTL: `SweepSparesTheDispatched`
  (`LostOnlyWithItsMarker`); and where besides nothing is clawed back:
  `PromiseIsFunded` (`EncumbranceFunded`), `StandingSettlementsPass`. The last
  two compare a balance with a sum over all rows of a user: an admission adds a
  row it has just compared with the sum, a settle takes a row out and at most
  its amount from the balance.
* `Sums` proves what they need of `SumFunctionOnSet`, which is defined by a
  recursion over subsets: that the recursion has a solution on a finite set,
  that the order of picking does not matter, and how a sum changes with one
  element or one summand. The provers take no operator as a parameter, so
  induction is stated over a SET of naturals, and each use gives the set of
  the sizes for which the claim holds.
* `AccessProofs`, of `Admission`: `TypeCorrect`, `NothingSlipsBetween`
  (`AdmittedAsAllowed`), `AllowanceUsedOnce` (`AllowanceOnce`), `SpendStaysBounded`
  (`SpendBounded`), for any requests, keys, users, shapes, prices and caps. A
  decision is read in five statements and committed in a sixth; `FiguresStand`
  says which figures read earlier are still true because of the two locks
  (`Locked`), and which may have grown since (`KeyAsSeen`). `SpendBounded` is the
  deepest: a month's spend is split, event by event, into what a reservation
  held, what its shortfall was, and what `Eased` lists; the admission of learned
  sizes keeps at most `LEARNED_SIZING_CONCURRENCY_LIMIT` shortfalls open at once.
  Of `Catalog`: `HoldsCoverCharges` (`ReservationCovers`), `NothingBelowCost`
  (`NeverBelowCost`), `NamesNeverUndercut` (`NeverUndercutsPin`) and
  `CoversEverywhere`, for any rates, thresholds, bounds, reports and files. The
  invariant `PricingInv` says that a request's schedule is one a file that
  loaded gave it and that its bill is a function of that schedule and its
  report. `DearestIsOne` finds a table's dearest rate by the well-foundedness of
  a finite set of numbers, `HoldCovers` bounds every split of a prompt by it,
  `CoversEverywhere` reduces a comparison at every size to the thresholds,
  `DearestAcrossCovers` carries it to unified models, and `RouteIsPriced` says
  that resolution yields only tiers that passed the load.
  Of `Catalog` and `Upkeep` together: `WhatIsPublishedIsTrue`
  (`PublishedHonestly`), for any files, inventory, dossiers and pages. What a row
  of `/v1/models` says is a matter of one file: in a file that loads a lane has one
  owner (`OneOwner`), and a tier named like a lane is that lane's own
  (`NamedByItsOwn`), so the row and the route are read off the same tier
  (`RouteOfLane`, `RowIsHonest`). A label outlives its file: a lane carries why it
  may be called zero (`LaneHonest`), a pin what was read for it (`PinRead`), a draft
  what its lane will be (`DraftSays`), and neither a merge nor a new label of the
  provider changes what they carry.
  Of `Upkeep`: `ReportsStayTrue` (`ReportsTrue`), for any two public catalogs and at
  every size of prompt. A lane of the file is what the loader let through
  (`FiledInv`), so that thresholds which agree one for one and in order put a prompt
  in the same band on both sides (`SameBandAt`), and state each band once, which is
  what the second catalog is held against (`EachBandOnce`). A lane's listing is
  another spelling of its own model, which is why `discover` does not report it.
  Of `Attempts`: `CostsAreBooked` (`CostsBooked`), for routes of any length, schedules,
  consumptions and reports, and whichever build settles. `AttemptsInv` holds each
  position against its record (`Faithful`: priced by its report, or marked as lacking
  one), and what is owed against the one position that was served (`DueAs`), so the row
  is its sum over the others (`Sums`) and the cost of that one. What an older payload
  lacks (`Lacking`) changes no figure of the row, and marks it incomplete.
* `RouteProofs`: a route, in any catalog and whatever health says while it is
  ordered, is a sequence of rungs of its candidates; the ordering neither loses
  nor adds one and on a routed id puts the zero-retention ones first. `Among` and
  `FirstThose` of `Partitions` are recursive functions over a sequence's length,
  shown to have a solution by the same induction; they take a set and not a test,
  as the provers instantiate no operator. `PartitionOrdered` says what makes a chain
  of them an order: what was ordered by a relation is afterwards ordered by the set
  first and by that relation next (`Finer`).
* `WalkProofs`: `TypeCorrect` (every index the walk uses is a position of its
  route: `Fitted`, `Placed`), `RetentionOrderHolds` (`ZeroRetentionFirst`),
  `OnlyAllowedDispatches` (`DispatchesAllowed`), `EveryStepNearer`
  (`NearerToItsEnd`, whose measure is a sum over the rungs that are left),
  `PromiseKept` (`KeepsPromise`, the refinement of `Metered`) and
  `RetentionFailureTold` (`RetentionFailureReported`). `Armed` says that a
  provider was armed by a rung that carried the customer's key for it and failed
  with a covered class, which is what `DispatchesAllowed` says of every twin that
  was dispatched to; it holds in any catalog, of tiers with several models of one
  provider too (section 6).
* `StreamWalkProofs`: `OneAnswer` (`NeverTwoAnswers`), `DeliveryIsAccounted`
  (`DeliveryAccounted`). The invariant says that only a walk inside a stream may have sent anything, which
  is what makes the fall-through of a broken stream safe. And `TypeCorrect`,
  `HouseWalksSettle` (`AlwaysSettles`; by `RungLeft` the floor of the health
  backstop leaves a rung to dispatch to), `PromiseKept` (`KeepsPromise`) and
  `FallbacksEarned` (`FallbackEarned`, by the same `Armed`).
  Of `Streams`: `RoutesAsDeclared` (`RoutedAsDeclared`), from the specifications of
  its three parts. Of `Inventory`, for any shipped entries, operator files,
  environments, tables and wallets: `BuiltRight` is what holds after each candidate
  of the table, by an induction over its length. A client is the one its slot stands
  for whoever put it there (`ClientsRight`), because two candidates of one slot are
  on one plane (`SamePlane`); a provider that was given up could be reached by none
  (`GivenUpRightly`); whom a rung is billed to, whose key it sends and whether it
  attests then follow from its slot. Of `Selection`, for any lanes, routes, requests
  and medians, and whatever each read of the estimator and of health says: each pass
  refines the relation of the one before it (`AsSorted`, `AsAsked`, `AsFit`,
  `AsRead`), none loses a rung (`Whole`), and the last of them compares column by
  column (`ReadPrecedes`). The expected cost of a rung is the one looked up for it
  however the lookups fell (`CostOfPriced`). And `UsageStaysKept` (`UsageKept`), from
  the specifications of the two streams, for any reports, calls and order of frames.
  Of chat completions: what is accepted goes back to one snapshot, which states what
  it states and leaves the rest to those before it (`Traced`), and nothing is yielded
  before the end, where that and nothing else is (`BilledAtTheEnd`). Of Messages
  events: the snapshots sent and not yet heard are in the pipe, and whatever is sent
  again or cut off, none comes before the one it follows (`InLine`); a frame handled
  is an old snapshot or the next, and the next raises the counters to what they stood
  at then (`RisesToTheNext`); a machine that ended has yielded that figure once, if it
  can be billed.
* `LedgerProofs`, of `Reversals`: `TakenBackOnce`, `NoReversalForgotten`,
  `DisputeStopsSpending`, `TombstonesAreHonest`, `LateCreditIsNeverSpendable`.
  The invariant relates three places a reversal can be remembered: its handler
  (`Stages`: which steps it has behind it), the tombstone (`Remembered`: an
  acknowledged one without its credit has left its amount there) and the ledger.
  Of `Checkout`: `CreditedAsAsked`, `NothingSoldIsRefused`, for any amounts,
  taxes, instances, handlers and batches, under the order of the windows that
  `CheckoutAssumption` states. In `CheckoutIInv` everything a purchase is checked
  against is a function of its session's claim: the price, the record, the forms,
  the cached entries. A form found in the cache by its price is one for its
  amount because the price grows with the amount (`PriceGrows`,
  `PriceTellsAmount`). A record is there as long as an event may come
  (`RecordedWhileDue`): one that is gone was made longer ago than a session is
  paid and its event repeated.
  Of `Autopay`: `AutopayTypeCorrect` and `CreditedAtMostOnce` (`CreditedOnce`), for
  any number of keys, cards and sweeping instances, which the runs keep to one. A
  sweep settles on an answer it read earlier, so the invariant adds that such an
  answer stays true (`Knows`): a charge Stripe collected is never uncollected.
  `CollectedStaysKept` (`CollectedIsKept`) under `OneInstance`: a sweep on its way
  to a charge holds an open claim, and one that is about to fail it has seen no
  charge (`Grounded`), which is true only as long as nobody else acts on that
  claim; with two instances the property is false (section 6).
  Of `Estimator`: `LearnedOnlyOnEvidence` (`LossesConsulted`), for any ledger,
  limits, windows and restarts. A cell is fresh only in the tick its pass ended in,
  and a pass judges before it applies (`JudgedInOrder`), so what a fresh cell stands
  for was judged in this tick (`FreshIsJudged`).
  Of `RedemptionTax`: `SpendingIsTaxedOnce` (`TaxAccounted`), for any number of
  sweeps, users and crashes, any amounts and any figure Stripe may calculate. All
  that is claimed of a user is a function of its ledger, its row and its periods
  (`Books`). A step appends an entry, opens a period over what none covers yet
  (`Unswept`), or rewrites a period within what it was debited for, and one lemma
  says of each that the books stay in order. The sums of usage, exemption and tax
  are added up over spans that do not overlap (`AmountJoins`). What a sweep listed
  may be stale by the time it acts; that a user is enrolled and that a listed row
  was debited is not (`SweepOk`), and what was filed is what was debited
  (`FiledOk`).
* `PortalProofs`, of `SignIn`: `SignedIn` (`SignedInAsThemselves`), for any number
  of browsers, overlapping callbacks, people and addresses. A state row is
  deleted by the callback that uses it, so a login is held by one callback or
  spent (`LoginsOnce`); a callback knows its subject from the exchange on
  (`Owned`); an address is granted its credit by the callback whose insert created
  its account, which is none the operator created (`Ungranted`).
  Of `Keys`: `MintsFit` (`MintsWithinLimits`), for any number of users, grants and
  mints at once: whoever has counted holds the user's row until it inserts
  (`RowHeld`), so what it was admitted on still stands (`StillAdmitted`); a grant
  mints once because its mint holds the grant's row as well (`GrantHeld`,
  `MintedIsClaimed`).
  Of `KeyCache` and `Tokens`: `CredentialsFresh` (`CachedIsFresh`), for any routers,
  keys, lookups and lifetimes. An entry is within what its row said, or the row was
  edited after its lookup began (`LookupsInformed`, `EntriesBounded`). At the token
  cell the mutex serves in order of arrival, so the clocks read before it are
  ascending (`Queued`): a token its holder could not use nobody behind it can use,
  and one that was paid for is in the cell for whoever can (`PaidFor`).

Assumptions of `Inventory`: what is shipped is sound and shares no variable
(`ShippedAssumption`, which TLC evaluates on the entries of the run), a surface has
an address (`AddressesAssumption`, the type of the field), and no file of an operator
has one variable both minted from and sent as it stands (`FilesAssumption`). The code
does not refuse such a file, and under it an entry sends what was minted for another
(section 6); `DialsAsBilled` is claimed of the rest. `SelectionAssumption` says what a
catalog that loads declares.

Assumptions of the streams and of the walk's ledger (`UsageAssumptions` of `MCWires`,
`LedgerAssumption` of `MCAccess`, evaluated by TLC): a
report states naturals or nothing (`ChatAssumption`); the counters of a Messages stream
are cumulative, as the dialect documents them (`MessagesAssumption`); a call has a
prompt, and a schedule is one that loads (`AttemptsAssumption`). The `Messages` machine
keeps the largest figure it heard, so without cumulative counters it bills a figure
that was corrected downwards.

Hypotheses beside the modules' assumptions. `OneInstance` (one autopay sweep at a
time) marks the place where a property is false without it (section 6). "No request outlives its
TTL" and "nothing is clawed back" are those of section 3. `CheckoutAssumption`
orders Stripe's windows as the code's constants do. `SpellingsAssumption` says that
`canonical` reads a name the same with its date and without, and with its publisher
and without. It does of every name with one date; a name with a deployment marker in
front of its date (`x-v1-20250101`) it reads in two ways, and of such a lane `discover`
may report the undated listing again. No lane of `tiers.toml` bears such a name.

Model-checked only. Everything under fairness, since liveness and `ENABLED` are
beyond the provers: `WalkTerminates`, `DebtResolved`, `ClaimsEnd`,
`ReversalHappens`. What rests on an induction over data, which the provers cannot
be given (a theorem with an operator for a parameter), or on an operator they have
no definition of: which fragments of a stream make a call, and what the folds over a
conversation's items leave of them (`AnswerWhole`, `ArrivesWhole`). All else the
passing runs check of safety is a theorem.

## 6. Where code and documentation part

Shown by a run (`findings` in `PROJECT.json`):

* `stream_lost`: a client that leaves before the opening frame is queued is
  billed for output none of which was sent: `client_connected` becomes false
  without `model_output_attempted` ever being set (`api.rs:3798`, against
  `api.rs:4499`).
* `autopay_double`: the saved card is read again on every replay; after a lost
  answer and a card change the claim is failed although money moved, and the
  next sweep charges again (against `billing.rs:1941`).
* `walk_optin`: the 429 that arms the fallback also demotes the entry the twin
  shares, so the health backstop skips the twin (against
  `docs/DEPLOY.md:1425`).
* `tax_uncovered`: a period's tax is collected without regard to open
  reservations, so a settle finds less than admission had verified (against
  `db.rs:3147`).
* `boundary_named`: a `cache_control` on a part of a system prompt is accepted
  and counted, and dropped when its message is flattened (against
  `openai.rs:352`).
* `cogs_double`: an empty stream that reports usage is billed with an attempt
  marked as not served; its cost is counted on both sides of the row (against
  `db.rs:501`).

Met while modelling and not kept as runs:

* The failure stamp of a late request sets `quarantined_at` to NULL on its
  intentless row (`db.rs:3239`), although `migrations/0015:93` says nothing ever
  clears it.
* A row selected for replay may be released before the replay; the `Forgiven`
  arms called unreachable (`db.rs:3407`, `db.rs:3479`) are reached, harmlessly.
* The floor of the health backstop counts positions, not rungs that may be
  dispatched (`api.rs:2643`, `health.rs:140`): with the customer's key cooling
  and its twin unarmed, a walk may end without one dispatch. A streaming walk
  that dispatched nothing settles nothing and leaves its row to the TTL sweep.
* Arming is per provider (`api.rs:2866`), not per rung as `api.rs:2613` and
  `providers.rs:1704` have it: a tier with two models of one attached provider
  may dispatch the second model's twin although that model's own key never ran.
  `FallbackEarned` says what the code gives: the customer's own key for that
  provider ran and failed with a covered class. The instance of `streams` is such a
  tier. Ordering may also put a twin ahead of the rung it stands in for.
* A call its upstream clipped is handed over as far as it came. A chat stream that
  states its `finish_reason`, or ends with `[DONE]`, in the middle of a call is
  flushed like any other (`wire/chat_completions.rs:940`), a Messages block closed
  early likewise, and the client is told "tool_calls" (`openai.rs:1447`), as row 4 of
  the table at `openai.rs:1508` grants; that the output was clipped is only in the
  usage row. `AnswerWhole` therefore claims of a call handed over that it is what was
  sent of it, complete or not. A Messages block left open at `message_stop` is dropped
  without an error (`wire/anthropic.rs:831`).
* With two instances sweeping (`Sweeps` of size two) one may charge a replayed
  claim while the other finds no card and fails it. `attach_autopay_intent`
  (`billing.rs:2022`) then renames the row whatever its status,
  `settle_autopay_intent` answers `AlreadySettled`, and the money is neither
  credited nor kept for a refund, against `stripe.rs:5117` and
  `docs/DEPLOY.md:242`. The runs keep to one instance, and `CollectedStaysKept`
  assumes it.
* A request whose BYOK fee was waived at admission holds nothing. A later request
  of another key that is not waived may settle first on the same allowance; the
  first then settles with a fee above what it holds, the debit is clamped to zero
  and the cap passed by that fee, against `db.rs:1911`, `db.rs:2870` and
  `db.rs:4234`. `SpendBounded` grants it as `Overtaken`.
* `docs/ARCHITECTURE.md:71` and `docs/SECURITY.md:41` say a response without
  usage settles at its bound; the code settles it at zero.
* The usage a stream's own reader still holds is dropped when the deadline or a
  drain interrupts it; and the last snapshot of a broken stream is recorded as
  "measured", so `attempts_cost_basis_complete` may be TRUE on a lower bound.
  `LossesWhole` is therefore relative to what was reported. A position that was
  skipped makes a row incomplete though it cost nothing.
* `ChatCompletionsStreamMachine.usage` (`wire/chat_completions.rs:618`) says
  "never a blend of two"; `replaced_by` completes a later report with the
  earlier one's figures where the later is silent.
* `translate_function_call` (`responses.rs:563`) says it merges into the
  preceding assistant turn; an item between the two prevents it.
* Comments that promise more than the statements beside them: the waiver of
  `db.rs:1911` and the failed read of `api.rs:1325`, whose decisions a later
  read may contradict; `REVERT_COOLDOWN` of `estimator.rs`, which a restart
  ends; the "one snapshot" of `enroll_users` (`redemption_tax.rs:303`), which is
  two statements; `oidc.rs:497`; "a paid or stale session is never re-served"
  (`stripe.rs:771`), true of the instance that read the status alone; a token
  "good for at least REFRESH_SKEW" (`gcp_auth.rs:424`), which a token that was
  granted for less is not, and the clock is read before the wait.
* A chat report with cached tokens and no prompt is accepted as any other; one after it
  that counts fewer cached tokens is then refused whole, prompt and completion with it
  (`wire/chat_completions.rs:568`), and the stream settles without usage. `Coherent`
  excepts such reports from the second part of `UsageKept`.
* `migrations/0005`'s CHECK is superseded by 0016.
* `/v1/models` lists a tier of several lanes under its vendor's name by rules
  (`config.rs:1094`, `1216`) other than those that resolve it (`1584`).
* `Verdict::Unpriced` (`drift.rs`) is not given to an entry whose cost is empty:
  it compares as a match of nothing with nothing. Upstream bands are compared in
  the order they are published.
* `claims()` of `retention.rs` reads the overrides of served tiers only;
  reconcile and discover also read withheld ones. A draft that loads in its own
  fragment may refuse the whole file it is merged into.
* The `free` and `keyless` rules of the inventory look at an entry's own adapter,
  not at those of its surfaces; two entries that name one credential variable
  under different kinds share what it is exchanged for.

## 7. Not modelled, and what is next

Left out, and why:

* The free lane reserves nothing and writes one row; its walk is the metered
  one's without a session.
* HTTP clients, signatures, encryption, error texts, encoding of bodies and
  images: pure, and tested as such in the repository.
* Tax amounts of a recharge and their recording at Stripe, a mismatched amount,
  a missing customer, the review queue and `record_recovery`, which annotate
  rows and decide nothing the models hold.
* Of the upkeep commands: flags and wording, price deltas of the second source,
  corroboration with a router's directory, leads for new providers.
* The override URLs of the inventory, which only test harnesses set.
* Process shell, portal front end, deployment scripts: no state of their own.

Next, in this order: the proof of `AnswerWhole`, whose invariant says of each slot
which call it assembles and how much of it; recursive functions in place of the folds
of `Conversation`, as `Partitions` and `Assembled` are written; a second sweeping instance in `Autopay` once `stripe.rs:5120` is decided; the tax amounts of
a recharge.
