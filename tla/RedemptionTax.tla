---------------------------- MODULE RedemptionTax ----------------------------
(***************************************************************************)
(* Sales tax on credit as it is spent (router/src/redemption_tax.rs): a    *)
(* sweep enrolls users, tiles their usage into periods, prices each period *)
(* with the tax service, debits it from the balance and files it.  Every   *)
(* instance runs the sweep; instances race each other, the settlements and *)
(* the deposits of the same users, and may stop between any two statements.*)
(*                                                                         *)
(* A user's ledger is the sequence of its committed entries, an entry's id *)
(* its place in it: every writer of a user's ledger holds that user's      *)
(* advisory lock from before the insert until the commit.                  *)
(***************************************************************************)
EXTENDS Integers, Sequences, FiniteSets, FiniteSetsExt, Functions

CONSTANTS
    Spenders,
    TaxSweeps,             \* the sweep loops of the router instances
    Opening,            \* a deposit every user made before anything else
    Amounts,            \* what admission may reserve and settlement charge
    Cent,               \* one cent, in the unit of Amounts
    TaxFigures,              \* the figures, in that unit, a calculation may return
    NoFigure,           \* a figure or a marker that is NULL
    Topup,              \* what a later deposit brings
    MaxUsage,           \* bound: usage entries of a user
    MaxDeposits,        \* bound: deposits of a user
    MaxCrashes          \* bound: sweeps that stop half-way

ASSUME TaxAssumption ==
    /\ {Opening, Topup, Cent, MaxUsage} \subseteq Nat
    /\ Amounts \subseteq Nat /\ TaxFigures \subseteq Nat /\ NoFigure \notin Int

VARIABLES
    ledger,     \* ledger[u]: committed entries, [type, amount]
    held,       \* held[u]: what u's reservation in flight encumbers, or 0
    settling,   \* settling[u]: the debit of a settlement that holds u's locks
                \* and has not committed, or 0
    users,      \* u's redemption tax columns; whether u is older than
                \* ACTIVATION, the first enrollment anywhere; u's address
    periods,    \* redemption_tax_periods: periods[u] in order of insertion
    sweep,      \* per sweep: the pass, its work list, the item and its answer
    filed,      \* external: the tax transactions, by reference
    crashes     \* bound: sweeps stopped so far

taxVars == <<ledger, held, settling, users, periods, sweep, filed, crashes>>

\* credit_balance_usd: what the committed entries add up to.
BalanceAt(u, id) == SumFunction([i \in 1..id |-> ledger[u][i].amount])
Balance(u) == BalanceAt(u, Len(ledger[u]))

Positive(n) == Max({n, 0})

Enrolled(u) == users[u].cursor # NoFigure
Resting == [at |-> "idle", todo |-> {}, item |-> NoFigure, answer |-> NoFigure]

TaxInit ==
    /\ ledger = [u \in Spenders |-> <<[type |-> "deposit", amount |-> Opening]>>]
    /\ held = [u \in Spenders |-> 0]
    /\ settling = [u \in Spenders |-> 0]
    /\ users \in [Spenders -> {[older |-> older, cursor |-> NoFigure, granted |-> 0,
                             exempt |-> 0, address |-> FALSE] :
                               older \in BOOLEAN}]
    /\ periods = [u \in Spenders |-> <<>>]
    /\ sweep = [w \in TaxSweeps |-> Resting]
    /\ filed = {}
    /\ crashes = 0

-----------------------------------------------------------------------------
(* What users do meanwhile.                                                *)

Append1(u, type, amount) ==
    ledger' = [ledger EXCEPT ![u] = Append(@, [type |-> type, amount |-> amount])]

Usages(u) == {i \in DOMAIN ledger[u] : ledger[u][i].type = "usage"}

Free(u) == settling[u] = 0

\* A deposit, under the user's lock.
Deposit(u) ==
    /\ Free(u)
    /\ Cardinality({i \in DOMAIN ledger[u] : ledger[u][i].type = "deposit"})
         < MaxDeposits
    /\ Append1(u, "deposit", Topup)
    /\ UNCHANGED <<held, settling, users, periods, sweep, filed, crashes>>

\* Admission reserves what the balance covers.
Admit(u) ==
    /\ Free(u) /\ held[u] = 0
    /\ Cardinality(Usages(u)) < MaxUsage
    /\ \E amount \in Amounts : /\ amount <= Balance(u)
                               /\ held' = [held EXCEPT ![u] = amount]
    /\ UNCHANGED <<ledger, settling, users, periods, sweep, filed, crashes>>

\* settle_once: its debit is clamped to what admission reserved; it holds the
\* user's locks, the balance's row among them, until it commits.
SettleBegins(u) ==
    /\ Free(u) /\ held[u] > 0
    /\ \E debit \in Amounts : /\ debit <= held[u]
                              /\ settling' = [settling EXCEPT ![u] = debit]
    /\ UNCHANGED <<ledger, held, users, periods, sweep, filed, crashes>>

SettleCommits(u) ==
    /\ settling[u] > 0 /\ Balance(u) >= settling[u]
    /\ Append1(u, "usage", -settling[u])
    /\ settling' = [settling EXCEPT ![u] = 0]
    /\ held' = [held EXCEPT ![u] = 0]
    /\ UNCHANGED <<users, periods, sweep, filed, crashes>>

\* external: the trigger of migration 0009 aborts a debit that overdraws; the
\* reservation stays, to be settled again.
SettleRefused(u) ==
    /\ settling[u] > Balance(u)
    /\ settling' = [settling EXCEPT ![u] = 0]
    /\ UNCHANGED <<ledger, held, users, periods, sweep, filed, crashes>>

\* store_buyer_address and backfill_buyer_address_if_absent: from then on the
\* user has a usable address; neither takes the user's locks.
StoreAddress(u) ==
    /\ ~users[u].address
    /\ users' = [users EXCEPT ![u].address = TRUE]
    /\ UNCHANGED <<ledger, held, settling, periods, sweep, filed, crashes>>

-----------------------------------------------------------------------------
(* The passes of a sweep.                                                  *)

AtStep(w, step) == sweep[w].at = step
Turn(w, step, todo) == sweep' = [sweep EXCEPT ![w] =
    [at |-> step, todo |-> todo, item |-> NoFigure, answer |-> NoFigure]]

\* run_redemption_tax_sweep_once begins; the enrollment statement takes its
\* snapshot: the last ledger id of every user it does not see enrolled.
SweepBegins(w) ==
    /\ AtStep(w, "idle")
    /\ Turn(w, "enrolling",
            {[user |-> u, cursor |-> Len(ledger[u])] :
                u \in {v \in Spenders : ~Enrolled(v)}})
    /\ UNCHANGED <<ledger, held, settling, users, periods, filed, crashes>>

\* The rows the statement updates wait for a settlement that holds them and
\* are re-read: an enrolled one is left alone, the balance of another is the
\* row's own while its cursor stays the snapshot's.
EnrollmentCommits(w) ==
    LET rows == sweep[w].todo IN
    /\ AtStep(w, "enrolling")
    /\ \A row \in rows : Free(row.user)
    /\ users' = [u \in Spenders |->
          IF \E row \in rows : row.user = u /\ ~Enrolled(u)
            THEN LET row == CHOOSE x \in rows : x.user = u
                     grant == IF users[u].older THEN Positive(Balance(u)) ELSE 0
                 IN  [users[u] EXCEPT !.cursor = row.cursor,
                                      !.granted = grant, !.exempt = grant]
            ELSE users[u]]
    /\ Turn(w, "enrolled", {})
    /\ UNCHANGED <<ledger, held, settling, periods, filed, crashes>>

\* The enrollment fails; the next sweep retries it.
EnrollmentFails(w) ==
    /\ AtStep(w, "enrolling")
    /\ Turn(w, "enrolled", {})
    /\ UNCHANGED <<ledger, held, settling, users, periods, filed, crashes>>

\* GREATEST(from_ledger_id, MAX(through_ledger_id)).
Cursor(u) == Max({users[u].cursor} \cup
                 {periods[u][i].through : i \in DOMAIN periods[u]})

Fresh(u) == {i \in Usages(u) : i > Cursor(u)}

\* open_periods lists the enrolled users with usage past their cursor, or fails.
ListFresh(w) ==
    /\ AtStep(w, "enrolled")
    /\ \E todo \in {{u \in Spenders : Enrolled(u) /\ Fresh(u) # {}}, {}} :
         Turn(w, "opening", todo)
    /\ UNCHANGED <<ledger, held, settling, users, periods, filed, crashes>>

Spent(u, ids) == -SumFunction([i \in ids |-> ledger[u][i].amount])

Period(u) ==
    LET usage == Spent(u, Fresh(u))
        exempt == Min({users[u].exempt, usage})
    IN  [from |-> Cursor(u), through |-> Max(Fresh(u)), usage |-> usage,
         exempt |-> exempt, taxable |-> usage - exempt, tax |-> NoFigure,
         debited |-> FALSE, collected |-> 0, entry |-> NoFigure,
         recorded |-> FALSE]

Next1(w, x) == sweep' = [sweep EXCEPT ![w].todo = @ \ {x},
                                      ![w].item = NoFigure,
                                      ![w].answer = NoFigure]

\* The exemption the period used leaves the user's row in the same transaction.
ExemptionUsed(u) == users' = [users EXCEPT ![u].exempt = @ - Period(u).exempt]

\* open_period_for: under the user's lock, the cursor read again; nothing to do
\* if a racing sweep has taken the span.
OpenPeriod(w, u) ==
    /\ AtStep(w, "opening") /\ u \in sweep[w].todo
    /\ Free(u)
    /\ Next1(w, u)
    /\ IF Fresh(u) # {}
         THEN /\ periods' = [periods EXCEPT ![u] = Append(@, Period(u))]
              /\ ExemptionUsed(u)
         ELSE UNCHANGED <<periods, users>>
    /\ UNCHANGED <<ledger, held, settling, filed, crashes>>

\* Any one item fails: a statement, a lock that took over five seconds, a
\* refused or unreadable answer, an address that is missing.
ItemFails(w) ==
    /\ sweep[w].at \in {"opening", "pricing", "collecting", "recording"}
    /\ \E x \in sweep[w].todo :
         /\ sweep[w].item \in {NoFigure, x}
         /\ Next1(w, x)
    /\ UNCHANGED <<ledger, held, settling, users, periods, filed, crashes>>

Ids == {<<u, i>> : u \in Spenders, i \in 1..MaxUsage}
Rows == {p \in Ids : p[2] \in DOMAIN periods[p[1]]}
Row(p) == periods[p[1]][p[2]]

\* The next pass starts from its own listing, once this one's is worked off.
ListRows(w, done, step, eligible) ==
    /\ AtStep(w, done) /\ sweep[w].todo = {}
    /\ \E todo \in {eligible, {}} : Turn(w, step, todo)
    /\ UNCHANGED <<ledger, held, settling, users, periods, filed, crashes>>

ListUnpriced(w) ==
    ListRows(w, "opening", "pricing", {p \in Rows : Row(p).tax = NoFigure})

Write(p, row) == periods' = [periods EXCEPT ![p[1]][p[2]] = row]

\* The UPDATE ... WHERE tax_usd IS NULL that freezes a figure.
Frozen(p, tax) ==
    IF Row(p).tax = NoFigure THEN Write(p, [Row(p) EXCEPT !.tax = tax])
    ELSE UNCHANGED periods

NothingToTax(p) == Row(p).taxable < Cent

\* freeze_zero_tax: under one whole cent, nothing is asked and nothing filed.
FreezeZero(w, p) ==
    /\ AtStep(w, "pricing") /\ p \in sweep[w].todo /\ sweep[w].item = NoFigure
    /\ NothingToTax(p)
    /\ Frozen(p, 0)
    /\ Next1(w, p)
    /\ UNCHANGED <<ledger, held, settling, users, filed, crashes>>

\* calculate_period_tax answers with an exclusive figure and a calculation.
Calculate(w, p) ==
    /\ AtStep(w, "pricing") /\ p \in sweep[w].todo /\ sweep[w].item = NoFigure
    /\ ~NothingToTax(p) /\ users[p[1]].address
    /\ \E tax \in TaxFigures :
         sweep' = [sweep EXCEPT ![w].item = p, ![w].answer = tax]
    /\ UNCHANGED <<ledger, held, settling, users, periods, filed, crashes>>

FreezeFigure(w, p) ==
    /\ AtStep(w, "pricing") /\ sweep[w].item = p
    /\ Frozen(p, sweep[w].answer)
    /\ Next1(w, p)
    /\ UNCHANGED <<ledger, held, settling, users, filed, crashes>>

\* A dry run ends here; instances need not agree on the mode.
DryRunEnds(w) ==
    /\ AtStep(w, "pricing") /\ sweep[w].todo = {}
    /\ Turn(w, "idle", {})
    /\ UNCHANGED <<ledger, held, settling, users, periods, filed, crashes>>

ListUncollected(w) ==
    ListRows(w, "pricing", "collecting",
             {p \in Rows : Row(p).tax # NoFigure /\ ~Row(p).debited})

\* Mutant: trusting the listing.
StillListed(p) == TRUE

\* The row read FOR UPDATE under the user's lock: priced and not debited yet.
StillUncollected(p) == Row(p).tax # NoFigure /\ ~Row(p).debited

\* collect_period: what the balance covers, with its ledger entry, the rest
\* absorbed; the whole under the user's lock.
CollectPeriod(w, p) ==
    LET u == p[1]
        take == Min({Row(p).tax, Positive(Balance(u))})
    IN
    /\ AtStep(w, "collecting") /\ p \in sweep[w].todo
    /\ Free(u)
    /\ Next1(w, p)
    /\ IF StillUncollected(p)
         THEN /\ IF take > 0 THEN Append1(u, "tax", -take) ELSE UNCHANGED ledger
              /\ Write(p, [Row(p) EXCEPT
                      !.debited = TRUE, !.collected = take,
                      !.entry = IF take > 0 THEN Len(ledger[u]) + 1 ELSE NoFigure])
         ELSE UNCHANGED <<ledger, periods>>
    /\ UNCHANGED <<held, settling, users, filed, crashes>>

\* tax_calculation_id is set: a calculation priced the row.
Calculated(row) == row.tax # NoFigure /\ row.taxable >= Cent
Unrecorded(row) == row.debited /\ Calculated(row) /\ ~row.recorded
ListUnrecorded(w) ==
    ListRows(w, "collecting", "recording", {p \in Rows : Unrecorded(Row(p))})

\* external: create_from_calculation under the reference of the period, which
\* deduplicates a retry; the answer may be lost, see ItemFails.
Filing(p, tax) ==
    IF \E t \in filed : t.reference = p THEN filed
    ELSE filed \cup {[reference |-> p, tax |-> tax]}

File(w, p) ==
    /\ AtStep(w, "recording") /\ p \in sweep[w].todo /\ sweep[w].item = NoFigure
    /\ filed' = Filing(p, Row(p).tax)
    /\ sweep' = [sweep EXCEPT ![w].item = p]
    /\ UNCHANGED <<ledger, held, settling, users, periods, crashes>>

StampRecorded(w, p) ==
    /\ AtStep(w, "recording") /\ sweep[w].item = p
    /\ Write(p, [Row(p) EXCEPT !.recorded = TRUE])
    /\ Next1(w, p)
    /\ UNCHANGED <<ledger, held, settling, users, filed, crashes>>

SweepEnds(w) ==
    /\ AtStep(w, "recording") /\ sweep[w].todo = {}
    /\ Turn(w, "idle", {})
    /\ UNCHANGED <<ledger, held, settling, users, periods, filed, crashes>>

\* The process stops and another starts its loop; open transactions roll back.
SweepStops(w) ==
    /\ ~AtStep(w, "idle") /\ crashes < MaxCrashes
    /\ crashes' = crashes + 1
    /\ Turn(w, "idle", {})
    /\ UNCHANGED <<ledger, held, settling, users, periods, filed>>

PerPeriod(w, p) ==
    FreezeZero(w, p) \/ Calculate(w, p) \/ FreezeFigure(w, p)
    \/ CollectPeriod(w, p) \/ File(w, p) \/ StampRecorded(w, p)

Pass(w) ==
    \/ SweepBegins(w) \/ EnrollmentCommits(w) \/ ListFresh(w)
    \/ ListUnpriced(w) \/ DryRunEnds(w) \/ ListUncollected(w)
    \/ ListUnrecorded(w) \/ SweepEnds(w)
    \/ \E u \in Spenders : OpenPeriod(w, u)
    \/ \E p \in Rows : PerPeriod(w, p)

TaxNext ==
    \/ \E u \in Spenders : StoreAddress(u) \/ Deposit(u) \/ Admit(u)
                        \/ SettleBegins(u) \/ SettleCommits(u)
                        \/ SettleRefused(u)
    \/ \E w \in TaxSweeps : Pass(w) \/ EnrollmentFails(w) \/ ItemFails(w)
                         \/ SweepStops(w)

TaxSpec == TaxInit /\ [][TaxNext]_taxVars

-----------------------------------------------------------------------------
(* Properties.                                                             *)

\* Whatever sweeps race and stop, every usage entry between the enrollment
\* cursor and the last period is in exactly one period, each period's figure is
\* what its span was charged, and what the periods exempted and what is left
\* make up the opening exemption (open_period_for).
TaxedOnce ==
    \A u \in Spenders : Enrolled(u) =>
        LET swept == {i \in Usages(u) : i > users[u].cursor /\ i <= Cursor(u)}
            P == DOMAIN periods[u]
        IN  /\ SumFunction([k \in P |-> periods[u][k].usage]) = Spent(u, swept)
            /\ \A k \in P : periods[u][k].usage =
                 Spent(u, {i \in Usages(u) : i > periods[u][k].from
                                             /\ i <= periods[u][k].through})
            /\ users[u].granted = users[u].exempt
                 + SumFunction([k \in P |-> periods[u][k].exempt])

\* The tax entries of a user's ledger are the debits of its periods, one each
\* and for what the period says it collected, and none took the balance below
\* zero (collect_period).
DebitedOnce ==
    \A u \in Spenders :
        LET taxes == {i \in DOMAIN ledger[u] : ledger[u][i].type = "tax"}
            debited == {k \in DOMAIN periods[u] : periods[u][k].collected > 0}
        IN  /\ Cardinality(taxes) = Cardinality(debited)
            /\ \A k \in debited :
                 ledger[u][periods[u][k].entry].amount = -periods[u][k].collected
            /\ \A i \in taxes : BalanceAt(u, i) >= 0

\* What is filed for a period is the figure its row was priced at and debited
\* for, whichever of several calculations froze first (price_periods,
\* record_periods).
FiledAsPriced ==
    \A t \in filed : /\ Row(t.reference).tax = t.tax
                     /\ Row(t.reference).debited

\* Spent credit is taxed once, debited once, and filed as it was priced
\* (open_period_for, collect_period, record_periods).
TaxAccounted == TaxedOnce /\ DebitedOnce /\ FiledAsPriced

\* A settlement's debit, clamped to what admission reserved, is one the balance
\* still covers (the claim of db.rs where settle_once debits).
SettleCovered == \A u \in Spenders : settling[u] <= Balance(u)
=============================================================================
