------------------------------ MODULE Admission ------------------------------
(***************************************************************************)
(* The admission of a metered request: what its route may dispatch on, how *)
(* much it reserves, the statements of the admission transaction and the   *)
(* gates they feed (router/src/db.rs begin_usage_session, router/src/api.rs *)
(* from the coverage read to admit_usage), together with everything that   *)
(* may run between two of those statements: settles of the same user,      *)
(* revocations and edits of a key, a freeze, credentials attached or       *)
(* removed, expiry.                                                        *)
(*                                                                         *)
(* One user with several keys.  A statement of the database is one action. *)
(* A bring-your-own-key (BYOK) route is billed FeePercent of the catalog   *)
(* price above the month's allowance.  What becomes of a reservation whose *)
(* settle fails is Settlement's subject; here a settle succeeds.           *)
(***************************************************************************)
EXTENDS Integers, FiniteSets, FiniteSetsExt, Functions

CONSTANTS
    Requests,
    Keys,
    Shapes,           \* what a request may be, see Shape below
    SpendCap,         \* SpendCap[k]: api_keys.spend_cap_usd
    VelocityCap,      \* VelocityCap[k]: api_keys.velocity_cap_tokens_per_min
    Limits,           \* credit limits an owner may set on a key
    Deposit,          \* users.credit_balance_usd before the first request
    Allowance,        \* byok::monthly_allowance
    LearnedLimit,     \* LEARNED_SIZING_CONCURRENCY_LIMIT
    RequireCredits,   \* does the deployment gate and debit prepaid credit
    Disturbances,     \* bound: revocations, edits, failed reads, passing of time
    Unlimited,        \* a key without a credit limit
    Unsized,          \* a request the estimator offers no learned size for
    Nothing           \* no row, no event, nothing read yet

\* Catalog prices are counted so that the fee on any is a whole number; the
\* code's decimals divide exactly.
\* A request: the key it presents, whether the free lane admits it, its catalog
\* price and token bound at its own max_tokens, and the same two at the bound
\* the estimator learned (Unsized when the estimator offers none).
Price == {p \in Nat : p % 20 = 0}
Size == [price : Price, tokens : Nat]
Shape == [key : Keys, free : BOOLEAN, full : Size, learned : Size \cup {Unsized}]

Limit == [amount : Nat, window : {"daily", "monthly", "lifetime"}]

\* A learned size is capped at the full one (api.rs, learned_output_bound).
ASSUME RequestsAssumption ==
    /\ IsFiniteSet(Requests) /\ IsFiniteSet(Keys) /\ Nothing \notin Requests
    /\ IsFiniteSet(Shapes) /\ Shapes \subseteq Shape
    /\ \A s \in Shapes :
         s.learned # Unsized => s.learned.price <= s.full.price
ASSUME CeilingsAssumption ==
    /\ SpendCap \in [Keys -> Nat] /\ VelocityCap \in [Keys -> Nat]
    /\ Limits \subseteq Limit \cup {Unlimited}
    /\ Deposit \in Nat /\ Allowance \in Price
    /\ LearnedLimit \in Nat /\ Disturbances \in Nat
    /\ RequireCredits \in BOOLEAN

VARIABLES
    keys,      \* the api_keys rows: disabled, expired, limit
    keyLock,   \* the request whose transaction holds a key's row lock
    userLock,  \* the request whose transaction holds the user's advisory lock
    frozen,    \* users.frozen_at is set
    attached,  \* the user's stored credential: none, kept or with fallback
    balance,   \* users.credit_balance_usd
    pc,        \* where each request is
    shape,     \* what each request is
    sizedAs,   \* the coverage its reservation was sized on
    routedAs,  \* the credentials its route was built on
    seen,      \* what its admission transaction has read so far
    rows,      \* usage_reservations
    owed,      \* what a request's settlement payload says
    events,    \* usage_events
    disturbed  \* bound: disturbances so far

vars == <<keys, keyLock, userLock, frozen, attached, balance, pc, shape,
          sizedAs, routedAs, seen, rows, owed, events, disturbed>>

Postures == {"none", "kept", "fallback"}

KeyOf(r) == shape[r].key

Reservations == [cost : Nat, tokens : Nat, basis : Nat, expired : BOOLEAN,
                 intent : BOOLEAN]
Payloads == [by : {"house", "byok"}, usage : Size]
\* held and late are the model's own: what the row had reserved, and whether it
\* had outlived its TTL, when the event was written.
Events == [cost : Nat, tokens : Nat, catalog : Price, held : Nat,
           age : {"minute", "day", "month", "older"}, late : BOOLEAN]

\* No row and no event is told from every row and every event.
ASSUME NothingAssumption == Nothing \notin Reservations \cup Events

\* What an admission has read after its key statement, after its settled
\* figures and after its in-flight ones.
Ceilings == [userSpendCap : Nat, userVelocityCap : Nat,
             limit : Limits \cup {Unlimited}]
Settled == [caps : Ceilings, spent : Nat, userSpent : Nat, windowSpent : Nat,
            tokens : Nat, userTokens : Nat, consumed : Nat]
Counted == [settled : Settled, held : Nat, userHeld : Nat, tokens : Nat,
            userTokens : Nat, live : Nat, committed : Nat]

TypeOK ==
    /\ keys \in [Keys -> [disabled : BOOLEAN, expired : BOOLEAN,
                          limit : Limits \cup {Unlimited}]]
    /\ keyLock \in [Keys -> Requests \cup {Nothing}]
    /\ userLock \in Requests \cup {Nothing}
    /\ frozen \in BOOLEAN /\ attached \in Postures /\ balance \in Int
    /\ pc \in [Requests -> {"new", "sized", "routed", "locked", "keyed",
                            "unfrozen", "summed", "counted", "refused",
                            "admitted", "owed", "settled", "dead"}]
    /\ shape \in [Requests -> Shapes]
    /\ sizedAs \in [Requests -> Postures]
    /\ routedAs \in [Requests -> Postures]
    /\ seen \in [Requests -> Ceilings \cup Settled \cup Counted \cup {Nothing}]
    /\ rows \in [Requests -> Reservations \cup {Nothing}]
    /\ owed \in [Requests -> Payloads \cup {Nothing}]
    /\ events \in [Requests -> Events \cup {Nothing}]
    /\ disturbed \in 0..Disturbances

\* Ages of a usage event, in the windows the gates look back over.
Ages == <<"minute", "day", "month", "older">>
Within(window) ==
    CASE window = "minute"   -> {"minute"}
      [] window = "daily"    -> {"minute", "day"}
      [] window = "monthly"  -> {"minute", "day", "month"}
      [] window = "lifetime" -> {"minute", "day", "month", "older"}

Init ==
    /\ keys = [k \in Keys |-> [disabled |-> FALSE, expired |-> FALSE,
                               limit |-> Unlimited]]
    /\ keyLock = [k \in Keys |-> Nothing]
    /\ userLock = Nothing
    /\ frozen = FALSE
    /\ attached \in Postures
    /\ balance = Deposit
    /\ pc = [r \in Requests |-> "new"]
    /\ shape \in [Requests -> Shapes]
    /\ sizedAs = [r \in Requests |-> "none"]
    /\ routedAs = [r \in Requests |-> "none"]
    /\ seen = [r \in Requests |-> Nothing]
    /\ rows = [r \in Requests |-> Nothing]
    /\ owed = [r \in Requests |-> Nothing]
    /\ events = [r \in Requests |-> Nothing]
    /\ disturbed = 0

-----------------------------------------------------------------------------
(* Prices.                                                                 *)

FeePercent == 5

\* apply_fee at the fee rate; catalog prices here are multiples of 20.
Fee(catalog) == (catalog * FeePercent) \div 100

\* remaining_allowance.
Remaining(consumed) == IF consumed < Allowance THEN Allowance - consumed ELSE 0

\* billable_above_allowance: the part of one request's catalog price beyond
\* what is left of the month's allowance.
Billable(catalog, consumed) ==
    IF catalog > Remaining(consumed) THEN catalog - Remaining(consumed) ELSE 0

\* byok_reservation_rate: the fee rate only when every rung is the customer's
\* own key without fallback; anything that may end on a house rung is sized at
\* the catalog price.
WhollyByok(posture) == posture = "kept"

\* sized_reservation at one output bound.
Sized(size, posture) ==
    IF WhollyByok(posture) THEN Fee(size.price) ELSE size.price

\* byok_reservation_posture: the catalog price a request may draw from the
\* allowance, nothing when no rung of it can dispatch on the customer's key.
Basis(r) == IF sizedAs[r] = "none" THEN 0 ELSE shape[r].full.price

-----------------------------------------------------------------------------
(* What the statements of an admission sum.                                *)

EventOfUser(window) ==
    {q \in Requests : events[q] # Nothing /\ events[q].age \in Within(window)}

Event(k, window) == {q \in EventOfUser(window) : shape[q].key = k}

Spent(k, window) == SumFunction([q \in Event(k, window) |-> events[q].cost])
SpentByUser == SumFunction([q \in EventOfUser("monthly") |-> events[q].cost])

Tokens(k) == SumFunction([q \in Event(k, "minute") |-> events[q].tokens])
TokensOfUser == SumFunction([q \in EventOfUser("minute") |-> events[q].tokens])

\* Mutant: the allowance counted per key, as before a second key was thought of.
ConsumedByKey(r) ==
    SumFunction([q \in Event(KeyOf(r), "monthly") |-> events[q].catalog])

\* The month's allowance already used: over every key of the user.
Consumed(r) == SumFunction([q \in EventOfUser("monthly") |-> events[q].catalog])

Live(q) == rows[q] # Nothing /\ ~rows[q].expired

\* A reservation counts against its key and user: unexpired, or a recorded debt.
Encumbering == {q \in Requests : Live(q) \/ (rows[q] # Nothing /\ rows[q].intent)}
EncumberingKey(k) == {q \in Encumbering : shape[q].key = k}

Held(S) == SumFunction([q \in S |-> rows[q].cost])
HeldTokens(S) == SumFunction([q \in S |-> rows[q].tokens])
Committed == SumFunction([q \in Encumbering |-> rows[q].basis])
LiveCount == Cardinality({q \in Requests : Live(q)})

\* The user's own ceilings: the largest of the keys still live, and the
\* presenting key's own when none other is.
Siblings(k) == {k} \cup {j \in Keys : ~keys[j].disabled}
UserSpendCap(k) == Max({SpendCap[j] : j \in Siblings(k)})
UserVelocityCap(k) == Max({VelocityCap[j] : j \in Siblings(k)})

\* spend_within_cap and velocity_within_cap: a ceiling reached exactly admits
\* nothing, not even a zero reservation.
WithinCap(settled, reserved, additional, cap) ==
    /\ settled + reserved < cap
    /\ settled + reserved + additional <= cap

-----------------------------------------------------------------------------
(* From the request to its admission transaction.                          *)

Move(r, from, to) == pc[r] = from /\ pc' = [pc EXCEPT ![r] = to]

\* What nothing in the requests themselves brings about is bounded together.
Disturb == disturbed < Disturbances /\ disturbed' = disturbed + 1

\* A read of the user's credentials answers their state, and nothing at all
\* when it fails.
ReadsAs(posture) ==
    \/ posture = attached /\ UNCHANGED disturbed
    \/ posture = "none" /\ Disturb

\* byok_covered_providers: the coverage the reservation is sized on.
ReadCoverage(r) ==
    /\ Move(r, "new", "sized")
    /\ \E posture \in Postures :
         ReadsAs(posture) /\ sizedAs' = [sizedAs EXCEPT ![r] = posture]
    /\ UNCHANGED <<keys, keyLock, userLock, frozen, attached, balance, shape,
                   routedAs, seen, rows, owed, events>>

\* byok_credentials, from provider_route: the credentials the route holds.
BuildRoute(r) ==
    /\ Move(r, "sized", "routed")
    /\ \E posture \in Postures :
         ReadsAs(posture) /\ routedAs' = [routedAs EXCEPT ![r] = posture]
    /\ UNCHANGED <<keys, keyLock, userLock, frozen, attached, balance, shape,
                   sizedAs, seen, rows, owed, events>>

\* The per-user advisory lock, which the free lane does not take.
TakeUserLock(r) ==
    /\ Move(r, "routed", "locked")
    /\ IF shape[r].free
         THEN UNCHANGED userLock
         ELSE userLock = Nothing /\ userLock' = r
    /\ UNCHANGED <<keys, keyLock, frozen, attached, balance, shape, sizedAs,
                   routedAs, seen, rows, owed, events, disturbed>>

\* A transaction's end gives back the locks it holds.
Release(r) ==
    /\ userLock' = IF userLock = r THEN Nothing ELSE userLock
    /\ keyLock' = [k \in Keys |-> IF keyLock[k] = r THEN Nothing ELSE keyLock[k]]
    /\ seen' = [seen EXCEPT ![r] = Nothing]

Refuse(r) ==
    /\ pc' = [pc EXCEPT ![r] = "refused"]
    /\ Release(r)
    /\ UNCHANGED <<keys, frozen, attached, balance, shape, sizedAs, routedAs,
                   rows, owed, events, disturbed>>

\* lock_timeout: a wait for either lock ends in a refusal.
GiveUpWaiting(r) ==
    /\ \/ pc[r] = "routed" /\ ~shape[r].free /\ userLock # Nothing
       \/ pc[r] = "locked" /\ keyLock[KeyOf(r)] # Nothing
    /\ Refuse(r)

\* Mutant: the liveness check as a SELECT, which takes no row lock.
RowLockedByNobody(r) == UNCHANGED keyLock

\* The UPDATE of the key's row holds its lock until the transaction ends.
RowLocked(r) == keyLock' = [keyLock EXCEPT ![KeyOf(r)] = r]

Presentable(k) == ~keys[k].disabled /\ ~keys[k].expired

\* The key statement: liveness under the row lock, both ceilings, the limit.
CheckKey(r) ==
    LET k == KeyOf(r) IN
    /\ pc[r] = "locked"
    /\ keyLock[k] = Nothing
    /\ Presentable(k)
    /\ pc' = [pc EXCEPT ![r] = "keyed"]
    /\ RowLocked(r)
    /\ seen' = [seen EXCEPT ![r] =
                   [userSpendCap |-> UserSpendCap(k),
                    userVelocityCap |-> UserVelocityCap(k),
                    limit |-> keys[k].limit]]
    /\ UNCHANGED <<keys, userLock, frozen, attached, balance, shape, sizedAs,
                   routedAs, rows, owed, events, disturbed>>

KeyRefused(r) ==
    /\ pc[r] = "locked" /\ keyLock[KeyOf(r)] = Nothing
    /\ ~Presentable(KeyOf(r))
    /\ Refuse(r)

\* The freeze gate.
CheckFreeze(r) ==
    /\ Move(r, "keyed", "unfrozen")
    /\ ~frozen
    /\ UNCHANGED <<keys, keyLock, userLock, frozen, attached, balance, shape,
                   sizedAs, routedAs, seen, rows, owed, events, disturbed>>

FrozenOut(r) == pc[r] = "keyed" /\ frozen /\ Refuse(r)

\* The two sweep statements, skipped by the free lane: an expired row goes
\* unless it is a debt.  A dispatched one is parked, which no sum here tells
\* from reclaimed.
Swept(row) ==
    IF row # Nothing /\ row.expired /\ ~row.intent THEN Nothing ELSE row

\* The sweep, then the settled figures: spend by key and user, the minute's
\* tokens, the limit's window, the allowance used.
ReadSettled(r) ==
    LET k == KeyOf(r)
        window == IF seen[r].limit = Unlimited THEN "monthly"
                  ELSE seen[r].limit.window
    IN
    /\ Move(r, "unfrozen", "summed")
    /\ rows' = IF shape[r].free THEN rows
               ELSE [q \in Requests |-> Swept(rows[q])]
    /\ seen' = [seen EXCEPT ![r] =
                   [caps |-> @,
                    spent |-> Spent(k, "monthly"), userSpent |-> SpentByUser,
                    windowSpent |-> Spent(k, window),
                    tokens |-> Tokens(k), userTokens |-> TokensOfUser,
                    consumed |-> Consumed(r)]]
    /\ UNCHANGED <<keys, keyLock, userLock, frozen, attached, balance, shape,
                   sizedAs, routedAs, owed, events, disturbed>>

\* The in-flight figures, in a statement of their own.
ReadHeld(r) ==
    LET mine == EncumberingKey(KeyOf(r)) IN
    /\ Move(r, "summed", "counted")
    /\ seen' = [seen EXCEPT ![r] =
                   [settled |-> @,
                    held |-> Held(mine), userHeld |-> Held(Encumbering),
                    tokens |-> HeldTokens(mine),
                    userTokens |-> HeldTokens(Encumbering),
                    live |-> LiveCount, committed |-> Committed]]
    /\ UNCHANGED <<keys, keyLock, userLock, frozen, attached, balance, shape,
                   sizedAs, routedAs, rows, owed, events, disturbed>>

-----------------------------------------------------------------------------
(* The decision.                                                           *)

\* Mutant: the learned sizing offered one live request too late.
LearnedAllowedOneMore(r) ==
    shape[r].learned # Unsized /\ seen[r].live <= LearnedLimit

\* The concurrency gate on learned sizing, never offered on the free lane.
LearnedAllowed(r) ==
    /\ shape[r].learned # Unsized /\ ~shape[r].free
    /\ seen[r].live < LearnedLimit

ChosenSize(r) == IF LearnedAllowed(r) THEN shape[r].learned ELSE shape[r].full

\* reserves_no_byok_fee: the worst case fits in what is left of the allowance
\* once every request in flight has taken its own worst case.
Waived(r) ==
    /\ WhollyByok(sizedAs[r])
    /\ Basis(r) <= Remaining(seen[r].settled.consumed + seen[r].committed)

ReservedCost(r) ==
    IF Waived(r) THEN 0 ELSE Sized(ChosenSize(r), sizedAs[r])

\* The gates of the transaction, over what it has read.
WithinSpendCaps(r) ==
    LET s == seen[r].settled IN
    /\ WithinCap(s.spent, seen[r].held, ReservedCost(r), SpendCap[KeyOf(r)])
    /\ WithinCap(s.userSpent, seen[r].userHeld, ReservedCost(r),
                 s.caps.userSpendCap)

WithinLimit(r) ==
    LET s == seen[r].settled IN
    s.caps.limit # Unlimited =>
        WithinCap(s.windowSpent, seen[r].held, ReservedCost(r),
                  s.caps.limit.amount)

WithinVelocity(r) ==
    LET s == seen[r].settled IN
    /\ WithinCap(s.tokens, seen[r].tokens, ChosenSize(r).tokens,
                 VelocityCap[KeyOf(r)])
    /\ WithinCap(s.userTokens, seen[r].userTokens, ChosenSize(r).tokens,
                 s.caps.userVelocityCap)

\* The credit gate reads the reservations once more, with the balance.
Funded(r) ==
    RequireCredits => balance - Held(Encumbering) >= ReservedCost(r)

EveryGate(r) ==
    /\ WithinSpendCaps(r) /\ WithinLimit(r) /\ WithinVelocity(r) /\ Funded(r)

\* The reservation's row; the free lane writes none.
Reservation(r) ==
    IF shape[r].free THEN Nothing
    ELSE [cost |-> ReservedCost(r), tokens |-> ChosenSize(r).tokens,
          basis |-> Basis(r), expired |-> FALSE, intent |-> FALSE]

Admit(r) ==
    /\ pc[r] = "counted"
    /\ EveryGate(r)
    /\ pc' = [pc EXCEPT ![r] = "admitted"]
    /\ rows' = [rows EXCEPT ![r] = Reservation(r)]
    /\ Release(r)
    /\ UNCHANGED <<keys, frozen, attached, balance, shape, sizedAs, routedAs,
                   owed, events, disturbed>>

GatedOut(r) == pc[r] = "counted" /\ ~EveryGate(r) /\ Refuse(r)

-----------------------------------------------------------------------------
(* After admission.                                                        *)

\* What a dispatch may be served by: the customer's key, the house's, or with
\* the fallback either of them.
ServedBy(posture) ==
    CASE posture = "none"     -> {"house"}
      [] posture = "kept"     -> {"byok"}
      [] posture = "fallback" -> {"byok", "house"}

\* The usage an answer may report: the full bound goes upstream, whatever the
\* reservation was sized at.
Usages(r) == {shape[r].full} \cup
             (IF shape[r].learned = Unsized THEN {} ELSE {shape[r].learned})

\* The answer is metered (persist_usage) and its settlement payload stored with
\* the reservation; the free lane records its usage off the path, or loses it.
Answer(r) ==
    /\ Move(r, "admitted", "owed")
    /\ \E by \in ServedBy(routedAs[r]), usage \in Usages(r) :
         owed' = [owed EXCEPT ![r] = [by |-> by, usage |-> usage]]
    /\ rows' = IF shape[r].free THEN rows
               ELSE [rows EXCEPT ![r].intent = TRUE]
    /\ UNCHANGED <<keys, keyLock, userLock, frozen, attached, balance, shape,
                   sizedAs, routedAs, seen, events, disturbed>>

\* settle_once takes the same advisory lock as an admission.
SettleSerialized == userLock = Nothing

\* The charge: catalog on the house, the fee above the allowance on the
\* customer's key, never more than the ceiling the request was metered at.
Charge(r) ==
    LET catalog == owed[r].usage.price IN
    IF owed[r].by = "house" THEN catalog
    ELSE Min({Fee(Billable(catalog, Consumed(r))), Fee(catalog)})

\* settle_once: the row goes, the event is written and accrues to every
\* window, the balance pays no more than was reserved.
Settle(r) ==
    /\ Move(r, "owed", "settled")
    /\ ~shape[r].free /\ SettleSerialized
    /\ events' = [events EXCEPT ![r] =
                     [cost |-> Charge(r), tokens |-> owed[r].usage.tokens,
                      catalog |-> IF owed[r].by = "byok"
                                    THEN owed[r].usage.price ELSE 0,
                      held |-> rows[r].cost, age |-> "minute",
                      late |-> rows[r].expired]]
    /\ balance' = IF RequireCredits
                    THEN balance - Min({Charge(r), rows[r].cost}) ELSE balance
    /\ rows' = [rows EXCEPT ![r] = Nothing]
    /\ UNCHANGED <<keys, keyLock, userLock, frozen, attached, shape, sizedAs,
                   routedAs, seen, owed, disturbed>>

\* The free lane's usage row, written off the path and at no cost: or lost.
Observe(r) ==
    /\ Move(r, "owed", "settled")
    /\ shape[r].free
    /\ \/ events' = [events EXCEPT ![r] =
                        [cost |-> 0, tokens |-> owed[r].usage.tokens,
                         catalog |-> 0, held |-> 0, age |-> "minute",
                         late |-> FALSE]]
       \/ UNCHANGED events
    /\ UNCHANGED <<keys, keyLock, userLock, frozen, attached, balance, shape,
                   sizedAs, routedAs, seen, rows, owed, disturbed>>

\* A task dies after its admission, before any answer.
Die(r) ==
    /\ Move(r, "admitted", "dead")
    /\ Disturb
    /\ UNCHANGED <<keys, keyLock, userLock, frozen, attached, balance, shape,
                   sizedAs, routedAs, seen, rows, owed, events>>

\* A reservation outlives its TTL: its task is gone, or its debt unsettled.  A
\* request that still walks is not taken this far: its row would hold nothing
\* any more, and all it settles would come on top of SpendBounded.
Expire(r) ==
    /\ pc[r] \in {"dead", "owed"}
    /\ rows[r] # Nothing /\ ~rows[r].expired
    /\ rows' = [rows EXCEPT ![r].expired = TRUE]
    /\ UNCHANGED <<keys, keyLock, userLock, frozen, attached, balance, pc,
                   shape, sizedAs, routedAs, seen, owed, events, disturbed>>

\* Time passes: an event leaves the shortest window it was still in.
Age(r) ==
    /\ Disturb
    /\ events[r] # Nothing
    /\ \E i \in 1..3 :
         /\ events[r].age = Ages[i]
         /\ events' = [events EXCEPT ![r].age = Ages[i + 1]]
    /\ UNCHANGED <<keys, keyLock, userLock, frozen, attached, balance, pc,
                   shape, sizedAs, routedAs, seen, rows, owed>>

-----------------------------------------------------------------------------
(* The portal, the operator and the clock.                                 *)

\* disable_key, and admin revoke: one UPDATE, which waits for the row's lock.
Disable(k) ==
    /\ Disturb
    /\ keyLock[k] = Nothing /\ ~keys[k].disabled
    /\ keys' = [keys EXCEPT ![k].disabled = TRUE]
    /\ UNCHANGED <<keyLock, userLock, frozen, attached, balance, pc, shape,
                   sizedAs, routedAs, seen, rows, owed, events>>

\* update_key: a read under FOR UPDATE and a write in one transaction, so it
\* too waits for the row's lock and nothing comes between its two statements.
EditLimit(k) ==
    /\ Disturb
    /\ keyLock[k] = Nothing
    /\ \E limit \in Limits : keys' = [keys EXCEPT ![k].limit = limit]
    /\ UNCHANGED <<keyLock, userLock, frozen, attached, balance, pc, shape,
                   sizedAs, routedAs, seen, rows, owed, events>>

\* expires_at passes.
Lapse(k) ==
    /\ Disturb
    /\ ~keys[k].expired
    /\ keys' = [keys EXCEPT ![k].expired = TRUE]
    /\ UNCHANGED <<keyLock, userLock, frozen, attached, balance, pc, shape,
                   sizedAs, routedAs, seen, rows, owed, events>>

\* A dispute or an operator freezes the account, without any lock of admission.
Freeze ==
    /\ Disturb
    /\ ~frozen /\ frozen' = TRUE
    /\ UNCHANGED <<keys, keyLock, userLock, attached, balance, pc, shape,
                   sizedAs, routedAs, seen, rows, owed, events>>

\* The portal's BYOK page: attach, detach, or change the fallback.
ChangeCoverage ==
    /\ Disturb
    /\ attached' \in Postures \ {attached}
    /\ UNCHANGED <<keys, keyLock, userLock, frozen, balance, pc, shape,
                   sizedAs, routedAs, seen, rows, owed, events>>

Progress(r) ==
    \/ ReadCoverage(r) \/ BuildRoute(r) \/ TakeUserLock(r) \/ GiveUpWaiting(r)
    \/ CheckKey(r) \/ KeyRefused(r) \/ CheckFreeze(r) \/ FrozenOut(r)
    \/ ReadSettled(r) \/ ReadHeld(r) \/ Admit(r) \/ GatedOut(r)
    \/ Answer(r) \/ Settle(r) \/ Observe(r) \/ Die(r) \/ Expire(r) \/ Age(r)

Next ==
    \/ \E r \in Requests : Progress(r)
    \/ \E k \in Keys : Disable(k) \/ EditLimit(k) \/ Lapse(k)
    \/ Freeze \/ ChangeCoverage

Spec == Init /\ [][Next]_vars

-----------------------------------------------------------------------------
(* Properties.                                                             *)

\* A key revoked while an admission that presents it is under way either waits
\* for that admission to end or refuses it: nothing is admitted on a key whose
\* revocation has already succeeded (db.rs begin_usage_session, the UPDATE that
\* takes the key's row lock; portal.rs disable_key).
AdmitsLiveKeys ==
    \A r \in Requests :
        pc[r] = "counted" /\ pc'[r] = "admitted" => ~keys[KeyOf(r)].disabled

\* At its commit a reserved request fits, in the figures of that moment, under
\* its key's and its user's ceilings, the key's own limit and the credit left:
\* nothing that settled, or was admitted, since its statements read them can
\* have slipped between two of them (db.rs begin_usage_session).
AdmitsWithinCeilings ==
    \A r \in Requests :
        pc[r] = "counted" /\ pc'[r] = "admitted" /\ ~shape[r].free =>
            LET k == KeyOf(r)
                limit == keys[k].limit
                mine == rows'[r]
            IN
            /\ Spent(k, "monthly") + Held(EncumberingKey(k)) + mine.cost
                 <= SpendCap[k]
            /\ SpentByUser + Held(Encumbering) + mine.cost
                 <= seen[r].settled.caps.userSpendCap
            /\ limit # Unlimited =>
                 Spent(k, limit.window) + Held(EncumberingKey(k)) + mine.cost
                   <= limit.amount
            /\ RequireCredits => balance - Held(Encumbering) >= mine.cost

\* Both, of the one statement that admits (db.rs begin_usage_session).
AdmittedAsAllowed == [][AdmitsLiveKeys /\ AdmitsWithinCeilings]_vars

\* What a learned reservation may leave unreserved, at most.
Shortfall ==
    Max({0} \cup {s.full.price - s.learned.price :
                    s \in {t \in Shapes : t.learned # Unsized}})

LateDebts == {q \in Requests : \/ events[q] # Nothing /\ events[q].late
                               \/ rows[q] # Nothing /\ rows[q].expired}

\* Requests sized on other credentials than they were routed with.
Mismatched == {q \in Requests : events[q] # Nothing /\ sizedAs[q] # routedAs[q]}

\* Requests admitted at no cost on what was left of the allowance: one admitted
\* later with a reservation may settle earlier, on that same allowance.
Overtaken == {q \in Requests : /\ events[q] # Nothing
                               /\ WhollyByok(sizedAs[q]) /\ events[q].held = 0}

\* Learned sizing lets a key's month overshoot its cap by at most
\* LEARNED_SIZING_CONCURRENCY_LIMIT shortfalls, whatever is admitted together,
\* one more for each debt that outlived its TTL, a whole price for each request
\* whose credentials changed between the two reads of them, and its fee for each
\* whose fee the allowance was to waive (db.rs, the limit's comment and
\* reserves_no_byok_fee; api.rs byok_covered_providers).  No request is still
\* walking when its reservation expires, see Expire.
SpendBounded ==
    \A k \in Keys :
        Spent(k, "monthly") <=
            SpendCap[k] + (LearnedLimit + Cardinality(LateDebts)) * Shortfall
            + SumFunction([q \in Mismatched |-> shape[q].full.price])
            + SumFunction([q \in Overtaken |-> Fee(shape[q].full.price)])

\* The month's events on the customer's own key, and what of the catalog price
\* of one was not charged the fee.
Discounted == {q \in EventOfUser("monthly") : events[q].catalog > 0}
FreeOfFee(event) == event.catalog - (event.cost * 100) \div FeePercent

\* What a month's settled requests ran free of the fee never exceeds the
\* allowance, over all of the user's keys and in any order of settling
\* (db.rs settle_once, byok.rs billable_above_allowance).
AllowanceOnce ==
    SumFunction([q \in Discounted |-> FreeOfFee(events[q])]) <= Allowance
=============================================================================
