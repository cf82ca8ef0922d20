----------------------------- MODULE Settlement -----------------------------
(***************************************************************************)
(* The life of a prepaid reservation: admitted under the user's advisory   *)
(* lock, dispatched upstream, recorded as owed, settled exactly once, or   *)
(* reclaimed, quarantined, collected or released when the request that     *)
(* owned it did not finish (router/src/db.rs).                             *)
(*                                                                         *)
(* A statement or a transaction of the database is one action; everything  *)
(* a process does between two of them is a separate step, so requests, the *)
(* recovery task, operators and the expiry sweep interleave at exactly the *)
(* points where the code awaits the database.                              *)
(***************************************************************************)
EXTENDS Integers, FiniteSets, Functions

CONSTANTS
    Requests,              \* request ids; a reservation row has its request's id
    Users,
    Owner,                 \* Owner[r]: the user whose key admitted request r
    MaxCost,               \* bound: largest reservation and largest metered cost
    MaxBalance,            \* bound: a purchase never lifts a balance above this
    SettlementAttempts,    \* SETTLEMENT_ATTEMPTS: tries a request gives each write
    MaxSettleAttempts,     \* MAX_SETTLE_ATTEMPTS: failures before quarantine
    RequireCredits,        \* does the deployment gate and debit prepaid credit
    LateRequests,          \* may a request outlive its reservation's TTL
    ForeignBuilds          \* requests whose payload another build may write

ASSUME OwnerAssumption == Owner \in [Requests -> Users]
ASSUME BoundsAssumption ==
    /\ MaxCost \in Nat /\ MaxBalance \in Nat
    /\ SettlementAttempts \in Nat \ {0}
    /\ MaxSettleAttempts \in Nat \ {0}
ASSUME FlagsAssumption ==
    /\ RequireCredits \in BOOLEAN
    /\ LateRequests \in BOOLEAN /\ ForeignBuilds \subseteq Requests

VARIABLES
    rows,       \* usage_reservations, by request id
    events,     \* request ids holding a usage_events row
    charged,    \* what the ledger's 'usage' entries of a request sum to
    balance,    \* users.credit_balance_usd
    pc,         \* where each request's own task is
    tries,      \* attempts its current retry loop has made
    reserved,   \* reserved_cost_usd, fixed at admission
    cost,       \* the metered cost its settlement payload carries
    marker,     \* the spawned UPDATE that stamps dispatched_at
    batch,      \* rows the recovery pass has selected and not yet replayed
    stamping,   \* rows whose failed replay the pass has not yet stamped
    collecting, \* rows `admin settle-owed` has read and not yet replayed
    foreign     \* requests whose stored payload this build cannot read

vars == <<rows, events, charged, balance, pc, tries, reserved, cost, marker,
          batch, stamping, collecting, foreign>>

Money == 0..MaxCost

\* released_at with what its command meant: "plain" closes a row that owes
\* nothing readable, "forgiven" gives up a recorded debt.
Row == [present : BOOLEAN, expired : BOOLEAN, dispatched : BOOLEAN,
        intent : BOOLEAN, attempts : 0..MaxSettleAttempts,
        quarantined : BOOLEAN, released : {"no", "plain", "forgiven"}]

NoRow == [present |-> FALSE, expired |-> FALSE, dispatched |-> FALSE,
          intent |-> FALSE, attempts |-> 0, quarantined |-> FALSE,
          released |-> "no"]

FreshRow == [NoRow EXCEPT !.present = TRUE]

Steps == {"new", "refused", "walking", "recording", "settling",
          "stampRetry", "stampFinal", "settled", "failed", "dead"}

\* A request whose task still runs and holds its session.
Running == {"walking", "recording", "settling", "stampRetry", "stampFinal"}

TypeOK ==
    /\ rows \in [Requests -> Row]
    /\ events \subseteq Requests
    /\ charged \in [Requests -> Nat]
    /\ balance \in [Users -> Int]
    /\ pc \in [Requests -> Steps]
    /\ tries \in [Requests -> 0..SettlementAttempts]
    /\ reserved \in [Requests -> Money]
    /\ cost \in [Requests -> Money]
    /\ marker \in [Requests -> {"unfired", "inflight", "written", "lost"}]
    /\ batch \subseteq Requests
    /\ stamping \subseteq Requests
    /\ collecting \subseteq Requests
    /\ foreign \subseteq ForeignBuilds

Init ==
    /\ rows = [r \in Requests |-> NoRow]
    /\ events = {}
    /\ charged = [r \in Requests |-> 0]
    /\ balance = [u \in Users |-> MaxBalance]
    /\ pc = [r \in Requests |-> "new"]
    /\ tries = [r \in Requests |-> 0]
    /\ reserved = [r \in Requests |-> 0]
    /\ cost = [r \in Requests |-> 0]
    /\ marker = [r \in Requests |-> "unfired"]
    /\ batch = {}
    /\ stamping = {}
    /\ collecting = {}
    /\ foreign \in SUBSET ForeignBuilds

-----------------------------------------------------------------------------
(* Admission.                                                              *)

\* Mutant: the sweep of before migration 0014, blind to dispatched_at.
SweptBlindToDispatch(row) ==
    CASE ~row.present \/ ~row.expired -> row
      [] row.present /\ row.expired /\ row.intent ->
            [row EXCEPT !.quarantined = TRUE]
      [] OTHER -> IF row.released = "no" THEN NoRow ELSE row

\* The two sweep statements: reclaim what proves nothing happened, park what
\* proves something did.
Swept(row) ==
    CASE ~row.present \/ ~row.expired -> row
      [] row.present /\ row.expired /\ (row.intent \/ row.dispatched) ->
            [row EXCEPT !.quarantined = TRUE]
      [] OTHER -> IF row.released = "no" THEN NoRow ELSE row

\* Mutant: expiry releases the encumbrance of a recorded debt.
EncumbersUntilExpiry(row) ==
    row.present /\ row.released = "no" /\ ~row.expired

\* A row counts against its owner's prepaid credit.
Encumbers(row) ==
    /\ row.present /\ row.released = "no"
    /\ ~row.expired \/ row.intent

Encumbering(u) == {r \in Requests : Owner[r] = u /\ Encumbers(rows[r])}

Encumbered(u) == SumFunctionOnSet(reserved, Encumbering(u))

\* begin_usage_session, reserved lane, admitted: the sweep runs over every
\* user's rows, the credit gate reads the owner's balance and encumbrance, and
\* the row is inserted, all in one transaction under the owner's lock.
Admit(r) ==
    /\ pc[r] = "new"
    /\ \E size \in Money :
        /\ RequireCredits => balance[Owner[r]] - Encumbered(Owner[r]) >= size
        /\ reserved' = [reserved EXCEPT ![r] = size]
    /\ rows' = [q \in Requests |-> IF q = r THEN FreshRow ELSE Swept(rows[q])]
    /\ pc' = [pc EXCEPT ![r] = "walking"]
    /\ UNCHANGED <<events, charged, balance, tries, cost, marker, batch,
                   stamping, collecting, foreign>>

\* Any gate refuses (credit, caps, velocity, freeze, dead key): the
\* transaction rolls back and takes the sweep with it.
Refuse(r) ==
    /\ pc[r] = "new"
    /\ pc' = [pc EXCEPT ![r] = "refused"]
    /\ UNCHANGED <<rows, events, charged, balance, tries, reserved, cost,
                   marker, batch, stamping, collecting, foreign>>

\* expires_at passes. A request finishes within the upstream deadline, which
\* is shorter than the TTL, unless LateRequests.
Expire(r) ==
    /\ rows[r].present /\ ~rows[r].expired
    /\ LateRequests \/ (pc[r] \notin Running /\ marker[r] # "inflight")
    /\ rows' = [rows EXCEPT ![r].expired = TRUE]
    /\ UNCHANGED <<events, charged, balance, pc, tries, reserved, cost, marker,
                   batch, stamping, collecting, foreign>>

-----------------------------------------------------------------------------
(* The request's own task.                                                 *)

\* DispatchMarker::fire: the first upstream dispatch latches the marker and
\* spawns its UPDATE without waiting for it.
Dispatch(r) ==
    /\ pc[r] = "walking" /\ marker[r] = "unfired"
    /\ marker' = [marker EXCEPT ![r] = "inflight"]
    /\ UNCHANGED <<rows, events, charged, balance, pc, tries, reserved, cost,
                   batch, stamping, collecting, foreign>>

\* The spawned UPDATE runs; it matches nothing when the row is gone.
MarkerLands(r) ==
    /\ marker[r] = "inflight"
    /\ marker' = [marker EXCEPT ![r] = "written"]
    /\ rows' = [rows EXCEPT ![r].dispatched = rows[r].present]
    /\ UNCHANGED <<events, charged, balance, pc, tries, reserved, cost, batch,
                   stamping, collecting, foreign>>

\* The spawned UPDATE fails, or the process dies under it; only a warning.
MarkerLost(r) ==
    /\ marker[r] = "inflight"
    /\ marker' = [marker EXCEPT ![r] = "lost"]
    /\ UNCHANGED <<rows, events, charged, balance, pc, tries, reserved, cost,
                   batch, stamping, collecting, foreign>>

\* The walk ends with a usage record to settle. What an upstream metered may
\* exceed the reservation; a walk that dispatched nothing settles at zero.
Complete(r) ==
    /\ pc[r] = "walking"
    /\ \E c \in Money :
        /\ marker[r] = "unfired" => c = 0
        /\ cost' = [cost EXCEPT ![r] = c]
    /\ pc' = [pc EXCEPT ![r] = "recording"]
    /\ UNCHANGED <<rows, events, charged, balance, tries, reserved, marker,
                   batch, stamping, collecting, foreign>>

\* The request's task ends, and its retry counter with it.
EndTask(r, how) ==
    /\ pc' = [pc EXCEPT ![r] = how]
    /\ tries' = [tries EXCEPT ![r] = 0]

\* The task stops between two statements: the process dies, the handler's
\* future is dropped with the connection, or the session is dropped
\* unsettled. A statement already sent may have committed first.
Abandon(r) ==
    /\ pc[r] \in Running
    /\ EndTask(r, "dead")
    /\ UNCHANGED <<rows, events, charged, balance, reserved, cost, marker,
                   batch, stamping, collecting, foreign>>

\* persist_intent's autocommitted UPDATE: no guard beyond the row's existence.
IntentStored(r) ==
    rows' = [rows EXCEPT ![r].intent = rows[r].present]

StartSettling(r) ==
    /\ pc' = [pc EXCEPT ![r] = "settling"]
    /\ tries' = [tries EXCEPT ![r] = 0]

\* UsageSession::record, the intent: the write lands and is reported.
PersistIntent(r) ==
    /\ pc[r] = "recording"
    /\ IntentStored(r)
    /\ StartSettling(r)
    /\ UNCHANGED <<events, charged, balance, reserved, cost, marker, batch,
                   stamping, collecting, foreign>>

\* It fails, or lands with its reply lost. A transient error is retried until
\* the attempts run out; either way the request goes on to settle.
PersistFails(r) ==
    /\ pc[r] = "recording"
    /\ IntentStored(r) \/ UNCHANGED rows
    /\ \/ /\ tries[r] + 1 < SettlementAttempts
          /\ tries' = [tries EXCEPT ![r] = @ + 1]
          /\ UNCHANGED pc
       \/ StartSettling(r)
    /\ UNCHANGED <<events, charged, balance, reserved, cost, marker, batch,
                   stamping, collecting, foreign>>

-----------------------------------------------------------------------------
(* settle_once, whoever runs it: the request, the recovery pass or an      *)
(* operator. Each outcome is one transaction under the user's lock.        *)

Lesser(a, b) == IF a <= b THEN a ELSE b

\* The debit is clamped to what admission verified against the balance.
Debit(r) == IF RequireCredits THEN Lesser(cost[r], reserved[r]) ELSE 0

Released(r) == rows[r].present /\ rows[r].released # "no"

\* The trigger of migration 0009 refuses a downward write below zero.
Overdraws(r) == Debit(r) > 0 /\ balance[Owner[r]] < Debit(r)

\* Mutant: the row is read instead of consumed, and a duplicate event ignored.
SettleReadsRow(r) ==
    /\ rows[r].present /\ ~Released(r)
    /\ ~Overdraws(r)
    /\ events' = events \cup {r}
    /\ charged' = [charged EXCEPT ![r] = @ + Debit(r)]
    /\ balance' = [balance EXCEPT ![Owner[r]] = @ - Debit(r)]
    /\ UNCHANGED rows

\* Mutant: the DELETE does not exclude released rows.
SettleIgnoresRelease(r) ==
    /\ rows[r].present
    /\ r \notin events
    /\ ~Overdraws(r)
    /\ rows' = [rows EXCEPT ![r] = NoRow]
    /\ events' = events \cup {r}
    /\ charged' = [charged EXCEPT ![r] = @ + Debit(r)]
    /\ balance' = [balance EXCEPT ![Owner[r]] = @ - Debit(r)]

\* The row is consumed, the event appended and the balance debited.
SettleCommits(r) ==
    /\ rows[r].present /\ ~Released(r)
    /\ r \notin events
    /\ ~Overdraws(r)
    /\ rows' = [rows EXCEPT ![r] = NoRow]
    /\ events' = events \cup {r}
    /\ charged' = [charged EXCEPT ![r] = @ + Debit(r)]
    /\ balance' = [balance EXCEPT ![Owner[r]] = @ - Debit(r)]

\* Forgiven, or AlreadySettled: nothing moves, and a row left beside its own
\* event is discarded.
SettleFindsDecided(r) ==
    /\ Released(r) \/ r \in events
    /\ rows' = IF Released(r) THEN rows ELSE [rows EXCEPT ![r] = NoRow]
    /\ UNCHANGED <<events, charged, balance>>

\* Permanent errors the state decides: the reservation is missing without an
\* event, or the debit would overdraw.
SettleRefused(r) ==
    /\ ~Released(r) /\ r \notin events
    /\ ~rows[r].present \/ Overdraws(r)
    /\ UNCHANGED <<rows, events, charged, balance>>

\* Mutant: failures are counted and the budget never acted on.
StampedWithoutBudget(row) ==
    IF row.present
    THEN [row EXCEPT !.attempts = Lesser(@ + 1, MaxSettleAttempts)]
    ELSE row

\* record_settle_failure's UPDATE. Clearing quarantined_at on a released row
\* breaks a CHECK, and the caller swallows that error.
Stamped(row) ==
    LET failures == Lesser(row.attempts + 1, MaxSettleAttempts)
    IN  CASE ~row.present -> row
          [] row.present /\ row.intent ->
                [row EXCEPT !.attempts = failures,
                            !.quarantined = @ \/ failures = MaxSettleAttempts]
          [] OTHER -> IF row.released # "no" THEN row
                      ELSE [row EXCEPT !.attempts = failures,
                                       !.quarantined = FALSE]

-----------------------------------------------------------------------------
(* settle_with_retry, in the request's own task.                           *)

SettleReturns(r) ==
    /\ pc[r] = "settling"
    /\ SettleCommits(r) \/ SettleFindsDecided(r)
    /\ EndTask(r, "settled")
    /\ UNCHANGED <<reserved, cost, marker, batch, stamping, collecting,
                   foreign>>

\* An error comes back: one the state decides, any other with nothing done,
\* or a COMMIT that landed and whose reply was lost.
SettleFails(r) ==
    /\ pc[r] = "settling"
    /\ \/ /\ SettleRefused(r)
          /\ pc' = [pc EXCEPT ![r] = "stampFinal"]
       \/ /\ SettleCommits(r) \/ UNCHANGED <<rows, events, charged, balance>>
          /\ \E next \in {"stampRetry", "stampFinal"} :
                pc' = [pc EXCEPT ![r] = next]
    /\ UNCHANGED <<tries, reserved, cost, marker, batch, stamping, collecting,
                   foreign>>

\* The failure is stamped on the row, best effort, before the retry or the
\* giving up.
StampFailure(r) ==
    /\ pc[r] \in {"stampRetry", "stampFinal"}
    /\ rows' = [rows EXCEPT ![r] = Stamped(@)] \/ UNCHANGED rows
    /\ IF pc[r] = "stampRetry" /\ tries[r] + 1 < SettlementAttempts
       THEN /\ tries' = [tries EXCEPT ![r] = @ + 1]
            /\ pc' = [pc EXCEPT ![r] = "settling"]
       ELSE EndTask(r, "failed")
    /\ UNCHANGED <<events, charged, balance, reserved, cost, marker, batch,
                   stamping, collecting, foreign>>

-----------------------------------------------------------------------------
(* recover_owed_settlements, run every minute by one background task.      *)

\* A row the pass may replay. The 60 s grace orders it after a healthy
\* request's own retries; nothing below relies on that.
Owed(r) == rows[r].present /\ rows[r].intent /\ ~rows[r].quarantined

RecoverySelects ==
    /\ batch = {} /\ stamping = {}
    /\ \E r \in Requests : Owed(r)
    /\ batch' = {r \in Requests : Owed(r)}
    /\ UNCHANGED <<rows, events, charged, balance, pc, tries, reserved, cost,
                   marker, stamping, collecting, foreign>>

\* A payload this build cannot read is quarantined, never guessed at.
RecoveryParks(r) ==
    /\ r \in batch /\ r \in foreign /\ stamping = {}
    /\ batch' = batch \ {r}
    /\ rows' = [rows EXCEPT ![r].quarantined = @ \/ rows[r].intent]
    /\ UNCHANGED <<events, charged, balance, pc, tries, reserved, cost, marker,
                   stamping, collecting, foreign>>

RecoveryReplays(r) ==
    /\ r \in batch /\ r \notin foreign /\ stamping = {}
    /\ batch' = batch \ {r}
    /\ \/ /\ SettleCommits(r) \/ SettleFindsDecided(r)
          /\ UNCHANGED stamping
       \/ /\ \/ SettleRefused(r)
             \/ SettleCommits(r)
             \/ UNCHANGED <<rows, events, charged, balance>>
          /\ stamping' = {r}
    /\ UNCHANGED <<pc, tries, reserved, cost, marker, collecting, foreign>>

RecoveryStamps(r) ==
    /\ r \in stamping
    /\ stamping' = {}
    /\ rows' = [rows EXCEPT ![r] = Stamped(@)]
    /\ UNCHANGED <<events, charged, balance, pc, tries, reserved, cost, marker,
                   batch, collecting, foreign>>

RecoveryStampLost(r) ==
    /\ r \in stamping
    /\ stamping' = {}
    /\ UNCHANGED <<rows, events, charged, balance, pc, tries, reserved, cost,
                   marker, batch, collecting, foreign>>

\* The pass is abandoned: its process dies, or a quarantine write fails.
RecoveryStops ==
    /\ batch # {} \/ stamping # {}
    /\ batch' = {} /\ stamping' = {}
    /\ UNCHANGED <<rows, events, charged, balance, pc, tries, reserved, cost,
                   marker, collecting, foreign>>

-----------------------------------------------------------------------------
(* The operator: `admin settle-owed` and `admin release-reservation`.      *)

\* recover_quarantined_settlement reads the payload and refuses a released
\* row or an unreadable payload there; it does not ask that the row be
\* quarantined, nor stamp a failed replay.
CollectReads(r) ==
    /\ rows[r].present /\ rows[r].intent /\ rows[r].released = "no"
    /\ r \notin foreign /\ r \notin collecting
    /\ collecting' = collecting \cup {r}
    /\ UNCHANGED <<rows, events, charged, balance, pc, tries, reserved, cost,
                   marker, batch, stamping, foreign>>

CollectReplays(r) ==
    /\ r \in collecting
    /\ collecting' = collecting \ {r}
    /\ \/ SettleCommits(r)
       \/ SettleFindsDecided(r)
       \/ UNCHANGED <<rows, events, charged, balance>>
    /\ UNCHANGED <<pc, tries, reserved, cost, marker, batch, stamping,
                   foreign>>

\* release_quarantined_reservation: only a quarantined row, once, and a row
\* that owes only with --forgive.
Release(r, forgive) ==
    /\ rows[r].present /\ rows[r].quarantined /\ rows[r].released = "no"
    /\ rows[r].intent => forgive
    /\ rows' = [rows EXCEPT ![r].released =
                    IF rows[r].intent THEN "forgiven" ELSE "plain"]
    /\ UNCHANGED <<events, charged, balance, pc, tries, reserved, cost, marker,
                   batch, stamping, collecting, foreign>>

-----------------------------------------------------------------------------
(* Credit entering and leaving outside settlement: the net effect on the   *)
(* balance of a credited purchase, and of a chargeback or refund, whose    *)
(* clawback sets credit_reversal and may take the balance below zero.      *)

Purchase(u) ==
    /\ balance[u] < MaxBalance
    /\ balance' = [balance EXCEPT ![u] = @ + 1]
    /\ UNCHANGED <<rows, events, charged, pc, tries, reserved, cost, marker,
                   batch, stamping, collecting, foreign>>

Reverse(u) ==
    /\ balance[u] > -MaxBalance
    /\ balance' = [balance EXCEPT ![u] = @ - 1]
    /\ UNCHANGED <<rows, events, charged, pc, tries, reserved, cost, marker,
                   batch, stamping, collecting, foreign>>

RequestNext(r) ==
    \/ Admit(r) \/ Refuse(r) \/ Expire(r)
    \/ Dispatch(r) \/ MarkerLands(r) \/ MarkerLost(r)
    \/ Complete(r) \/ Abandon(r)
    \/ PersistIntent(r) \/ PersistFails(r)
    \/ SettleReturns(r) \/ SettleFails(r) \/ StampFailure(r)

RecoveryNext ==
    \/ RecoverySelects \/ RecoveryStops
    \/ \E r \in Requests : RecoveryParks(r) \/ RecoveryReplays(r)
                           \/ RecoveryStamps(r) \/ RecoveryStampLost(r)

OperatorNext ==
    \E r \in Requests :
        \/ CollectReads(r) \/ CollectReplays(r)
        \/ \E forgive \in BOOLEAN : Release(r, forgive)

Next ==
    \/ \E r \in Requests : RequestNext(r)
    \/ RecoveryNext
    \/ OperatorNext
    \/ \E u \in Users : Purchase(u) \/ Reverse(u)

Spec == Init /\ [][Next]_vars

\* Where no credit is taken back and one build is deployed.
PromptNext ==
    \/ \E r \in Requests :
          RequestNext(r) \/ RecoveryReplays(r) \/ RecoveryStamps(r) \/ RecoveryStampLost(r)
    \/ RecoverySelects \/ RecoveryStops \/ OperatorNext
    \/ \E u \in Users : Purchase(u)

PromptSpec == Init /\ [][PromptNext]_vars

-----------------------------------------------------------------------------
(* Properties.                                                             *)

\* Retries, an ambiguous COMMIT, the recovery pass and an operator may all
\* replay one request's settlement: its ledger entries still sum to exactly
\* one clamped debit once it has an event, and to nothing before.
ChargedOnce ==
    \A r \in Requests : charged[r] = IF r \in events THEN Debit(r) ELSE 0

\* No reservation survives beside its request's settled event, so
\* discard_settled_reservation never finds one to reclaim.
NoRowBesideItsEvent == \A r \in events : ~rows[r].present

\* No statement of the program trips the CHECKs of migrations 0014 and 0015:
\* a quarantined row has evidence of a dispatch or of a debt, and a released
\* row is quarantined.
ParkedWithEvidence ==
    \A r \in Requests :
        /\ rows[r].quarantined => rows[r].intent \/ rows[r].dispatched
        /\ Released(r) => rows[r].quarantined

\* record() returns Ok only when the request was billed or its debt was
\* given up by an operator.
OkMeansResolved ==
    \A r \in Requests : pc[r] = "settled" => r \in events \/ Released(r)

\* What admission promised is there to collect: the live and owed
\* reservations of a user never add up to more than the balance, however
\* admissions, settles and sweeps interleave (where no credit is taken
\* back and no request outlives its TTL).
EncumbranceFunded == \A u \in Users : Encumbered(u) <= balance[u]

\* A dispatched request leaves no trace (no row, no event) only when the
\* marker's UPDATE was itself lost, never through the sweep alone.
LostOnlyWithItsMarker ==
    \A r \in Requests :
        (/\ pc[r] \in Steps \ {"new", "refused"}
         /\ ~rows[r].present /\ r \notin events
         /\ marker[r] # "unfired")
            => marker[r] = "lost"

\* A row carrying a debt or a dispatch leaves the table only by being billed:
\* neither the sweep, a retry nor an operator can make the evidence vanish.
EvidenceLeavesOnlyBilled ==
    [][\A r \in Requests :
        (rows[r].present /\ (rows[r].intent \/ rows[r].dispatched)
            /\ ~rows'[r].present) => r \in events']_vars

\* Collection loses to forgiveness: whichever settle comes later, from the
\* request, the recovery pass or an operator, a released row is neither
\* reopened, removed nor billed.
ReleaseIsFinal ==
    [][\A r \in Requests :
        Released(r) => /\ rows'[r].present
                       /\ rows'[r].released = rows[r].released
                       /\ r \notin events']_vars

\* How far each request's charge is, read off its row, its event and its task.
Account(r) ==
    IF r \in events THEN "billed"
    ELSE IF Released(r) THEN "waived"
    ELSE IF rows[r].present THEN "held"
    ELSE IF pc[r] \in {"new", "refused"} THEN "none"
    ELSE "void"

AccountOf == [r \in Requests |-> Account(r)]

Charges == INSTANCE Charge WITH account <- AccountOf, hold <- reserved,
                                paid <- charged, funds <- balance

\* The outbox, its retries, its recovery and its operators together do no more
\* than hold once and then bill once, give up once, or let go once.
ImplementsCharge == Charges!Spec

=============================================================================
