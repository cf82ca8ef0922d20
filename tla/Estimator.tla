------------------------------ MODULE Estimator ------------------------------
(***************************************************************************)
(* The output-size estimator: an in-process cache of what each segment's   *)
(* answers measured, refreshed off the request path, and the reverts that  *)
(* put a segment or a whole user back on cold sizing once learned sizing   *)
(* has lost money (router/src/estimator.rs; refresh_estimator_batch and    *)
(* evaluate_revert of router/src/api.rs; their queries in router/src/db.rs). *)
(*                                                                         *)
(* The ledger outlives the process; the cache, the queue and the marks do  *)
(* not.  A tick is longer than a cell's TTL and than a pass, and a whole   *)
(* number of ticks makes a trigger window.                                 *)
(***************************************************************************)
EXTENDS Integers, FiniteSets, FiniteSetsExt, Functions

CONSTANTS
    Segments,       \* task signatures
    Cells,          \* the cells requests read, see Kinds
    Owner,          \* Owner[s]: the user a signature was computed for
    Window,         \* ticks in the trigger window, and in REVERT_COOLDOWN
    UserWindow,     \* ticks in the user's trigger window
    RowLimit,       \* ROW_LOSS_LIMIT_USD
    SegmentLimit,   \* SEGMENT_LOSS_LIMIT_7D_USD
    UserLimit,      \* USER_LOSS_LIMIT_30D_USD
    HitClamped,     \* SEGMENT_HIT_RATE_LIMIT, as HitClamped rows of every HitOf
    HitOf,
    MaxCells,       \* MAX_CELLS
    MaxPending,     \* MAX_PENDING
    Measures,       \* what a percentile scan may answer; warm when it has
                    \* WARM_MIN_ROWS rows
    Losses,         \* what a clamped row may lose
    LastEstimatorTick,  \* bound: the clock stops here
    MaxRows,        \* bound: learned rows over all segments
    MaxRestarts     \* bound: restarts of the process

ASSUME EstimatorAssumption ==
    /\ Cells \subseteq Segments \X {"segment", "rung"}
    /\ Segments \X {"segment"} \subseteq Cells
    /\ Window \in Nat \ {0} /\ UserWindow \in Nat /\ Losses \subseteq Nat
    /\ {RowLimit, SegmentLimit, UserLimit} \subseteq Nat

Owners == {Owner[s] : s \in Segments}

\* The cells of a segment: its own, and that of its candidates, which only orders
\* them by cost and stands here as a single "rung".
CellsOf(s) == {c \in Cells : c[1] = s}

VARIABLES
    tick,       \* the clock
    learned,    \* learned usage_events: one record each
    inflight,   \* learned reservations not settled yet, per segment
    cached,     \* cells of the map: when fetched, what measured
    pending,    \* cells queued for refresh
    batch,      \* cells the running pass has drained and not begun
    work,       \* the cell the pass is at, its step and its measurement
    segmentMark,\* until when a segment stays cold
    userMark,   \* until when a user stays cold
    restarts    \* bound: restarts so far

estimatorVars == <<tick, learned, inflight, cached, pending, batch, work,
                   segmentMark, userMark, restarts>>

Never == -1
Nothing == [p50 |-> 0, p99 |-> 0, warm |-> FALSE]
NoWork == [cell |-> <<>>, at |-> "idle", measured |-> Nothing]
Missing == [fetched |-> Never, measured |-> Nothing]

EstimatorInit ==
    /\ tick = 0
    /\ learned = {}
    /\ inflight = [s \in Segments |-> 0]
    /\ cached = [c \in Cells |-> Missing]
    /\ pending = {}
    /\ batch = {}
    /\ work = NoWork
    /\ segmentMark = [s \in Segments |-> Never]
    /\ userMark = [u \in Owners |-> Never]
    /\ restarts = 0

-----------------------------------------------------------------------------
(* The cache and the queue.                                                *)

\* Present and within its TTL, which is under a tick.
FreshCell(c) == cached[c].fetched = tick

\* enqueue: an offer beyond the queue's bound is dropped.
Enqueued(c) == IF Cardinality(pending) < MaxPending THEN pending \cup {c}
               ELSE pending

\* lookup: a fresh cell answers what it measured, warm or not; a missing or
\* stale one reads cold and is offered for refresh, while the queue has room.
Warm(c) == FreshCell(c) /\ cached[c].measured.warm
OfferedCells(read) ==
    LET stale == {c \in read : ~FreshCell(c)} IN
    {pending \cup some : some \in
        {S \in SUBSET (stale \ pending) :
            Cardinality(pending \cup S) =
                Min({Max({MaxPending, Cardinality(pending)}),
                     Cardinality(pending \cup stale)})}}

\* apply: at the bound what is stale is evicted, and a new cell the map still
\* has no room for is dropped.
Applied(c, measured) ==
    LET present == {d \in Cells : cached[d].fetched # Never}
        kept == IF Cardinality(present) >= MaxCells /\ c \notin present
                  THEN {d \in present : FreshCell(d)} ELSE present
    IN  [d \in Cells |->
            IF d = c /\ (c \in kept \/ Cardinality(kept) < MaxCells)
              THEN [fetched |-> tick, measured |-> measured]
            ELSE IF d \in kept THEN cached[d] ELSE Missing]

-----------------------------------------------------------------------------
(* The evidence: learned rows that settled above their reservation.        *)

Since(s, ticks) == {e \in learned : e.segment = s /\ e.at >= tick - ticks}
Loss(S) == SumFunction([e \in S |-> e.loss])
Clamped(S) == {e \in S : e.loss > 0}

\* window_tripped: dollars, any single row, or the share of clamped rows.
DollarsTripped(S) == Loss(S) > SegmentLimit \/ \E e \in S : e.loss > RowLimit
RateTripped(S) == Cardinality(Clamped(S)) * HitOf > Cardinality(S) * HitClamped
WindowTripped(S) == DollarsTripped(S) \/ RateTripped(S)

\* segment_tripped: in the trigger window or in the re-derivation window, which
\* is longer by the cooldown.
SegmentTripped(s) ==
    \/ WindowTripped(Since(s, Window))
    \/ WindowTripped(Since(s, 2 * Window))

UserRows(u, ticks) == {e \in learned : Owner[e.segment] = u /\ e.at >= tick - ticks}
UserTripped(u) ==
    \/ Loss(UserRows(u, UserWindow)) > UserLimit
    \/ Loss(UserRows(u, UserWindow + Window)) > UserLimit

\* segment_reverted and user_reverted: a mark holds until its instant.
Reverted(s) == segmentMark[s] > tick \/ userMark[Owner[s]] > tick

-----------------------------------------------------------------------------
(* Requests.                                                               *)

\* learned_output_bound: no bound for a degenerate or heavy-tailed segment (how
\* large it otherwise is, see Loss, no property of this module depends on).
TailGate == 8
Sizable(m) == m.p50 > 0 /\ m.p99 <= TailGate * m.p50
\* Sizing from the learned percentiles: a warm cell, no mark, no heavy tail.
SizesLearned(s) ==
    /\ Warm(<<s, "segment">>)
    /\ ~Reverted(s)
    /\ Sizable(cached[<<s, "segment">>].measured)

Room == Cardinality(learned) + SumFunction(inflight) < MaxRows

\* A request reads its segment's cell, and may read its candidates' when it is
\* ordered by cost; sized learned it leaves a learned reservation in flight.
Serve(s) ==
    /\ \E read \in {{<<s, "segment">>}, CellsOf(s)} :
         pending' \in OfferedCells(read)
    /\ IF SizesLearned(s) /\ Room
         THEN inflight' = [inflight EXCEPT ![s] = @ + 1]
         ELSE UNCHANGED inflight
    /\ UNCHANGED <<tick, learned, cached, batch, work, segmentMark, userMark,
                   restarts>>

\* A learned reservation settles: the answer may have cost more than was held
\* only if it was sized below the request's own bound.
SettleLearned(s) ==
    /\ inflight[s] > 0
    /\ inflight' = [inflight EXCEPT ![s] = @ - 1]
    /\ \E loss \in {0} \cup Losses :
         learned' = learned \cup {[segment |-> s, at |-> tick, loss |-> loss,
                                 nr |-> Cardinality(learned)]}
    /\ UNCHANGED <<tick, cached, pending, batch, work, segmentMark, userMark,
                   restarts>>

-----------------------------------------------------------------------------
(* A refresh pass.                                                         *)

\* drain_pending: REFRESH_BATCH is no smaller than the queue's own bound.
Drain ==
    /\ work.at = "idle" /\ batch = {} /\ pending # {}
    /\ batch' = pending
    /\ pending' = {}
    /\ UNCHANGED <<tick, learned, inflight, cached, work, segmentMark, userMark,
                   restarts>>

\* output_token_percentiles answers for the next cell of the batch.
Scan(c) ==
    /\ work.at = "idle" /\ c \in batch
    /\ batch' = batch \ {c}
    /\ \E m \in Measures :
         work' = [cell |-> c, measured |-> m,
                  at |-> IF c[2] = "segment" THEN "segment" ELSE "apply"]
    /\ UNCHANGED <<tick, learned, inflight, cached, pending, segmentMark,
                   userMark, restarts>>

Requeue(c) ==
    /\ pending' = Enqueued(c)
    /\ work' = NoWork
    /\ UNCHANGED <<tick, learned, inflight, cached, segmentMark, userMark,
                   restarts>>

\* The scan fails: the cell waits for the next pass.
ScanFails(c) ==
    /\ work.at = "idle" /\ c \in batch
    /\ batch' = batch \ {c}
    /\ Requeue(c)

\* evaluate_revert, the segment's own windows.
JudgeSegment ==
    LET s == work.cell[1] IN
    /\ work.at = "segment"
    /\ work' = [work EXCEPT !.at = "user"]
    /\ IF SegmentTripped(s)
         THEN segmentMark' = [segmentMark EXCEPT ![s] = tick + Window]
         ELSE UNCHANGED segmentMark
    /\ UNCHANGED <<tick, learned, inflight, cached, pending, batch, userMark,
                   restarts>>

\* evaluate_revert, the owner's windows, whatever the segment's own said.
JudgeUser ==
    LET u == Owner[work.cell[1]] IN
    /\ work.at = "user"
    /\ work' = [work EXCEPT !.at = "apply"]
    /\ userMark' = IF UserTripped(u)
                     THEN [userMark EXCEPT ![u] = tick + Window] ELSE userMark
    /\ UNCHANGED <<tick, learned, inflight, cached, pending, batch, segmentMark,
                   restarts>>

\* Mutant: a failed evaluation still warms the cell.
JudgedAnyway ==
    /\ work' = NoWork
    /\ cached' = Applied(work.cell, work.measured)
    /\ UNCHANGED <<tick, learned, inflight, pending, batch, segmentMark,
                   userMark, restarts>>

\* A failed evaluation leaves the cell cold and queues it again.
LeftCold == Requeue(work.cell) /\ UNCHANGED batch

JudgeFails == work.at \in {"segment", "user"} /\ LeftCold

Apply ==
    /\ work.at = "apply"
    /\ cached' = Applied(work.cell, work.measured)
    /\ work' = NoWork
    /\ UNCHANGED <<tick, learned, inflight, pending, batch, segmentMark,
                   userMark, restarts>>

-----------------------------------------------------------------------------
(* Time and restarts.                                                      *)

\* A pass ends within the tick it began in.
EstimatorTick ==
    /\ tick < LastEstimatorTick /\ work.at = "idle"
    /\ tick' = tick + 1
    /\ UNCHANGED <<learned, inflight, cached, pending, batch, work,
                   segmentMark, userMark, restarts>>

\* The process stops, dropping what it drained, and starts cold everywhere;
\* reservations in flight settle all the same.
Restart ==
    /\ restarts < MaxRestarts
    /\ restarts' = restarts + 1
    /\ cached' = [c \in Cells |-> Missing]
    /\ pending' = {} /\ batch' = {} /\ work' = NoWork
    /\ segmentMark' = [s \in Segments |-> Never]
    /\ userMark' = [u \in Owners |-> Never]
    /\ UNCHANGED <<tick, learned, inflight>>

EstimatorNext ==
    \/ \E s \in Segments : Serve(s) \/ SettleLearned(s)
    \/ Drain \/ JudgeSegment \/ JudgeUser \/ JudgeFails \/ Apply
    \/ \E c \in Cells : Scan(c) \/ ScanFails(c)
    \/ EstimatorTick \/ Restart

EstimatorSpec == EstimatorInit /\ [][EstimatorNext]_estimatorVars

-----------------------------------------------------------------------------
(* Properties.                                                             *)

Before(S) == {e \in S : e.at < tick}

\* A request is sized from what was learned only if the losses of its segment
\* and of its user, as they stood when the tick began, were consulted and are
\* below every dollar limit, in the trigger window and for a cooldown beyond
\* it, whatever queries failed and however often the process restarted
\* (api.rs refresh_estimator_batch, evaluate_revert).
LossesConsulted ==
    \A s \in Segments : SizesLearned(s) =>
        /\ ~DollarsTripped(Before(Since(s, 2 * Window)))
        /\ Loss(Before(UserRows(Owner[s], UserWindow + Window))) <= UserLimit
=============================================================================
