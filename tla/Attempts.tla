------------------------------ MODULE Attempts ------------------------------
(***************************************************************************)
(* The walk ledger: one record per position of a walk, what it is known to *)
(* have consumed and to have cost, and the row the request settles into    *)
(* (build_attempt and the terminals of router/src/api.rs; AttemptTokens,   *)
(* AttemptCogs, the settlement intent and settle_once of router/src/db.rs).*)
(*                                                                         *)
(* What an upstream really consumed is known to this model alone: the      *)
(* router knows the last report it read, or a count of the chunks it saw,  *)
(* which is taken to count no more than was produced.  How a walk goes     *)
(* from rung to rung is Walk's and StreamWalk's; here a position ends in   *)
(* any way those let it end.                                               *)
(***************************************************************************)
EXTENDS Pricing, Sequences, Functions

CONSTANTS
    Route,        \* the schedule of each rung, in the order of the walk
    Sells,        \* the schedule the request is billed at
    Drawn,        \* what a call may draw from its upstream
    MaxCalls      \* bound: positions of one walk

\* A schedule the loader let through for every rung, a prompt in every call.
AttemptsAssumption ==
    /\ Len(Route) \in Nat /\ \A n \in 1..Len(Route) : IsSchedule(Route[n])
    /\ IsSchedule(Sells)
    /\ Drawn \subseteq [prompt : Nat \ {0}, output : Nat, cached : Nat, written : Nat]

VARIABLES
    rung,         \* the rung the walk is at
    calls,        \* what each position consumed and how much of it was reported
    attempts,     \* the walk ledger's rows, by the same numbers
    intent,       \* the settlement payload, once there is one
    booked        \* the settled row and the attempts inserted with it

attemptVars == <<rung, calls, attempts, intent, booked>>

AttemptsInit ==
    /\ rung = 1
    /\ calls = <<>> /\ attempts = <<>> /\ intent = <<>> /\ booked = <<>>

NoUsage == BoundOf(0, 0)

-----------------------------------------------------------------------------
(* What is known of one attempt.                                           *)

\* try_from_provider: the report with its three figures made to add up.
Reported(u) ==
    [prompt |-> u.prompt, output |-> u.output,
     cached |-> CachedOf(u), written |-> WrittenOf(u)]

\* AttemptTokens: each figure known or not.
Figures(input, output, cached, written) ==
    [input |-> input, output |-> output, cached |-> cached, written |-> written]
Unknown == Figures(Absent, Absent, Absent, Absent)
OutputFloor(n) == Figures(Absent, n, Absent, Absent)
Measured(u) == Figures(u.prompt, u.output, u.cached, u.written)

\* attempt_tokens: the report, else the count of chunks, else nothing.
TokensOf(told, chunks) ==
    IF told # <<>> THEN Measured(told[1])
    ELSE IF chunks > 0 THEN OutputFloor(chunks) ELSE Unknown

IsComplete(tokens) == \A d \in Dimensions : tokens[d] # Absent

\* priceable: what is not known is priced as nothing.
Known(n) == IF n = Absent THEN 0 ELSE n
Priceable(tokens) ==
    Reported([prompt |-> Known(tokens.input), output |-> Known(tokens.output),
              cached |-> Known(tokens.cached), written |-> Known(tokens.written)])

\* build_attempt's cost: not captured when nothing is known, nor when the band is not.
CostBasis(s, tokens) ==
    IF tokens = Unknown \/ (DOMAIN s # {0} /\ tokens.input = Absent) THEN Absent
    ELSE LET u == Priceable(tokens) IN Cost(At(s, u.prompt), u)

\* build_attempt, pushed to the WalkLedger.
Position(dispatched, used, told) ==
    [rung |-> rung, dispatched |-> dispatched, used |-> used, told |-> told]
Attempt(served, tokens, estimated) ==
    [served |-> served, tokens |-> tokens, estimated |-> estimated,
     cost |-> CostBasis(Route[rung], tokens)]

Walking == intent = <<>> /\ rung <= Len(Route) /\ Len(calls) < MaxCalls

-----------------------------------------------------------------------------
(* Settling.                                                               *)

\* persist_usage: what is owed for usage, on the rung the row is to name (none
\* when nothing was dispatched), with the rows the walk has so far.
Owe(usage, named, rows, reached) ==
    intent' = <<[usage |-> usage, sells |-> At(Sells, usage.prompt),
                 basis |-> IF named = 0 THEN <<>> ELSE <<At(Route[named], usage.prompt)>>,
                 cost |-> Cost(At(Sells, usage.prompt), usage),
                 attempts |-> rows, reached |-> reached]>>

\* settled_usage: what was metered, of output that reached the client.
SettledUsage(sent, told) == IF sent /\ told # <<>> THEN told[1] ELSE NoUsage

\* The last rung that was called, 0 when none was.
LastCandidate(seen) ==
    LET called == {n \in DOMAIN seen : seen[n].dispatched}
    IN  IF called = {} THEN 0 ELSE seen[CHOOSE n \in called : \A m \in called : m <= n].rung

-----------------------------------------------------------------------------
(* The positions of a walk.                                                *)

\* A rung a policy or its health keeps from being called.
Skip ==
    /\ Walking
    /\ calls' = Append(calls, Position(FALSE, NoUsage, <<>>))
    /\ attempts' = Append(attempts, Attempt(FALSE, Unknown, FALSE))
    /\ rung' = rung + 1
    /\ UNCHANGED <<intent, booked>>

\* A whole answer that does not come: the failure names no usage, the candidate is
\* tried again or left.
CallFails ==
    /\ Walking
    /\ \E used \in Drawn \cup {NoUsage} :
           calls' = Append(calls, Position(TRUE, used, <<>>))
    /\ attempts' = Append(attempts, Attempt(FALSE, Unknown, FALSE))
    /\ rung' \in {rung, rung + 1}
    /\ UNCHANGED <<intent, booked>>

\* A whole answer that says nothing is asked for again while the candidate has
\* retries; it is priced by its own report, and billed to nobody.
Reroll ==
    /\ Walking
    /\ \E used \in Drawn : \E told \in {<<>>, <<Reported(used)>>} :
        /\ calls' = Append(calls, Position(TRUE, used, told))
        /\ attempts' = Append(attempts, Attempt(FALSE, TokensOf(told, 0), FALSE))
    /\ UNCHANGED <<rung, intent, booked>>

\* serve_completion, complete_synthetic_stream: without a report the answer is
\* discarded, with one it is billed and served.
ServeWhole ==
    /\ Walking
    /\ \E used \in Drawn : \E told \in {<<>>, <<Reported(used)>>} :
        /\ calls' = Append(calls, Position(TRUE, used, told))
        /\ attempts' = Append(attempts, Attempt(told # <<>>, TokensOf(told, 0), FALSE))
        /\ Owe(SettledUsage(TRUE, told), rung, attempts', told # <<>>)
    /\ UNCHANGED <<rung, booked>>

\* finish_successful_stream: without a report nothing is billed; with one, all of it
\* is, but for output that was offered and never taken.
StreamEnds ==
    /\ Walking
    /\ \E used \in Drawn : \E told \in {<<>>, <<Reported(used)>>} :
       \E offered, sent \in BOOLEAN :
        /\ sent => offered
        /\ calls' = Append(calls, Position(TRUE, used, told))
        /\ attempts' = Append(attempts, Attempt(sent, TokensOf(told, 0), FALSE))
        /\ Owe(SettledUsage(~(offered /\ ~sent), told), rung, attempts', sent)
    /\ UNCHANGED <<rung, booked>>

\* What was reported and counted of a stream that is cut off: a snapshot of what it
\* had come to, or no report and some of its chunks.
Heard(used) ==
    {[told |-> <<Reported([used EXCEPT !.output = n])>>, chunks |-> 0] : n \in 0..used.output}
    \cup {[told |-> <<>>, chunks |-> n] : n \in 0..used.output}

CutOff(used, heard, sent) ==
    /\ calls' = Append(calls, Position(TRUE, used, heard.told))
    /\ attempts' = Append(attempts, Attempt(sent, TokensOf(heard.told, heard.chunks),
                                            heard.told = <<>> /\ heard.chunks > 0))

\* A live stream breaks: settled when anything was delivered or nobody is left to
\* deliver to, and otherwise left for the next candidate.
StreamBreaks ==
    /\ Walking
    /\ \E used \in Drawn : \E heard \in Heard(used) : \E sent, gone \in BOOLEAN :
        /\ CutOff(used, heard, sent)
        /\ IF sent \/ gone
           THEN Owe(SettledUsage(sent, heard.told), rung, attempts', sent) /\ UNCHANGED rung
           ELSE rung' = rung + 1 /\ UNCHANGED intent
    /\ UNCHANGED booked

\* The deadline or a drain meets a live stream (settle_stream_interruption).
StreamInterrupted ==
    /\ Walking
    /\ \E used \in Drawn : \E heard \in Heard(used) : \E sent \in BOOLEAN :
        /\ CutOff(used, heard, sent)
        /\ Owe(SettledUsage(sent, heard.told), rung, attempts', sent)
    /\ UNCHANGED <<rung, booked>>

\* settle_walk_terminal and its streaming twins: no rung is left, or the deadline, a
\* drain or the client's leaving comes between two calls; nothing is billed.
WalkEnds ==
    /\ intent = <<>>
    /\ Owe(NoUsage, LastCandidate(calls), attempts, FALSE)
    /\ UNCHANGED <<rung, calls, attempts, booked>>

-----------------------------------------------------------------------------
(* From the payload to the row.                                            *)

\* The payload as the build that settles it reads it.  One an older build wrote
\* lacks the fields added since: the writes to a cache, of which such a build saw
\* none, or the tokens of an attempt, by figure.
RatesRead(table, lacks) ==
    IF lacks = "written" THEN [table EXCEPT !["written"] = Absent] ELSE table

TokensRead(t, lacks) ==
    CASE lacks = "nothing" -> t
      [] lacks = "written" -> Figures(t.input, t.output, t.cached, Absent)
      [] lacks = "tokens" -> Unknown

RowsRead(rows, lacks) ==
    [n \in DOMAIN rows |->
        [served |-> rows[n].served, tokens |-> TokensRead(rows[n].tokens, lacks),
         estimated |-> rows[n].estimated, cost |-> rows[n].cost]]

NoWrites(i) ==
    /\ i.usage.written = 0
    /\ \A n \in DOMAIN i.attempts : Known(i.attempts[n].tokens.written) = 0

ServedAmong(rows) == {n \in DOMAIN rows : rows[n].served}

\* RequestTelemetry::cost_basis: the served attempt's own, else what was settled.
SettledBasis(rows, basis, usage) ==
    IF ServedAmong(rows) # {}
    THEN rows[CHOOSE n \in ServedAmong(rows) : \A m \in ServedAmong(rows) : n <= m].cost
    ELSE IF DOMAIN basis = {} THEN Absent ELSE Cost(basis[1], usage)

\* Mutant: the served attempt is counted among the losses.
AnyCost(a) == Known(a.cost)

\* AttemptCogs::summarize and cogs_is_measured.
LossOf(a) == IF a.served THEN 0 ELSE Known(a.cost)
Losses(rows) ==
    IF DOMAIN rows = {} THEN Absent
    ELSE SumFunction([n \in DOMAIN rows |-> LossOf(rows[n])])

AllMeasured(rows) ==
    \A n \in DOMAIN rows :
        \/ rows[n].served
        \/ rows[n].cost # Absent /\ IsComplete(rows[n].tokens) /\ ~rows[n].estimated

\* settle_once's row.
RowOf(i, lacks) ==
    LET rows == RowsRead(i.attempts, lacks)
        basis == [n \in DOMAIN i.basis |-> RatesRead(i.basis[n], lacks)]
    IN  [usage |-> Reported(i.usage), cost |-> i.cost,
         sells |-> RatesRead(i.sells, lacks), basis |-> basis,
         basisCost |-> SettledBasis(rows, basis, i.usage),
         losses |-> Losses(rows), complete |-> AllMeasured(rows), attempts |-> rows]

\* Settled by whichever build replays the payload.
SettleRow ==
    /\ intent # <<>> /\ booked = <<>>
    /\ \E lacks \in {"nothing", "written", "tokens"} :
        /\ lacks = "written" => NoWrites(intent[1])
        /\ booked' = <<RowOf(intent[1], lacks)>>
    /\ UNCHANGED <<rung, calls, attempts, intent>>

AttemptsNext ==
    \/ Skip \/ CallFails \/ Reroll \/ ServeWhole
    \/ StreamEnds \/ StreamBreaks \/ StreamInterrupted
    \/ WalkEnds \/ SettleRow

AttemptsSpec == AttemptsInit /\ [][AttemptsNext]_attemptVars

-----------------------------------------------------------------------------
(* Properties.                                                             *)

CostOf(c, u) == Cost(At(Route[c.rung], u.prompt), u)
Invoiced == SumFunction([n \in DOMAIN calls |-> CostOf(calls[n], Reported(calls[n].used))])

IsBilled(r) == r.usage # NoUsage

\* What the books say the upstreams cost, the served attempt on one side and the
\* others on the other, is never more than they invoice: "exactly one place counts
\* each attempt's COGS" (AttemptRecord.served, cost_basis, summarize).
CountedOnce ==
    \A n \in DOMAIN booked :
        Known(booked[n].basisCost) + Known(booked[n].losses) <= Invoiced

\* The same, but for the one answer that is billed though nothing of it was served.
CountedOnceWhenServed ==
    \A n \in DOMAIN booked :
        (IsBilled(booked[n]) => ServedAmong(booked[n].attempts) # {})
            => Known(booked[n].basisCost) + Known(booked[n].losses) <= Invoiced

\* A sum of losses that claims to be whole is what the upstreams reported of every
\* losing call, through retries, cut streams and replays by another build
\* (attempts_cost_basis_complete).
LossesWhole ==
    \A n \in DOMAIN booked :
        booked[n].complete =>
            LET lost == {k \in DOMAIN calls : ~attempts[k].served}
            IN  /\ \A k \in lost : calls[k].told # <<>>
                /\ Known(booked[n].losses) =
                     SumFunction([k \in DOMAIN calls |->
                        IF k \in lost THEN CostOf(calls[k], calls[k].told[1]) ELSE 0])

\* The audit query for deliveries nobody was billed for finds those and no others: a
\* served attempt beside a row without tokens (settled_usage, serve_completion).
GapsFound ==
    \A n \in DOMAIN booked :
        (ServedAmong(booked[n].attempts) # {} /\ ~IsBilled(booked[n]))
            <=> (intent[1].reached /\ calls[Len(calls)].told = <<>>)

\* A row explains its own figures: its tokens at its recorded rates come to the
\* charge, and, when a metered attempt was served, to the cost its attempt carries
\* (rates_snapshot, cost_basis).
RowExplained ==
    \A n \in DOMAIN booked :
        /\ booked[n].cost = Cost(booked[n].sells, booked[n].usage)
        /\ IsBilled(booked[n]) /\ ServedAmong(booked[n].attempts) # {} =>
             booked[n].basisCost = Cost(booked[n].basis[1], booked[n].usage)

\* The cost of every position of a walk is counted in the row it settles into, on
\* one side of it only, with what is not known said to be (build_attempt,
\* cost_basis, summarize, settle_once).
CostsBooked == CountedOnceWhenServed /\ LossesWhole /\ GapsFound /\ RowExplained
=============================================================================
