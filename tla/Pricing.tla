------------------------------ MODULE Pricing ------------------------------
(***************************************************************************)
(* Rate tables, rate schedules and what a usage costs at them (ModelRates  *)
(* and RateSchedule of router/src/provider.rs, usage_cost and OpenAiUsage  *)
(* of router/src/openai.rs, the margin rules of router/src/config.rs).     *)
(*                                                                         *)
(* A rate is a number of some unit no smaller than the last digit of a     *)
(* Decimal, so that sums and products are exact, as they are in the code; a *)
(* cost is in that unit for a million tokens.  A schedule is the function  *)
(* from its thresholds to the table that applies from there on, the base   *)
(* at 0: thresholds that repeat, descend or are 0 refuse the whole file    *)
(* (validate_rate_schedule) before anything reads them.                    *)
(***************************************************************************)
EXTENDS Integers

CONSTANTS
    MaxRate,     \* MAX_RATE_PER_MTOK
    Absent       \* an optional rate the table does not declare

ASSUME PricingAssumption == MaxRate \in Nat /\ Absent \notin Int

Required == {"input", "output"}
Optional == {"cached", "written"}
Dimensions == Required \cup Optional

\* What validate_rates lets through: both required rates, each rate one billable_rate converts.
RateValues == 0..MaxRate
Tables == {table \in [Dimensions -> RateValues \cup {Absent}] :
              \A d \in Required : table[d] # Absent}

IsSchedule(s) ==
    /\ DOMAIN s \subseteq Nat /\ 0 \in DOMAIN s
    /\ \A t \in DOMAIN s : s[t] \in Tables

Dearest(rates) == CHOOSE most \in rates : \A rate \in rates : rate <= most

\* effective_cached_input_per_mtok and effective_cache_write_per_mtok: what an
\* absent optional rate bills at.
Effective(table, d) == IF table[d] = Absent THEN table["input"] ELSE table[d]

\* RateSchedule::at_prompt_tokens: the highest threshold the prompt reached.
BandAt(s, prompt) == Dearest({t \in DOMAIN s : t <= prompt})
At(s, prompt) == s[BandAt(s, prompt)]

\* RateSchedule::worst_case: dimension by dimension over every band.  (Of a flat
\* schedule the code returns the base itself, which bills the same.)
WorstCase(s) == [d \in Dimensions |-> Dearest({Effective(s[t], d) : t \in DOMAIN s})]

\* Mutant: the prompt held at the dearest input rate, as before cache writes.
HeldAtInput(s) == WorstCase(s)

\* RateSchedule::reservation_rates: every prompt token held at the dearest rate
\* any prompt token may settle at.
ReservationRates(s) ==
    [WorstCase(s) EXCEPT !["input"] =
        Dearest({WorstCase(s)[d] : d \in {"input", "cached", "written"}})]

\* RateSchedule::prices_cache_writes and are_zero.
PricesWrites(s) == \A t \in DOMAIN s : s[t]["written"] # Absent
IsFree(s) == \A d \in Dimensions : WorstCase(s)[d] = 0

-----------------------------------------------------------------------------
(* Usages.                                                                 *)

Smaller(a, b) == IF a <= b THEN a ELSE b

IsUsage(u) ==
    /\ u.prompt \in Nat /\ u.output \in Nat
    /\ u.cached \in Nat /\ u.written \in Nat

\* The prompt split three ways: read from the cache, written to it, fresh.
\* What an upstream reports need not add up; the reads are counted first.
CachedOf(u) == Smaller(u.cached, u.prompt)
WrittenOf(u) == Smaller(u.written, u.prompt - CachedOf(u))
FreshOf(u) == u.prompt - CachedOf(u) - WrittenOf(u)

\* usage_cost, times a million.
Cost(table, u) ==
    FreshOf(u) * table["input"]
    + CachedOf(u) * Effective(table, "cached")
    + WrittenOf(u) * Effective(table, "written")
    + u.output * table["output"]

\* reservation_usage: the bounds of a request, nothing known of a cache.
BoundOf(prompt, output) ==
    [prompt |-> prompt, output |-> output, cached |-> 0, written |-> 0]

-----------------------------------------------------------------------------
(* Two schedules side by side.                                             *)

\* Mutant: the bands of the seller alone.
CoversAtSellersBands(sells, basis) ==
    \A t \in DOMAIN sells, d \in Dimensions :
        Effective(At(basis, t), d) <= Effective(At(sells, t), d)

\* validate_candidate_margin: probed at every threshold of either side.
Covers(sells, basis) ==
    \A t \in DOMAIN sells \cup DOMAIN basis, d \in Dimensions :
        Effective(At(basis, t), d) <= Effective(At(sells, t), d)

\* validate_cache_is_a_discount, of the rates as declared.
CacheIsDiscount(s) ==
    \A t \in DOMAIN s : s[t]["cached"] # Absent => s[t]["cached"] <= s[t]["input"]

\* RateSchedule::dearest_across, of schedules that reprice at the same sizes: an
\* optional rate is declared when any of them declares it.
SameBands(schedules) == \A s, t \in schedules : DOMAIN s = DOMAIN t
DearestAcross(schedules) ==
    [t \in UNION {DOMAIN s : s \in schedules} |->
        [d \in Dimensions |->
            IF d \in Optional /\ \A s \in schedules : s[t][d] = Absent
              THEN Absent
              ELSE Dearest({Effective(s[t], d) : s \in schedules})]]
=============================================================================
