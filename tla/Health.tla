------------------------------- MODULE Health -------------------------------
(***************************************************************************)
(* The router's health registry (router/src/health.rs): per provider and   *)
(* model, a moving average of availability failures and a cooldown after a *)
(* 429.  Every walk of the process folds its attempts into the one map, so *)
(* what a walk reads may have changed since it last looked.                *)
(***************************************************************************)
EXTENDS Integers

CONSTANTS
    Keys,           \* (provider, model) pairs
    MaxOthers       \* bound: attempts other requests fold in meanwhile

ASSUME OthersAssumption == MaxOthers \in Nat

VARIABLES
    errorEwma,      \* error_ewma in thousandths, rounded down
    cooling,        \* keys whose cooldown_until lies ahead
    others          \* attempts of other requests so far

healthVars == <<errorEwma, cooling, others>>

\* The outcome labels that move an average up; a skip, a blank turn or an
\* aborted call says nothing about availability.
Failures == {"upstream_error", "timeout", "stream_error"}

HealthTypeOK ==
    /\ errorEwma \in [Keys -> 0..1000]
    /\ cooling \subseteq Keys
    /\ others \in 0..MaxOthers

HealthInit ==
    /\ errorEwma = [k \in Keys |-> 0]
    /\ cooling = {}
    /\ others = 0

Demoted(k) == errorEwma[k] > 500 \/ k \in cooling

\* ProviderHealth::observe, at the single funnel every attempt row goes
\* through.
Observe(k, outcome) ==
    LET decayed == (7 * errorEwma[k]) \div 10
    IN  /\ errorEwma' = [errorEwma EXCEPT ![k] =
                CASE outcome = "ok" -> decayed
                  [] outcome \in Failures -> 300 + decayed
                  [] OTHER -> @]
        /\ cooling' = CASE outcome = "ok" -> cooling \ {k}
                        [] outcome = "rate_limited" -> cooling \cup {k}
                        [] OTHER -> cooling

\* An attempt of another request of this process.
OthersObserve ==
    /\ others < MaxOthers
    /\ others' = others + 1
    /\ \E k \in Keys, outcome \in {"ok", "rate_limited", "upstream_error"} :
            Observe(k, outcome)

\* A minute passes since the last 429 of a key.
CooldownEnds ==
    /\ \E k \in cooling : cooling' = cooling \ {k}
    /\ UNCHANGED <<errorEwma, others>>

=============================================================================
