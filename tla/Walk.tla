-------------------------------- MODULE Walk --------------------------------
(***************************************************************************)
(* The buffered walk of one request over its route, run_non_streaming      *)
(* (router/src/api.rs): skips, up to three calls per rung, the one prompt  *)
(* truncation, the arming of a fallback twin, and the terminal that        *)
(* settles.  Other requests of the process move the shared health registry *)
(* at any time; the deadline may have passed at any check of it.           *)
(***************************************************************************)
EXTENDS Route, FiniteSets

CONSTANT Answers        \* the failures upstreams give, from those below

\* How an upstream failure classifies (retry.rs): RateLimited, Retryable,
\* RateLimitedNonRetryable, NonRetryable, ContextWindow with and without a
\* 429, RetentionAttestation.
Classes == {"limited", "retryable", "accountRefused", "refused", "tooLong",
            "tooLongLimited", "unattested"}

ASSUME AnswersAssumption == Answers \subseteq Classes

CandidateRetries == 2

VARIABLES
    pc,             \* where the walk is
    calls,          \* upstream calls made per position
    answers,        \* failures each position has answered with
    armed,          \* providers whose house fallback the walk has earned
    truncated,      \* has the prompt been shortened
    unattested,     \* latched: some rung would not attest its retention
    parameter,      \* latched: some rung refused a named parameter
    draining,       \* the process is shutting down
    result,         \* the terminal, once there is one
    served,         \* positions recorded as the served attempt
    billed          \* does the settlement carry metered usage

walkVars == <<pc, calls, answers, armed, truncated, unattested, parameter,
              draining, result, served, billed>>

vars == <<healthVars, routeVars, walkVars>>

Positions == DOMAIN calls

TypeOK ==
    /\ HealthTypeOK
    /\ pc \in {"ordering", "arriving", "retrying", "inflight", "backoff", "done"}
    /\ at \in 1..Len(calls) + 1
    /\ calls \in [Positions -> 0..CandidateRetries + 1]
    /\ answers \in [Positions -> SUBSET Answers]
    /\ attached \subseteq Attachable /\ armed \subseteq attached
    /\ {truncated, unattested, parameter, draining, billed} \subseteq BOOLEAN
    /\ served \subseteq Positions
    /\ result \in {"none", "served", "unmetered", "exhausted", "retention",
                   "parameter", "timeout", "shutdown"}

Init ==
    /\ RouteInit
    /\ pc = "ordering"
    /\ calls = [i \in 1..Len(Built) |-> 0]
    /\ answers = [i \in 1..Len(Built) |-> {}]
    /\ armed = {} /\ truncated = FALSE
    /\ unattested = FALSE /\ parameter = FALSE /\ draining = FALSE
    /\ result = "none" /\ served = {} /\ billed = FALSE

Dispatched == \E i \in Positions : calls[i] > 0

-----------------------------------------------------------------------------

\* order_candidates and the retention partition, one health read at a time.
Order ==
    /\ pc = "ordering"
    /\ \/ RankOne /\ UNCHANGED pc
       \/ StartWalk /\ pc' = "arriving"
    /\ UNCHANGED <<healthVars, calls, answers, armed, truncated, unattested,
                   parameter, draining, result, served, billed>>

\* A fallback rung stays closed until its provider's key has failed.
Closed == Here.twin /\ Here.provider \notin armed

Unhealthy == Skippable(Dispatched)

NextRung ==
    /\ at' = at + 1
    /\ pc' = "arriving"
    /\ UNCHANGED <<attached, route, sunk>>

Skip ==
    /\ pc = "arriving" /\ at <= Len(route)
    /\ Closed \/ Unhealthy
    /\ NextRung
    /\ UNCHANGED <<healthVars, calls, answers, armed, truncated, unattested,
                   parameter, draining, result, served, billed>>

\* About to call the rung: admitted on arrival, or back for a retry.
Ready ==
    \/ pc = "retrying"
    \/ pc = "arriving" /\ at <= Len(route) /\ ~Closed /\ ~Unhealthy

\* The call begins, and the dispatch marker is fired, unless a drain is seen
\* first.
Dispatch ==
    /\ Ready /\ ~draining
    /\ pc' = "inflight"
    /\ calls' = [calls EXCEPT ![at] = @ + 1]
    /\ UNCHANGED <<healthVars, routeVars, answers, armed, truncated,
                   unattested, parameter, draining, result, served, billed>>

\* settle_walk_terminal: the walk ends with nothing to bill.
Terminal(how) ==
    /\ pc' = "done"
    /\ result' = how
    /\ UNCHANGED <<routeVars, calls, answers, armed, truncated, unattested,
                   parameter, draining, served, billed>>

\* The deadline is found passed, or the drain seen, before the call begins.
EndsBeforeCall ==
    /\ Ready
    /\ \/ Terminal("timeout")
       \/ draining /\ Terminal("shutdown")
    /\ UNCHANGED healthVars

\* The call outlives the deadline, or the drain aborts it.
CallCutShort ==
    /\ pc = "inflight"
    /\ \/ ~draining /\ Terminal("timeout") /\ Observe(Here.key, "timeout")
       \/ /\ draining /\ Terminal("shutdown")
          /\ UNCHANGED <<errorEwma, cooling>>
    /\ UNCHANGED others

\* The answer of a call is looked at only while the process does not drain.
Answered == pc = "inflight" /\ ~draining

\* serve_completion: a response with usage is billed and served; one without
\* settles at zero and is withheld.
Serve ==
    /\ Answered
    /\ pc' = "done"
    /\ Observe(Here.key, "ok")
    /\ \/ result' = "served" /\ billed' = TRUE /\ served' = served \cup {at}
       \/ result' = "unmetered" /\ UNCHANGED <<billed, served>>
    /\ UNCHANGED <<others, routeVars, calls, answers, armed, truncated,
                   unattested, parameter, draining>>

CallsLeft == calls[at] <= CandidateRetries

\* Mutant: the usage of a discarded empty turn reaches the bill.
BlankBilled ==
    /\ Answered /\ CallsLeft
    /\ pc' = "backoff"
    /\ billed' = TRUE
    /\ UNCHANGED <<healthVars, routeVars, calls, answers, armed, truncated,
                   unattested, parameter, draining, result, served>>

\* Mutant: an empty turn starts the rung's calls over.
BlankStartsOver ==
    /\ Answered /\ CallsLeft
    /\ pc' = "backoff"
    /\ calls' = [calls EXCEPT ![at] = 0]
    /\ UNCHANGED <<healthVars, routeVars, answers, armed, truncated, unattested,
                   parameter, draining, result, served, billed>>

\* An empty turn is rolled again while calls are left.
Blank ==
    /\ Answered /\ CallsLeft
    /\ pc' = "backoff"
    /\ UNCHANGED <<healthVars, routeVars, calls, answers, armed, truncated,
                   unattested, parameter, draining, result, served, billed>>

-----------------------------------------------------------------------------
(* A failed call: how it is labelled, what it latches, where the walk goes.*)

NonRetryable(class) == class \in {"refused", "accountRefused", "unattested"}

RateLimited(class) == class \in {"limited", "accountRefused"}

Outcome(class) ==
    IF class \in {"limited", "accountRefused", "tooLongLimited"}
    THEN "rate_limited" ELSE "upstream_error"

\* An account that cannot pay does not earn the house fallback.
PermitsFallback(class) == class # "accountRefused"

\* What this rung can fail with: the prompt is too long only once, and only
\* the house credential asserts an attestation.
Possible(class) ==
    /\ class \in Answers
    /\ class \in {"tooLong", "tooLongLimited"} => ~truncated
    /\ class = "unattested" => ~Here.byok

\* Shorten the prompt and call again (which may use up the rung's last call),
\* or give the walk up; leave a rung that will not answer, or that is rate
\* limited when there is another; otherwise wait and call again.
AfterFailure(class) ==
    CASE class \in {"tooLong", "tooLongLimited"} ->
            \/ /\ truncated' = TRUE
               /\ IF CallsLeft THEN pc' = "retrying" /\ UNCHANGED routeVars
                  ELSE NextRung
            \/ /\ pc' = "arriving" /\ at' = Len(route) + 1
               /\ UNCHANGED <<attached, route, sunk, truncated>>
      [] \/ NonRetryable(class)
         \/ RateLimited(class) /\ Len(route) > 1
         \/ class \in {"limited", "retryable"} /\ ~CallsLeft ->
            NextRung /\ UNCHANGED truncated
      [] OTHER -> pc' = "backoff" /\ UNCHANGED <<routeVars, truncated>>

Fail(class) ==
    /\ Answered /\ Possible(class)
    /\ Observe(Here.key, Outcome(class))
    /\ answers' = [answers EXCEPT ![at] = @ \cup {class}]
    /\ unattested' = (unattested \/ class = "unattested")
    /\ \E named \in BOOLEAN :
        parameter' = (parameter \/ (class = "refused" /\ named))
    /\ armed' = IF Here.byok /\ PermitsFallback(class)
                THEN armed \cup {Here.provider} ELSE armed
    /\ AfterFailure(class)
    /\ UNCHANGED <<others, calls, draining, result, served, billed>>

\* sleep_backoff: waited out, or cut short by the drain.
Wait ==
    /\ pc = "backoff" /\ ~draining
    /\ pc' = "retrying"
    /\ UNCHANGED <<healthVars, routeVars, calls, answers, armed, truncated,
                   unattested, parameter, draining, result, served, billed>>

WaitCutShort ==
    /\ pc = "backoff" /\ draining
    /\ Terminal("shutdown")
    /\ UNCHANGED healthVars

\* Mutant: the parameter refusal outranks the retention failure.
ExhaustedWithParameterFirst ==
    IF parameter THEN "parameter"
    ELSE IF unattested THEN "retention" ELSE "exhausted"

ExhaustedWith ==
    IF unattested THEN "retention"
    ELSE IF parameter THEN "parameter" ELSE "exhausted"

Exhaust ==
    /\ pc = "arriving" /\ at > Len(route)
    /\ Terminal(ExhaustedWith)
    /\ UNCHANGED healthVars

-----------------------------------------------------------------------------

Drain ==
    /\ ~draining
    /\ draining' = TRUE
    /\ UNCHANGED <<healthVars, routeVars, pc, calls, answers, armed, truncated,
                   unattested, parameter, result, served, billed>>

WalkNext ==
    \/ Order \/ Skip \/ Dispatch \/ EndsBeforeCall
    \/ CallCutShort \/ Serve \/ Blank
    \/ \E class \in Classes : Fail(class)
    \/ Wait \/ WaitCutShort \/ Exhaust

Next ==
    \/ WalkNext
    \/ Drain
    \/ pc # "done" /\ (OthersObserve \/ CooldownEnds)
                   /\ UNCHANGED <<routeVars, walkVars>>

Spec == Init /\ [][Next]_vars

-----------------------------------------------------------------------------
(* Properties.                                                             *)

\* A house dispatch at the full price only follows a failure in this walk, of a
\* covered kind, of the customer's own key for the provider it is made to: a key of
\* another provider that failed, or an account that cannot pay, earns nothing
\* (byok_fallback_armed, permits_byok_fallback).
FallbackEarned ==
    \A i \in DOMAIN route :
        (route[i].twin /\ calls[i] > 0) =>
            \E j \in DOMAIN route :
                /\ route[j].byok /\ route[j].provider = route[i].provider
                /\ answers[j] \cap (Classes \ {"accountRefused"}) # {}

\* The customer is told of a data guarantee that did not hold, whatever other
\* rungs failed with before or after.
RetentionFailureReported ==
    (/\ result \in {"exhausted", "retention", "parameter", "served"}
     /\ \E i \in Positions : "unattested" \in answers[i])
        => result \in {"retention", "served"}

\* On a routed id no standard-retention rung sees the prompt while a
\* zero-retention rung is still to come, whatever health and ordering did.
ZeroRetentionFirst ==
    \A i, j \in DOMAIN route :
        (Routed /\ calls[i] > 0 /\ ~route[i].zero /\ route[j].zero) => j < i

\* Each dispatch is one the customer's terms allow: at the full price only where the
\* own key for that provider failed, and never laxer than what is still to come
\* (run_non_streaming, order_candidates).
DispatchesAllowed == FallbackEarned /\ ZeroRetentionFirst

\* What DEPLOY.md and retry.rs say of the opt-in: a failed dispatch to the
\* customer's provider is retried on the house credential, unless the account
\* cannot pay (nor is a prompt that fits nowhere counted here).
OptInHonoured ==
    result \in {"exhausted", "retention", "parameter"} =>
        \A i, j \in DOMAIN route :
            (/\ route[i].byok /\ route[j].twin /\ route[i].def = route[j].def
             /\ answers[i] # {}
             /\ answers[i] \subseteq {"limited", "retryable", "refused"})
                => calls[j] > 0

\* What is left of a walk: positions, then calls of the one it is at, then
\* stages of a call.
Left ==
    IF pc = "done" THEN -1
    ELSE IF pc = "ordering" THEN 10 * (2 * Len(calls) + 4 - at)
    ELSE 10 * (Len(route) + 1 - at)
         + (IF at > Len(route) THEN 0 ELSE 3 * (CandidateRetries + 1 - calls[at]))
         + (CASE pc = "inflight" -> 2 [] pc = "backoff" -> 1 [] OTHER -> 0)

\* However upstreams answer, empty turns, repairs and retries included, every
\* step of a walk brings it nearer to its end.
NearerToItsEnd == [][Left' < Left]_<<routeVars, pc, calls, answers, result>>

Promise == INSTANCE Metered WITH
    session <- IF pc = "done" THEN "settled" ELSE "open",
    dispatched <- Dispatched

\* The walk keeps the promise its reservation relies on.
KeepsPromise == Promise!Spec

=============================================================================
