----------------------------- MODULE StreamWalk -----------------------------
(***************************************************************************)
(* The streaming walk of one request, stream_to_channel and its terminals  *)
(* (router/src/api.rs): one dispatch per rung, output forwarded into a     *)
(* bounded channel a client may leave at any time, and a charge that needs *)
(* both output the channel accepted and usage the upstream reported.       *)
(*                                                                         *)
(* Which error a walk that ends with nothing reports follows the buffered  *)
(* walk's rule and is left to Walk.                                        *)
(***************************************************************************)
EXTENDS Route, FiniteSets

CONSTANT LiveKeys       \* keys whose client streams; others answer as one chunk

ASSUME LiveKeysAssumption == LiveKeys \subseteq Keys

VARIABLES
    pc,             \* where the walk is
    calls,          \* dispatches made per position, at most one
    failed,         \* positions whose failure earns the house fallback
    armed,          \* providers whose house fallback the walk has earned
    draining,       \* the process is shutting down
    listening,      \* the client still holds the response
    connected,      \* what the walk has found of that
    opened,         \* the opening frame of this rung's stream was accepted
    produced,       \* the model of this rung put out something
    attempted,      \* model_output_attempted
    sent,           \* model_output_sent
    reported,       \* this rung's upstream reported usage
    session,        \* "open", "settled" or "dropped"
    served,         \* positions recorded as the served attempt
    billed          \* does the settlement carry metered usage

streamVars == <<pc, calls, failed, armed, draining, listening, connected,
                opened, produced, attempted, sent, reported, session, served,
                billed>>

vars == <<healthVars, routeVars, streamVars>>

Positions == DOMAIN calls

TypeOK ==
    /\ HealthTypeOK
    /\ pc \in {"ordering", "arriving", "streaming", "calling", "done"}
    /\ at \in 1..Len(calls) + 1
    /\ calls \in [Positions -> 0..1]
    /\ failed \subseteq Positions /\ attached \subseteq Attachable /\ armed \subseteq attached
    /\ {draining, listening, connected, opened, produced, attempted, sent,
        reported, billed} \subseteq BOOLEAN
    /\ session \in {"open", "settled", "dropped"}
    /\ served \subseteq Positions

Init ==
    /\ RouteInit
    /\ pc = "ordering"
    /\ calls = [i \in 1..Len(Built) |-> 0]
    /\ failed = {} /\ armed = {} /\ draining = FALSE
    /\ listening = TRUE /\ connected = TRUE
    /\ opened = FALSE /\ produced = FALSE
    /\ attempted = FALSE /\ sent = FALSE /\ reported = FALSE
    /\ session = "open" /\ served = {} /\ billed = FALSE

Dispatched == \E i \in Positions : calls[i] > 0

DeliveryKept == UNCHANGED <<opened, produced, attempted, sent, reported>>

-----------------------------------------------------------------------------

Order ==
    /\ pc = "ordering"
    /\ \/ RankOne /\ UNCHANGED pc
       \/ StartWalk /\ pc' = "arriving"
    /\ UNCHANGED <<healthVars, calls, failed, armed, draining, listening,
                   connected, session, served, billed>>
    /\ DeliveryKept

Closed == Here.twin /\ Here.provider \notin armed

\* Mutant: the backstop without its floor.
UnhealthyWithoutFloor == Demoted(Here.key)

Unhealthy == Skippable(Dispatched)

Arriving == pc = "arriving" /\ at <= Len(route)

NextRung ==
    /\ at' = at + 1
    /\ pc' = "arriving"
    /\ UNCHANGED <<attached, route, sunk>>

\* Mutant: a skipped rung is looked at again.
SkipInPlace ==
    /\ Arriving
    /\ Closed \/ (listening /\ Unhealthy)
    /\ UNCHANGED vars

\* A closed rung is passed over before the walk looks for its client, an
\* unhealthy one after.
Skip ==
    /\ Arriving
    /\ Closed \/ (listening /\ Unhealthy)
    /\ NextRung
    /\ UNCHANGED <<healthVars, calls, failed, armed, draining, listening,
                   connected, session, served, billed>>
    /\ DeliveryKept

\* Every terminal that settles takes the session, with the served attempt if
\* there is one and metered usage or none.
Settle(delivered, charge) ==
    /\ pc' = "done"
    /\ session' = "settled"
    /\ served' = IF delivered THEN served \cup {at} ELSE served
    /\ billed' = charge
    /\ UNCHANGED <<routeVars, calls, failed, armed, draining, listening>>

\* Mutant: whatever the upstream reported is billed.
ReportedUsage == reported

\* settled_usage: bill only what was metered and reached the client.
SettledUsage == sent /\ reported

\* The client is found gone, or the deadline passed, before a dispatch.
EndsBeforeDispatch ==
    /\ Arriving /\ ~Closed
    /\ ~listening \/ ~Unhealthy
    /\ Settle(FALSE, FALSE)
    /\ UNCHANGED <<healthVars, connected>>
    /\ DeliveryKept

\* A live stream is marked dispatched and opened whether or not the process
\* is draining; a plain call is not begun once it is.
Dispatch ==
    /\ Arriving /\ ~Closed /\ listening /\ ~Unhealthy
    /\ Here.key \in LiveKeys \/ ~draining
    /\ pc' = IF Here.key \in LiveKeys THEN "streaming" ELSE "calling"
    /\ calls' = [calls EXCEPT ![at] = 1]
    /\ opened' = FALSE /\ reported' = FALSE
    /\ UNCHANGED <<healthVars, routeVars, failed, armed, draining, listening,
                   connected, produced, attempted, sent, session, served,
                   billed>>

\* A plain call is not begun because the process drains.
DrainedBeforeCall ==
    /\ Arriving /\ ~Closed /\ listening /\ ~Unhealthy
    /\ Here.key \notin LiveKeys /\ draining
    /\ Settle(FALSE, FALSE)
    /\ UNCHANGED <<healthVars, connected>>
    /\ DeliveryKept

-----------------------------------------------------------------------------
(* A live stream.                                                          *)

\* The stream is polled only while the process does not drain.
Polled == pc = "streaming" /\ ~draining

\* A text, reasoning or tool-call delta. A frame is refused once the client
\* is gone, an output frame also when the channel stays full past the send
\* timeout (too few opening frames precede the first output to fill it).
Delta ==
    /\ Polled
    /\ produced' = TRUE
    /\ \/ ~connected /\ UNCHANGED <<connected, opened, attempted, sent>>
       \/ /\ connected /\ ~opened /\ ~listening \* the opening frame is refused
          /\ connected' = FALSE
          /\ UNCHANGED <<opened, attempted, sent>>
       \/ /\ connected                          \* the output is refused
          /\ opened \/ listening
          /\ connected' = FALSE
          /\ opened' = TRUE /\ attempted' = TRUE
          /\ UNCHANGED sent
       \/ /\ connected /\ listening             \* some of it is accepted
          /\ connected' \in BOOLEAN
          /\ opened' = TRUE /\ attempted' = TRUE /\ sent' = TRUE
    /\ UNCHANGED <<healthVars, routeVars, pc, calls, failed, armed, draining,
                   listening, reported, session, served, billed>>

\* A usage event; an all-zero report counts as none.
Usage ==
    /\ Polled
    /\ reported' \in BOOLEAN
    /\ UNCHANGED <<healthVars, routeVars, pc, calls, failed, armed, draining,
                   listening, connected, opened, produced, attempted, sent,
                   session, served, billed>>

\* Mutant: an interruption is never recorded as the served attempt.
InterruptUnserved(outcome) ==
    /\ pc = "streaming"
    /\ outcome = "aborted" => draining
    /\ Observe(Here.key, outcome)
    /\ Settle(FALSE, SettledUsage)
    /\ UNCHANGED <<others, connected>>
    /\ DeliveryKept

\* The deadline passes, or the process drains, with the stream open.
Interrupt(outcome) ==
    /\ pc = "streaming"
    /\ outcome = "aborted" => draining
    /\ Observe(Here.key, outcome)
    /\ Settle(sent, SettledUsage)
    /\ UNCHANGED <<others, connected>>
    /\ DeliveryKept

\* finish_successful_stream: nothing metered is not billed, and neither is
\* output refused by the channel; an empty answer is.
Finish ==
    /\ Polled
    /\ Observe(Here.key, "ok")
    /\ Settle(sent, reported /\ ~(attempted /\ ~sent))
    /\ UNCHANGED <<others, connected>>
    /\ DeliveryKept

\* A failed attempt of the customer's key earns the fallback, unless the
\* account cannot pay.
Arm(class) ==
    /\ failed' = IF class = "accountRefused" THEN failed ELSE failed \cup {at}
    /\ armed' = IF Here.byok /\ class # "accountRefused"
                THEN armed \cup {Here.provider} ELSE armed

Limited(class) == class \in {"limited", "accountRefused"}

\* Mutant: a broken stream falls through whatever it had delivered.
BrokenForGood == ~connected'

\* The stream ends without its terminal after output reached the client, or
\* with the client gone: the request ends here.
OverForTheClient == sent \/ ~connected'

\* The stream breaks: settle what was delivered, or go on to the next rung.
Break(class) ==
    /\ Polled
    /\ connected' = (connected /\ listening)
    /\ Observe(Here.key, IF Limited(class) /\ ~sent
                         THEN "rate_limited" ELSE "stream_error")
    /\ \/ /\ OverForTheClient
          /\ Settle(sent, SettledUsage)
       \/ /\ ~OverForTheClient
          /\ Arm(class)
          /\ NextRung
          /\ UNCHANGED <<calls, draining, listening, session, served, billed>>
    /\ UNCHANGED others
    /\ DeliveryKept

-----------------------------------------------------------------------------
(* A rung that cannot stream: one plain call, replayed as a stream.        *)

\* complete_synthetic_stream settles before it replays anything.
Complete ==
    /\ pc = "calling" /\ ~draining
    /\ Observe(Here.key, "ok")
    /\ \E metered \in BOOLEAN : Settle(metered, metered)
    /\ UNCHANGED <<others, connected>>
    /\ DeliveryKept

CallCutShort(outcome) ==
    /\ pc = "calling"
    /\ draining <=> outcome = "aborted"
    /\ Observe(Here.key, outcome)
    /\ Settle(FALSE, FALSE)
    /\ UNCHANGED <<others, connected>>
    /\ DeliveryKept

CallFails(class) ==
    /\ pc = "calling" /\ ~draining
    /\ Observe(Here.key, IF Limited(class) THEN "rate_limited"
                         ELSE "upstream_error")
    /\ Arm(class)
    /\ NextRung
    /\ UNCHANGED <<others, calls, draining, listening, connected, session,
                   served, billed>>
    /\ DeliveryKept

\* Mutant: a walk that failed everywhere returns without a settle.
ExhaustUnsettled ==
    /\ pc = "arriving" /\ at > Len(route)
    /\ pc' = "done"
    /\ session' = "dropped"
    /\ UNCHANGED <<healthVars, routeVars, calls, failed, armed, draining,
                   listening, connected, served, billed>>
    /\ DeliveryKept

\* Every rung is behind: settle at zero, or drop the session when no rung was
\* ever dispatched to.
Exhaust ==
    /\ pc = "arriving" /\ at > Len(route)
    /\ pc' = "done"
    /\ session' = IF Dispatched THEN "settled" ELSE "dropped"
    /\ UNCHANGED <<healthVars, routeVars, calls, failed, armed, draining,
                   listening, connected, served, billed>>
    /\ DeliveryKept

-----------------------------------------------------------------------------

Surroundings ==
    /\ pc # "done"
    /\ UNCHANGED <<routeVars, pc, calls, failed, armed, connected, session,
                   served, billed>>
    /\ DeliveryKept
    /\ \/ ~draining /\ draining' = TRUE /\ UNCHANGED <<healthVars, listening>>
       \/ listening /\ listening' = FALSE /\ UNCHANGED <<healthVars, draining>>
       \/ /\ OthersObserve \/ CooldownEnds
          /\ UNCHANGED <<draining, listening>>

Failing == {"limited", "accountRefused", "other"}

StreamEnds ==
    \/ \E outcome \in {"timeout", "aborted"} : Interrupt(outcome)
    \/ Finish
    \/ \E class \in Failing : Break(class)

WalkNext ==
    \/ Order \/ Skip \/ EndsBeforeDispatch \/ Dispatch \/ DrainedBeforeCall
    \/ StreamEnds
    \/ Complete
    \/ \E outcome \in {"timeout", "aborted"} : CallCutShort(outcome)
    \/ \E class \in Failing : CallFails(class)
    \/ Exhaust

Next == WalkNext \/ Delta \/ Usage \/ Surroundings

Spec == Init /\ [][Next]_vars

-----------------------------------------------------------------------------
(* Properties.                                                             *)

\* A house dispatch at the full price only follows a failure in this walk, of a
\* covered kind, of the customer's own key for the provider it is made to: a key of
\* another provider that failed, or an account that cannot pay, earns nothing
\* (byok_fallback_armed).
FallbackEarned ==
    \A i \in DOMAIN route :
        (route[i].twin /\ calls[i] > 0) =>
            \E j \in failed : route[j].byok /\ route[j].provider = route[i].provider

\* Once output of one rung was handed to the client no other rung is asked: an
\* answer is never stitched together from two models.
NeverTwoAnswers ==
    [][sent => calls' = calls]_vars

\* A live stream, finished or not, is charged only with usage the upstream
\* metered, and never for output the channel was offered and refused.
ChargedForDelivery ==
    (billed /\ Here.key \in LiveKeys) => reported /\ (sent \/ ~attempted)

\* Whatever way a stream ends after output reached the client, the ledger
\* holds exactly one served attempt, so an unbilled delivery can be counted.
DeliveryRecorded ==
    (session = "settled" /\ sent) => served = {at}

\* What the settlement and the ledger of attempts say of a stream is what came of
\* it: charged as metered and delivered, and a delivery on record, charged or not
\* (settled_usage, finish_successful_stream, settle_stream_interruption).
DeliveryAccounted == ChargedForDelivery /\ DeliveryRecorded

\* A walk over house rungs always settles: no reservation is left to expire.
AlwaysSettles == attached = {} => session # "dropped"

\* What finish_successful_stream says of its charge: a client that walked away
\* is not billed for output it never received.
LostOutputUnbilled == (billed /\ produced) => sent

Promise == INSTANCE Metered WITH dispatched <- Dispatched

\* The walk keeps the promise its reservation relies on.
KeepsPromise == Promise!Spec

=============================================================================
