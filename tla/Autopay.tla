------------------------------- MODULE Autopay -------------------------------
(***************************************************************************)
(* Auto-recharge of one account: sweeps that charge its saved card at      *)
(* Stripe, the reconciliation of charges whose answer was lost, and the    *)
(* webhooks that settle them (router/src/stripe.rs, router/src/billing.rs).*)
(*                                                                         *)
(* A claim row named after an idempotency key is written before any money  *)
(* moves and renamed to the PaymentIntent once Stripe answers. At most one *)
(* row of an account is pending, which is what keeps sweeps apart. Stripe  *)
(* is modelled as the code relies on it: one key is one charge, a request  *)
(* that repeats a key with another card is refused, and a webhook is       *)
(* delivered until it is acknowledged.                                     *)
(***************************************************************************)
EXTENDS Integers, FiniteSets

CONSTANTS
    Keys,           \* idempotency keys, one per claim
    Cards,          \* cards the customer may have saved
    NoCard,
    Sweeps,         \* sweep loops, one per running instance
    MaxStrikes,     \* failures in a row that disarm autopay
    CardsMove       \* may a card be saved or removed while a charge is open

ASSUME AutopayAssumption ==
    /\ MaxStrikes \in Nat \ {0} /\ NoCard \notin Cards
    /\ CardsMove \in BOOLEAN

VARIABLES
    armed,      \* users.autopay_enabled
    barred,     \* users.frozen_at is set, or the balance is negative
    strikes,    \* users.autopay_consecutive_failures
    low,        \* the balance is under the threshold
    card,       \* the card Stripe lists first
    claim,      \* the row local_<key>: its status, or "none" or "gone"
    intent,     \* the row under the key's PaymentIntent
    taxed,      \* whether the key's row has a frozen tax
    age,        \* fresh, stale (replayable) or overdue
    charge,     \* the PaymentIntent at Stripe
    paidWith,   \* the card its first request named
    hook,       \* its webhook
    credits,    \* ledger entries naming it
    job,        \* what each sweep is doing
    steady      \* the customer leaves the cards alone while a charge is open

rows == <<claim, intent, taxed>>
userRow == <<armed, barred, strikes, low>>
stripe == <<card, charge, paidWith, steady>>
autopayVars == <<userRow, stripe, rows, age, hook, credits, job>>

\* What a sweep holds between two awaits.
Task == [at : {"idle", "picked", "listing", "pricing", "guarding", "posting",
               "attaching", "settling", "failing", "dropping", "asking"},
         key : SUBSET Keys, card : Cards \cup {NoCard},
         answer : {"none", "open", "succeeded", "declined"}]

Idle == [at |-> "idle", key |-> {}, card |-> NoCard, answer |-> "none"]

AutopayTypeOK ==
    /\ armed \in BOOLEAN /\ barred \in BOOLEAN /\ low \in BOOLEAN
    /\ steady \in BOOLEAN /\ (~steady => CardsMove)
    /\ strikes \in 0..MaxStrikes
    /\ card \in Cards \cup {NoCard}
    /\ claim \in [Keys -> {"none", "pending", "failed", "gone"}]
    /\ intent \in [Keys -> {"none", "pending", "succeeded", "failed", "withheld"}]
    /\ taxed \in [Keys -> BOOLEAN]
    /\ age \in [Keys -> {"fresh", "stale", "overdue"}]
    /\ charge \in [Keys -> {"none", "processing", "succeeded", "declined"}]
    /\ paidWith \in [Keys -> Cards \cup {NoCard}]
    /\ hook \in [Keys -> {"none", "due", "recorded", "acked"}]
    /\ credits \in [Keys -> Nat]
    /\ job \in [Sweeps -> Task]

AutopayInit ==
    /\ armed = FALSE /\ barred = FALSE /\ strikes = 0 /\ low = FALSE
    /\ card = NoCard /\ steady \in {TRUE, ~CardsMove}
    /\ claim = [k \in Keys |-> "none"] /\ intent = [k \in Keys |-> "none"]
    /\ taxed = [k \in Keys |-> FALSE] /\ age = [k \in Keys |-> "fresh"]
    /\ charge = [k \in Keys |-> "none"] /\ paidWith = [k \in Keys |-> NoCard]
    /\ hook = [k \in Keys |-> "none"] /\ credits = [k \in Keys |-> 0]
    /\ job = [s \in Sweeps |-> Idle]

\* The rows stripe_autopay_one_pending_per_user admits no second of.
SlotTaken == \E k \in Keys : claim[k] = "pending" \/ intent[k] = "pending"

\* autopay_enabled AND the eligibility predicate.
Eligible == armed /\ ~barred /\ strikes < MaxStrikes

At(s, step, k) == job[s].at = step /\ job[s].key = {k}

Does(s, step) == job' = [job EXCEPT ![s].at = step]

Ends(s) == job' = [job EXCEPT ![s] = Idle]

-----------------------------------------------------------------------------
(* Row transitions. Each is one statement or transaction.                  *)

\* A failure counts once, and the last one disarms.
Strike ==
    /\ strikes' = IF strikes + 1 < MaxStrikes THEN strikes + 1 ELSE MaxStrikes
    /\ armed' = (armed /\ strikes + 1 < MaxStrikes)
    /\ UNCHANGED <<barred, low>>

\* fail_autopay_intent, on the claim row or on the intent row.
FailClaim(k) ==
    /\ \/ claim[k] = "pending" /\ claim' = [claim EXCEPT ![k] = "failed"] /\ Strike
       \/ claim[k] # "pending" /\ UNCHANGED <<claim, userRow>>
    /\ UNCHANGED <<intent, taxed>>

FailIntent(k) ==
    /\ \/ intent[k] = "pending" /\ intent' = [intent EXCEPT ![k] = "failed"] /\ Strike
       \/ intent[k] # "pending" /\ UNCHANGED <<intent, userRow>>
    /\ UNCHANGED <<claim, taxed>>

\* attach_autopay_intent renames the claim whatever its status, or drops it in
\* favour of a row the webhook inserted.
Attach(k) ==
    /\ claim' = [claim EXCEPT ![k] = "gone"]
    /\ intent' = IF claim[k] \in {"pending", "failed"} /\ intent[k] = "none"
                 THEN [intent EXCEPT ![k] = claim[k]] ELSE intent
    /\ UNCHANGED taxed

\* settle_autopay_intent can insert the row it is missing, unless another
\* pending row of the account refuses it.
Insertable(k) == intent[k] # "none" \/ ~SlotTaken

\* Mutant: the credit does not wait for a pending row.
SettleAgain(k) ==
    /\ Insertable(k) /\ Eligible
    /\ intent' = [intent EXCEPT ![k] = "succeeded"]
    /\ credits' = [credits EXCEPT ![k] = @ + 1]
    /\ strikes' = 0 /\ low' \in {FALSE, low}
    /\ UNCHANGED <<armed, barred, claim, taxed>>

\* settle_autopay_intent: a pending row is credited to an eligible account and
\* withheld from any other; any other row was settled before.
Settle(k) ==
    /\ Insertable(k)
    /\ \/ /\ intent[k] \in {"none", "pending"} /\ Eligible
          /\ intent' = [intent EXCEPT ![k] = "succeeded"]
          /\ credits' = [credits EXCEPT ![k] = @ + 1]
          /\ strikes' = 0 /\ low' \in {FALSE, low}
          /\ UNCHANGED <<armed, barred>>
       \/ /\ intent[k] \in {"none", "pending"} /\ ~Eligible
          /\ intent' = [intent EXCEPT ![k] = "withheld"]
          /\ UNCHANGED <<credits, userRow>>
       \/ /\ intent[k] \notin {"none", "pending"}
          /\ UNCHANGED <<intent, credits, userRow>>
    /\ UNCHANGED <<claim, taxed>>

-----------------------------------------------------------------------------
(* The sweep, run_autopay_sweep_once.                                      *)

\* autopay_candidates and claim_autopay_attempt, which asks again.
ClaimAttempt(s, k) ==
    /\ job[s] = Idle
    /\ claim[k] = "none"
    /\ Eligible /\ low /\ ~SlotTaken
    /\ claim' = [claim EXCEPT ![k] = "pending"]
    /\ job' = [job EXCEPT ![s] = [Idle EXCEPT !.at = "listing", !.key = {k}]]
    /\ UNCHANGED <<userRow, stripe, intent, taxed, age, hook, credits>>

\* Mutant: only rows past the replay window are reconciled.
PickClaimLate(s, k) ==
    /\ job[s] = Idle
    /\ claim[k] = "pending" /\ age[k] = "overdue"
    /\ job' = [job EXCEPT ![s] = [Idle EXCEPT !.at = "picked", !.key = {k}]]
    /\ UNCHANGED <<userRow, stripe, rows, age, hook, credits>>

\* reconcile_stale_intents reads its list, and works through it afterwards.
PickClaim(s, k) ==
    /\ job[s] = Idle
    /\ claim[k] = "pending" /\ age[k] = "stale"
    /\ job' = [job EXCEPT ![s] = [Idle EXCEPT !.at = "picked", !.key = {k}]]
    /\ UNCHANGED <<userRow, stripe, rows, age, hook, credits>>

PickIntent(s, k) ==
    /\ job[s] = Idle
    /\ intent[k] = "pending" /\ age[k] = "stale"
    /\ job' = [job EXCEPT ![s] = [Idle EXCEPT !.at = "asking", !.key = {k}]]
    /\ UNCHANGED <<userRow, stripe, rows, age, hook, credits>>

\* autopay_still_armed: a claim of a disarmed account is kept, not replayed.
CheckArmed(s, k) ==
    /\ At(s, "picked", k)
    /\ IF Eligible THEN Does(s, "listing") ELSE Ends(s)
    /\ UNCHANGED <<userRow, stripe, rows, age, hook, credits>>

\* replay_charge asks Stripe for the saved card.
ListCards(s, k) ==
    /\ At(s, "listing", k)
    /\ job' = [job EXCEPT ![s].at = IF card = NoCard THEN "dropping"
                                    ELSE "pricing",
                          ![s].card = card]
    /\ UNCHANGED <<userRow, stripe, rows, age, hook, credits>>

\* autopay_tax reads a frozen tax off the claim row in any status;
\* freeze_autopay_tax writes one on a pending row only.
Price(s, k) ==
    /\ At(s, "pricing", k)
    /\ \/ /\ claim[k] = "pending"
          /\ taxed' = [taxed EXCEPT ![k] = TRUE]
          /\ Does(s, "guarding")
       \/ /\ claim[k] = "failed" /\ taxed[k]
          /\ Does(s, "guarding")
          /\ UNCHANGED taxed
       \/ /\ claim[k] # "pending" /\ ~(claim[k] = "failed" /\ taxed[k])
          /\ Ends(s)
          /\ UNCHANGED taxed
    /\ UNCHANGED <<userRow, stripe, claim, intent, age, hook, credits>>

\* The last look at the account before money moves.
Guard(s, k) ==
    /\ At(s, "guarding", k)
    /\ IF Eligible THEN Does(s, "posting") ELSE Ends(s)
    /\ UNCHANGED <<userRow, stripe, rows, age, hook, credits>>

\* What the sweep does with Stripe's answer: it attaches a named intent and
\* settles or fails it; an unnamed refusal fails the claim; anything
\* indeterminate holds the claim.
Replied(s, answer) ==
    CASE answer = "lost" -> Ends(s)
      [] answer = "refused" -> Does(s, "dropping")
      [] OTHER -> job' = [job EXCEPT ![s].at = "attaching", ![s].answer = answer]

\* The request that creates the charge. Its answer may be lost or say nothing
\* definite ("open": 2xx still processing, or a 5xx that names the intent).
PostNew(s, k) ==
    /\ At(s, "posting", k)
    /\ charge[k] = "none"
    /\ \/ \E outcome \in {"processing", "succeeded", "declined"} :
            /\ charge' = [charge EXCEPT ![k] = outcome]
            /\ paidWith' = [paidWith EXCEPT ![k] = job[s].card]
            /\ hook' = IF outcome = "processing" THEN hook
                       ELSE [hook EXCEPT ![k] = "due"]
            /\ \E answer \in {"lost", "open"} \cup ({outcome} \ {"processing"}) :
                    Replied(s, answer)
       \/ /\ Replied(s, "lost") \/ Replied(s, "refused")
          /\ UNCHANGED <<charge, paidWith, hook>>
    /\ UNCHANGED <<card, steady, userRow, rows, age, credits>>

\* A request that repeats the key: the same PaymentIntent answers it, and
\* another card is a parameter mismatch.
PostAgain(s, k) ==
    /\ At(s, "posting", k)
    /\ charge[k] # "none"
    /\ \/ Replied(s, "lost")
       \/ job[s].card = paidWith[k] /\ Replied(s, "open")
       \/ /\ job[s].card = paidWith[k] /\ charge[k] # "processing"
          /\ Replied(s, charge[k])
       \/ job[s].card # paidWith[k] /\ Replied(s, "refused")
    /\ UNCHANGED <<userRow, stripe, rows, age, hook, credits>>

AttachAnswer(s, k) ==
    /\ At(s, "attaching", k)
    /\ Attach(k)
    /\ CASE job[s].answer = "succeeded" -> Does(s, "settling")
         [] job[s].answer = "declined" -> Does(s, "failing")
         [] OTHER -> Ends(s)
    /\ UNCHANGED <<userRow, stripe, age, hook, credits>>

\* Mutant: a charge that is still processing counts as declined.
AskImpatiently(s, k) ==
    /\ At(s, "asking", k)
    /\ Does(s, IF charge[k] = "succeeded" THEN "settling" ELSE "failing")
    /\ UNCHANGED <<userRow, stripe, rows, age, hook, credits>>

\* reconcile_real_intent asks Stripe what happened.
AskStripe(s, k) ==
    /\ At(s, "asking", k)
    /\ CASE charge[k] = "succeeded" -> Does(s, "settling")
         [] charge[k] = "processing" -> Ends(s)
         [] OTHER -> Does(s, "failing")
    /\ UNCHANGED <<userRow, stripe, rows, age, hook, credits>>

SettleAnswer(s, k) ==
    /\ At(s, "settling", k)
    /\ Settle(k) \/ (~Insertable(k) /\ UNCHANGED <<rows, userRow, credits>>)
    /\ Ends(s)
    /\ UNCHANGED <<stripe, age, hook>>

FailAnswer(s, k) ==
    /\ At(s, "failing", k)
    /\ FailIntent(k)
    /\ Ends(s)
    /\ UNCHANGED <<stripe, age, hook, credits>>

DropClaim(s, k) ==
    /\ At(s, "dropping", k)
    /\ FailClaim(k)
    /\ Ends(s)
    /\ UNCHANGED <<stripe, age, hook, credits>>

\* The process dies, a query fails or Stripe does not answer: the pass gives
\* this row up.
Abandon(s) ==
    /\ job[s] # Idle
    /\ Ends(s)
    /\ UNCHANGED <<userRow, stripe, rows, age, hook, credits>>

SweepOnce(s, k) ==
    \/ ClaimAttempt(s, k) \/ PickClaim(s, k) \/ PickIntent(s, k)
    \/ CheckArmed(s, k) \/ ListCards(s, k) \/ Price(s, k) \/ Guard(s, k)
    \/ PostNew(s, k) \/ PostAgain(s, k)
    \/ AttachAnswer(s, k) \/ AskStripe(s, k)
    \/ SettleAnswer(s, k) \/ FailAnswer(s, k) \/ DropClaim(s, k)

-----------------------------------------------------------------------------
(* The webhook, handle_autopay_intent_event.                               *)

\* payment_intent.succeeded: acknowledged once settled, 503 otherwise.
HookSettles(k) ==
    /\ hook[k] = "due" /\ charge[k] = "succeeded"
    /\ Settle(k)
    /\ hook' = [hook EXCEPT ![k] = "acked"]
    /\ UNCHANGED <<stripe, age, job>>

\* payment_intent.payment_failed: record_autopay_charge yields to any row in
\* its way, then fail_autopay_intent.
HookRecords(k) ==
    /\ hook[k] = "due" /\ charge[k] = "declined"
    /\ IF Insertable(k) /\ intent[k] = "none"
       THEN /\ intent' = [intent EXCEPT ![k] = "pending"]
            /\ age' = [age EXCEPT ![k] = "fresh"]
       ELSE UNCHANGED <<intent, age>>
    /\ hook' = [hook EXCEPT ![k] = "recorded"]
    /\ UNCHANGED <<userRow, stripe, claim, taxed, credits, job>>

HookFails(k) ==
    /\ hook[k] = "recorded"
    /\ FailIntent(k)
    /\ hook' = [hook EXCEPT ![k] = "acked"]
    /\ UNCHANGED <<stripe, age, credits, job>>

\* Answered 503, or delivered again although it was acknowledged.
HookAgain(k) ==
    /\ hook[k] \in {"recorded", "acked"}
    /\ hook' = [hook EXCEPT ![k] = "due"]
    /\ UNCHANGED <<userRow, stripe, rows, age, credits, job>>

-----------------------------------------------------------------------------
(* Stripe, the customer, the operator and time.                            *)

ChargeEnds(k) ==
    /\ charge[k] = "processing"
    /\ \E outcome \in {"succeeded", "declined"} :
            charge' = [charge EXCEPT ![k] = outcome]
    /\ hook' = [hook EXCEPT ![k] = "due"]
    /\ UNCHANGED <<card, paidWith, steady, userRow, rows, age, credits, job>>

SaveCard ==
    /\ steady => ~SlotTaken
    /\ card' \in (Cards \cup {NoCard}) \ {card}
    /\ UNCHANGED <<charge, paidWith, steady, userRow, rows, age, hook, credits, job>>

\* put_autopay: arming needs a saved card and forgives the strikes.
PutAutopay ==
    /\ \/ card # NoCard /\ armed' = TRUE /\ strikes' = 0
       \/ armed' = FALSE /\ UNCHANGED strikes
    /\ UNCHANGED <<barred, low, stripe, rows, age, hook, credits, job>>

\* A dispute freezes or a reversal indebts the account; an operator undoes it.
Bar ==
    /\ barred' = ~barred
    /\ UNCHANGED <<armed, strikes, low, stripe, rows, age, hook, credits, job>>

RunsLow ==
    /\ ~low /\ low' = TRUE
    /\ UNCHANGED <<armed, barred, strikes, stripe, rows, age, hook, credits, job>>

\* AUTOPAY_RECONCILE_AFTER_MINUTES and AUTOPAY_REPLAY_MAX_AGE_MINUTES pass.
GrowsOld(k) ==
    /\ claim[k] = "pending" \/ intent[k] = "pending"
    /\ \/ age[k] = "fresh" /\ age' = [age EXCEPT ![k] = "stale"]
       \/ age[k] = "stale" /\ age' = [age EXCEPT ![k] = "overdue"]
    /\ UNCHANGED <<userRow, stripe, rows, hook, credits, job>>

AutopayNext ==
    \/ \E s \in Sweeps : Abandon(s) \/ \E k \in Keys : SweepOnce(s, k)
    \/ \E k \in Keys :
        \/ HookSettles(k) \/ HookRecords(k) \/ HookFails(k) \/ HookAgain(k)
        \/ ChargeEnds(k) \/ GrowsOld(k)
    \/ SaveCard \/ PutAutopay \/ Bar \/ RunsLow

AutopaySpec == AutopayInit /\ [][AutopayNext]_autopayVars

\* An answer of Stripe's that is not lost.
Answers(s, k) == (PostNew(s, k) \/ PostAgain(s, k)) /\ job'[s] # Idle

-----------------------------------------------------------------------------
(* Properties.                                                             *)

Charged(k) == charge[k] = "succeeded"

Resolved(k) == intent[k] \in {"succeeded", "withheld"}

\* An account's charge is open from Stripe's first "processing" until its money
\* is credited or withheld, or the card refused.
OneOpenCharge ==
    \A j, k \in Keys :
        (/\ charge[j] \in {"processing", "succeeded"} /\ ~Resolved(j)
         /\ charge[k] \in {"processing", "succeeded"} /\ ~Resolved(k))
            => j = k

\* Sweep and webhook both settle most charges: each is credited at most once,
\* only when Stripe collected it, and exactly when its row says so.
CreditedOnce ==
    \A k \in Keys :
        /\ credits[k] = IF intent[k] = "succeeded" THEN 1 ELSE 0
        /\ Resolved(k) => Charged(k)

\* Money Stripe collected is credited, withheld for a refund, on a row that is
\* still reconciled, or announced by a webhook that is not yet acknowledged.
CollectedIsKept ==
    \A k \in Keys :
        Charged(k) =>
            \/ Resolved(k)
            \/ claim[k] = "pending" \/ intent[k] = "pending"
            \/ hook[k] = "due"

\* However many messages are lost, money that was collected is resolved and the
\* account's only slot let go, unless the account was disarmed or the row outlived
\* the window in which a replay is safe (reconcile_stale_intents, the webhooks).
ClaimsEnd ==
    \A k \in Keys :
        /\ Charged(k) ~> (Resolved(k) \/ ~Eligible \/ age[k] = "overdue")
        /\ (claim[k] = "pending" \/ intent[k] = "pending")
             ~> (\/ claim[k] # "pending" /\ intent[k] # "pending"
                 \/ ~Eligible \/ age[k] = "overdue")

=============================================================================
