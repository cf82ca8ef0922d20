------------------------------ MODULE Checkout ------------------------------
(***************************************************************************)
(* Buying credit (create_checkout, checkout_status, stripe_webhook and the *)
(* cleanup of abandoned purchases in router/src/stripe.rs, their records   *)
(* in router/src/billing.rs).  A buyer continues to Stripe's form, the     *)
(* router records what the session is worth before it hands the form over, *)
(* and only a signed event that agrees with itself and with that record    *)
(* credits anything.  Records nobody paid for are deleted after a month.   *)
(*                                                                         *)
(* Money is in cents.  What follows a credit, a refund or a dispute of the *)
(* purchase included, is Reversals'; signatures are taken as verified.     *)
(***************************************************************************)
EXTENDS Integers, FiniteSets

CONSTANTS
    Buyers,
    Credits,       \* what a buyer may pick, in cents
    Taxes,         \* what Stripe Tax may add, in cents
    Instances,     \* router processes, each with a cache of its own
    Handlers,      \* deliveries of events handled at once
    Elsewhere,     \* a session some other integration of the account made
    NotYet,
    SessionLife,   \* Stripe: how long a session can be paid
    AsyncLife,     \* Stripe: how much later a delayed method still pays
    RetryWindow,   \* Stripe: how long it redelivers an event
    ReuseLife,     \* SESSION_REUSE_TTL
    Retention,     \* CHECKOUT_INTENT_RETENTION_DAYS
    Batch,         \* CHECKOUT_INTENT_CLEANUP_BATCH
    MaxSessions,   \* bound: sessions this router makes
    LastTick       \* bound: the clock stops here

\* Migration 0022's floor is derived from the same windows.
ASSUME CheckoutAssumption ==
    /\ Credits \subseteq Nat \ {0} /\ Taxes \subseteq Nat
    /\ {SessionLife, AsyncLife, RetryWindow, ReuseLife, Retention, Batch, MaxSessions}
         \subseteq Nat
    /\ ReuseLife <= SessionLife
    /\ SessionLife + AsyncLife + RetryWindow < Retention
    /\ NotYet \notin Int /\ Elsewhere \notin Nat

Rails == {"card", "crypto"}

VARIABLES
    now,        \* the clock
    sessions,   \* Checkout Sessions at Stripe
    records,    \* stripe_checkout_intents, by session
    reuse,      \* reuse_cache, per instance
    forms,      \* the forms handed to buyers, and what each had asked for
    handlers,   \* the deliveries being handled
    refused,    \* sessions an event of which was answered with a 4xx
    purchases      \* purchases of credit_ledger, by session

checkoutVars == <<now, sessions, records, reuse, forms, handlers, refused, purchases>>

-----------------------------------------------------------------------------
(* The price of a deposit.                                                 *)

Rate(rail) == IF rail = "card" THEN 55 ELSE 50
Floor(rail) == IF rail = "card" THEN 80 ELSE 0

\* deposit_fee_quote: a share of the credit, up to the next cent, or the floor.
Fee(credit, rail) ==
    LET share == (credit * Rate(rail) + 999) \div 1000
    IN  IF share < Floor(rail) THEN Floor(rail) ELSE share
Gross(credit, rail) == credit + Fee(credit, rail)

\* CRYPTO_MAX_EX_TAX_GROSS_USD
Ceiling == 890000
Offered(credit, rail) == rail = "crypto" => Gross(credit, rail) <= Ceiling

-----------------------------------------------------------------------------
(* At Stripe.                                                              *)

Ours == DOMAIN sessions \ {Elsewhere}

Payable(s) == sessions[s].state = "open" /\ now < sessions[s].made + SessionLife

\* What the metadata of a session says: a card session names no rail.
Claim(user, credit, rail) == [user |-> user, credit |-> credit, rail |-> rail]

\* A paid session of another integration, with metadata like this router's and
\* the price to go with it.
Foreign(user, credit) ==
    [made |-> 0, state |-> "paid", at |-> 0, claim |-> Claim(user, credit, "card"),
     price |-> Gross(credit, "card"), tax |-> 0, acknowledged |-> FALSE,
     step |-> "handed", on |-> Elsewhere]

CheckoutInit ==
    /\ now = 0
    /\ \E user \in Buyers : sessions = [s \in {Elsewhere} |->
           Foreign(user, CHOOSE credit \in Credits : TRUE)]
    /\ records = << >> /\ purchases = << >>
    /\ reuse = [i \in Instances |-> << >>]
    /\ forms = {}
    /\ handlers = [h \in Handlers |-> [at |-> "idle"]]
    /\ refused = {}

\* A request or a delivery is over within a tick (STRIPE_HTTP_TIMEOUT).
Tick ==
    /\ now < LastTick /\ now' = now + 1
    /\ \A s \in DOMAIN sessions : sessions[s].step \notin {"minted", "recorded"}
    /\ \A h \in Handlers : handlers[h].at = "idle"
    /\ UNCHANGED <<sessions, records, reuse, forms, handlers, refused, purchases>>

\* The buyer pays at once, or with a method that collects later or not at all.
Paid(s, tax) == [sessions EXCEPT ![s].state = "paid", ![s].at = now, ![s].tax = tax]

Pay(s) ==
    /\ \E form \in forms : form.session = s
    /\ Payable(s)
    /\ \/ \E tax \in Taxes : sessions' = Paid(s, tax)
       \/ sessions' = [sessions EXCEPT ![s].state = "collecting"]
    /\ UNCHANGED <<now, records, reuse, forms, handlers, refused, purchases>>

Collect(s) ==
    /\ sessions[s].state = "collecting"
    /\ now < sessions[s].made + SessionLife + AsyncLife
    /\ \E tax \in Taxes : sessions' = Paid(s, tax)
    /\ UNCHANGED <<now, records, reuse, forms, handlers, refused, purchases>>

-----------------------------------------------------------------------------
(* Checkout.                                                               *)

\* Mutant: whatever the rail.
PricedAlone(user, rail, credit) == [user |-> user, price |-> Gross(credit, rail)]

\* ReuseKey
KeyOf(user, rail, credit) ==
    [user |-> user, rail |-> rail, price |-> Gross(credit, rail)]

Form(s, user, rail, credit) ==
    [session |-> s, user |-> user, rail |-> rail, credit |-> credit]

\* An unpaid session of this buyer at this price is handed out again.
Reuse(i, user, rail, credit) ==
    LET key == KeyOf(user, rail, credit) IN
    /\ key \in DOMAIN reuse[i]
    /\ now - reuse[i][key].at < ReuseLife
    /\ forms' = forms \cup {Form(reuse[i][key].session, user, rail, credit)}
    /\ UNCHANGED <<now, sessions, records, reuse, handlers, refused, purchases>>

\* create_checkout_session: Stripe mints one.
Create(i, user, rail, credit) ==
    LET key == KeyOf(user, rail, credit)
        s == Cardinality(Ours) + 1
    IN  /\ s <= MaxSessions
        /\ Offered(credit, rail)
        /\ key \in DOMAIN reuse[i] => now - reuse[i][key].at >= ReuseLife
        /\ sessions' = [x \in DOMAIN sessions \cup {s} |->
             IF x = s
             THEN [made |-> now, state |-> "open", at |-> NotYet,
                   claim |-> Claim(user, credit, rail), price |-> Gross(credit, rail),
                   tax |-> 0, acknowledged |-> FALSE, step |-> "minted", on |-> i]
             ELSE sessions[x]]
        /\ UNCHANGED <<now, records, reuse, forms, handlers, refused, purchases>>

\* record_checkout_intent, which must succeed before the form is handed over.
Record(s) ==
    /\ sessions[s].step = "minted"
    /\ \/ /\ sessions' = [sessions EXCEPT ![s].step = "recorded"]
          /\ records' = [x \in DOMAIN records \cup {s} |->
               IF x = s THEN [user |-> sessions[s].claim.user,
                              credit |-> sessions[s].claim.credit,
                              price |-> sessions[s].price, made |-> now, settled |-> FALSE]
               ELSE records[x]]
       \/ sessions' = [sessions EXCEPT ![s].step = "withheld"] /\ UNCHANGED records
    /\ UNCHANGED <<now, reuse, forms, handlers, refused, purchases>>

\* The rest of create_checkout: the session may be handed out again from here on.
HandOver(s) ==
    LET claim == sessions[s].claim
        i == sessions[s].on
        key == KeyOf(claim.user, claim.rail, claim.credit)
    IN  /\ sessions[s].step = "recorded"
        /\ sessions' = [sessions EXCEPT ![s].step = "handed"]
        /\ reuse' = [reuse EXCEPT ![i] = [k \in DOMAIN @ \cup {key} |->
                         IF k = key THEN [session |-> s, at |-> now] ELSE @[k]]]
        /\ forms' = forms \cup {Form(s, claim.user, claim.rail, claim.credit)}
        /\ UNCHANGED <<now, records, handlers, refused, purchases>>

\* checkout_status, for the buyer alone and while the record is there: a session
\* that is no longer open is forgotten, by the instance that asked.
ReadStatus(i, s) ==
    /\ s \in DOMAIN records
    /\ ~Payable(s)
    /\ reuse' = [reuse EXCEPT ![i] = [k \in {k \in DOMAIN @ : @[k].session # s} |-> @[k]]]
    /\ UNCHANGED <<now, sessions, records, forms, handlers, refused, purchases>>

-----------------------------------------------------------------------------
(* The webhook.                                                            *)

\* Mutant: what was collected, the tax in it.
CollectedWithTax(session) == session.price + session.tax

\* collected_ex_tax_cents
Collected(session) == (session.price + session.tax) - session.tax

\* Layer 1: the event agrees with itself.
Corroborates(session) == Gross(session.claim.credit, session.claim.rail) = Collected(session)

\* Layer 2: this router priced the session, for that user and at that price.
Agrees(s) ==
    /\ s \in DOMAIN records
    /\ records[s].user = sessions[s].claim.user
    /\ records[s].price = Collected(sessions[s])

Handling(h, to) == handlers' = [handlers EXCEPT ![h] = to]

\* Stripe delivers the paid event, and again until it is acknowledged.  An event
\* of a session not yet paid is acknowledged and changes nothing.
Deliver(h, s) ==
    /\ handlers[h].at = "idle"
    /\ sessions[s].state = "paid" /\ ~sessions[s].acknowledged
    /\ now <= sessions[s].at + RetryWindow
    /\ IF Corroborates(sessions[s]) /\ Agrees(s)
       THEN /\ Handling(h, [at |-> "crediting", session |-> s,
                           user |-> records[s].user, credit |-> records[s].credit])
            /\ UNCHANGED refused
       ELSE refused' = refused \cup {s} /\ UNCHANGED handlers
    /\ UNCHANGED <<now, sessions, records, reuse, forms, purchases>>

\* credit_purchase, once per session.
CreditPurchase(h) ==
    /\ handlers[h].at = "crediting"
    /\ Handling(h, [at |-> "stamping", session |-> handlers[h].session])
    /\ purchases' = [x \in DOMAIN purchases \cup {handlers[h].session} |->
         IF x \in DOMAIN purchases THEN purchases[x]
         ELSE [user |-> handlers[h].user, credit |-> handlers[h].credit]]
    /\ UNCHANGED <<now, sessions, records, reuse, forms, refused>>

\* settle_checkout_intent, whose failure is only logged; the event is answered.
StampRecord(h) ==
    LET s == handlers[h].session IN
    /\ handlers[h].at = "stamping"
    /\ Handling(h, [at |-> "idle"])
    /\ \/ s \in DOMAIN records /\ records' = [records EXCEPT ![s].settled = TRUE]
       \/ UNCHANGED records
    /\ sessions' = [sessions EXCEPT ![s].acknowledged = TRUE]
    /\ UNCHANGED <<now, reuse, forms, refused, purchases>>

\* A delivery fails, or its process dies: Stripe repeats it.
Crash(h) ==
    /\ handlers[h].at # "idle"
    /\ Handling(h, [at |-> "idle"])
    /\ UNCHANGED <<now, sessions, records, reuse, forms, refused, purchases>>

-----------------------------------------------------------------------------
(* The cleanup.                                                            *)

\* What the sweep may delete, and the trigger of migration 0022 lets it.
Abandoned(s) ==
    /\ ~records[s].settled
    /\ records[s].made + Retention < now
    /\ s \notin DOMAIN purchases

\* sweep_expired_checkout_intents: the oldest of them, a batch at a time.
Sweep ==
    LET old == {s \in DOMAIN records : Abandoned(s)} IN
    \E gone \in SUBSET old :
        /\ gone # {}
        /\ Cardinality(gone) = IF Cardinality(old) < Batch THEN Cardinality(old) ELSE Batch
        /\ \A s \in gone, t \in old \ gone : records[s].made <= records[t].made
        /\ records' = [s \in DOMAIN records \ gone |-> records[s]]
        /\ UNCHANGED <<now, sessions, reuse, forms, handlers, refused, purchases>>

CheckoutNext ==
    \/ Tick
    \/ \E s \in DOMAIN sessions : Pay(s) \/ Collect(s) \/ Record(s) \/ HandOver(s)
    \/ \E i \in Instances :
         \/ \E user \in Buyers, rail \in Rails, credit \in Credits :
              Reuse(i, user, rail, credit) \/ Create(i, user, rail, credit)
         \/ \E s \in DOMAIN sessions : ReadStatus(i, s)
    \/ \E h \in Handlers :
         \/ \E s \in DOMAIN sessions : Deliver(h, s)
         \/ CreditPurchase(h) \/ StampRecord(h) \/ Crash(h)
    \/ Sweep

CheckoutSpec == CheckoutInit /\ [][CheckoutNext]_checkoutVars

-----------------------------------------------------------------------------
(* Properties.                                                             *)

\* A purchase is credited to the buyer who was handed its form, with the credit
\* that buyer had asked for, for exactly its price before tax; and the record of
\* what it was priced at outlives it.  However forms are handed out again,
\* events repeated or markers lost (create_checkout, stripe_webhook,
\* sweep_expired_checkout_intents).
CreditedAsSold ==
    \A s \in DOMAIN purchases :
        /\ s \in Ours /\ sessions[s].state = "paid"
        /\ s \in DOMAIN records
        /\ \A form \in {f \in forms : f.session = s} :
             /\ purchases[s] = [user |-> form.user, credit |-> form.credit]
             /\ sessions[s].price = Gross(form.credit, form.rail)

\* No event of a purchase this router sold is ever refused while Stripe may still
\* deliver it: the record is neither missing nor at odds with what was collected
\* (CHECKOUT_INTENT_RETENTION_DAYS).
SoldIsHonoured == refused \cap Ours = {}
=============================================================================
