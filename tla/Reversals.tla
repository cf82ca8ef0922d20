------------------------------ MODULE Reversals ------------------------------
(***************************************************************************)
(* Prepaid credit bought through Stripe, and the refunds and chargebacks   *)
(* that take it back (router/src/stripe.rs, router/src/billing.rs).        *)
(*                                                                         *)
(* Stripe delivers its events at least once and in any order, so a reversal*)
(* may arrive before the credit it reverses: it then leaves a tombstone,   *)
(* which the credit consumes when it lands. The two sides meet in the      *)
(* PaymentIntent's advisory lock. Each transaction is one action; between  *)
(* two of them a handler may fail, answer 503, and be called again.        *)
(***************************************************************************)
EXTENDS Integers, FiniteSets

CONSTANTS
    Users,
    Intents,        \* PaymentIntents
    Payer,          \* Payer[i]: the user the checkout intent records
    Credit,         \* Credit[i]: the credit it buys, in cents
    Objects,        \* Stripe disputes and charges a reversal is anchored to
    Reverses,       \* Reverses[o]: the intent it names
    Disputes,       \* the objects that are disputes; the others are charges
    Events,         \* Stripe's reversal events
    About,          \* About[e]: its object
    Cents           \* Cents[e]: the amount it reports; 0 when none is usable

ASSUME UsersAssumption ==
    Payer \in [Intents -> Users] /\ Credit \in [Intents -> Nat \ {0}]
ASSUME EventsAssumption ==
    /\ Reverses \in [Objects -> Intents] /\ Disputes \subseteq Objects
    /\ About \in [Events -> Objects] /\ Cents \in [Events -> Nat]

VARIABLES
    credited,       \* intents with a purchase entry in the ledger
    refunded,       \* objects anchoring a refund entry in the ledger
    balance,        \* users.credit_balance_usd, in cents
    frozen,         \* users with frozen_at set
    thawed,         \* users an operator has unfrozen
    tombstone,      \* stripe_observed_reversals, by object
    at              \* where the handling of each event is

vars == <<credited, refunded, balance, frozen, thawed, tombstone, at>>

Intent(e) == Reverses[About[e]]

Tombstone == [seen : BOOLEAN, cents : Nat, applied : BOOLEAN]

NoTombstone == [seen |-> FALSE, cents |-> 0, applied |-> FALSE]

TypeOK ==
    /\ credited \subseteq Intents
    /\ refunded \subseteq Objects
    /\ balance \in [Users -> Int]
    /\ frozen \subseteq Users /\ thawed \subseteq Users
    /\ tombstone \in [Objects -> Tombstone]
    /\ at \in [Events -> {"sent", "freezing", "reversing", "stamping",
                          "acked"}]

Init ==
    /\ credited = {} /\ refunded = {}
    /\ balance = [u \in Users |-> 0]
    /\ frozen = {} /\ thawed = {}
    /\ tombstone = [o \in Objects |-> NoTombstone]
    /\ at = [e \in Events |-> "sent"]

Goto(e, step) == at' = [at EXCEPT ![e] = step]

Reversed(i) == \E o \in refunded : Reverses[o] = i

Covers(e) == Cents[e] >= Credit[Intent(e)]

-----------------------------------------------------------------------------
(* The credit.                                                             *)

Unapplied(i) ==
    {o \in Objects : Reverses[o] = i /\ tombstone[o].seen
                     /\ ~tombstone[o].applied}

Covering(i) == {o \in Unapplied(i) : tombstone[o].cents >= Credit[i]}

\* What the credit's transaction discharges: covering reversals, and disputes.
Answered(i) == Covering(i) \cup (Unapplied(i) \cap Disputes)

\* credit_purchase, under the user's and then the intent's lock: the credit
\* and, by apply_observed_reversals, whatever was observed ahead of it. A
\* dispute freezes even when it does not cover; a covering reversal takes the
\* credit back, once; a refund that does not cover stays unapplied.
CreditLands(i) ==
    /\ i \notin credited
    /\ credited' = credited \cup {i}
    /\ frozen' = IF Unapplied(i) \cap Disputes # {}
                 THEN frozen \cup {Payer[i]} ELSE frozen
    /\ \/ /\ Covering(i) = {}
          /\ balance' = [balance EXCEPT ![Payer[i]] = @ + Credit[i]]
          /\ UNCHANGED refunded
       \/ \E first \in Covering(i) :
          /\ refunded' = refunded \cup {first}
          /\ UNCHANGED balance
    /\ tombstone' = [o \in Objects |->
            [tombstone[o] EXCEPT !.applied = @ \/ o \in Answered(i)]]
    /\ UNCHANGED <<thawed, at>>

-----------------------------------------------------------------------------
(* The reversal, handle_reversal_event.                                    *)

Larger(a, b) == IF a >= b THEN a ELSE b

\* Mutant: the first amount seen for a charge stands.
KeepsFirst(t, cents) == IF t.seen THEN t ELSE [NoTombstone EXCEPT !.seen = TRUE, !.cents = cents]

\* An amount merges into an unapplied tombstone as the larger of the two, and
\* never into an applied one.
Merged(t, cents) ==
    CASE ~t.seen -> [NoTombstone EXCEPT !.seen = TRUE, !.cents = cents]
      [] t.seen /\ ~t.applied -> [t EXCEPT !.cents = Larger(t.cents, cents)]
      [] OTHER -> t

\* insert_observed_reversal.
Observed(o, cents) ==
    [tombstone EXCEPT ![o] = Merged(tombstone[o], cents)]

\* Mutant: a reversal of an unknown charge is acknowledged and forgotten.
ResolveForgets(e) ==
    /\ at[e] = "sent"
    /\ Goto(e, IF Intent(e) \notin credited THEN "acked"
               ELSE IF About[e] \in Disputes THEN "freezing"
               ELSE IF Covers(e) THEN "reversing" ELSE "acked")
    /\ UNCHANGED <<credited, refunded, balance, frozen, thawed, tombstone>>

\* resolve_reversal_against_credit, under the intent's lock: the credit is
\* found, or the tombstone is written.
Resolve(e) ==
    /\ at[e] = "sent"
    /\ \/ /\ Intent(e) \in credited
          /\ Goto(e, IF About[e] \in Disputes THEN "freezing"
                     ELSE IF Covers(e) THEN "reversing" ELSE "acked")
          /\ UNCHANGED tombstone
       \/ /\ Intent(e) \notin credited
          /\ tombstone' = Observed(About[e], Cents[e])
          /\ Goto(e, "acked")
    /\ UNCHANGED <<credited, refunded, balance, frozen, thawed>>

\* freeze_account; a reversal that does not cover the credit ends here.
Freeze(e) ==
    /\ at[e] = "freezing"
    /\ frozen' = frozen \cup {Payer[Intent(e)]}
    /\ Goto(e, IF Covers(e) THEN "reversing" ELSE "acked")
    /\ UNCHANGED <<credited, refunded, balance, thawed, tombstone>>

\* Mutant: only a redelivery of the same object counts as already reversed.
ReverseByObject(e) ==
    /\ at[e] = "reversing"
    /\ \/ About[e] \in refunded /\ UNCHANGED <<refunded, balance>>
       \/ /\ About[e] \notin refunded
          /\ refunded' = refunded \cup {About[e]}
          /\ balance' = [balance EXCEPT ![Payer[Intent(e)]] =
                            @ - Credit[Intent(e)]]
    /\ Goto(e, "stamping")
    /\ UNCHANGED <<credited, frozen, thawed, tombstone>>

\* reverse_purchase, under the user's lock: one refund entry per object and
\* per intent, whatever the balance.
Reverse(e) ==
    /\ at[e] = "reversing"
    /\ \/ Reversed(Intent(e)) /\ UNCHANGED <<refunded, balance>>
       \/ /\ ~Reversed(Intent(e))
          /\ refunded' = refunded \cup {About[e]}
          /\ balance' = [balance EXCEPT ![Payer[Intent(e)]] =
                            @ - Credit[Intent(e)]]
    /\ Goto(e, "stamping")
    /\ UNCHANGED <<credited, frozen, thawed, tombstone>>

\* mark_intent_reversals_applied, once the reversal has landed.
Stamp(e) ==
    /\ at[e] = "stamping"
    /\ tombstone' = [o \in Objects |->
            [tombstone[o] EXCEPT !.applied = @ \/ o \in Unapplied(Intent(e))]]
    /\ Goto(e, "acked")
    /\ UNCHANGED <<credited, refunded, balance, frozen, thawed>>

\* A statement fails and the handler answers 503, or commits with its reply
\* lost, or Stripe delivers an acknowledged event again: it starts over.
Again(e) ==
    /\ at[e] # "sent"
    /\ Goto(e, "sent")
    /\ UNCHANGED <<credited, refunded, balance, frozen, thawed, tombstone>>

-----------------------------------------------------------------------------

\* A settled request debits what the overdraft trigger lets it debit.
Spend(u) ==
    /\ balance[u] > 0
    /\ balance' = [balance EXCEPT ![u] = @ - 1]
    /\ UNCHANGED <<credited, refunded, frozen, thawed, tombstone, at>>

\* `admin set-frozen --off`.
Unfreeze(u) ==
    /\ u \in frozen
    /\ frozen' = frozen \ {u}
    /\ thawed' = thawed \cup {u}
    /\ UNCHANGED <<credited, refunded, balance, tombstone, at>>

\* write_off_receivable: what is owed when the lock is held is forgiven.
WriteOff(u) ==
    /\ balance[u] < 0
    /\ balance' = [balance EXCEPT ![u] = 0]
    /\ UNCHANGED <<credited, refunded, frozen, thawed, tombstone, at>>

Handle(e) == Resolve(e) \/ Freeze(e) \/ Reverse(e) \/ Stamp(e)

Next ==
    \/ \E i \in Intents : CreditLands(i)
    \/ \E e \in Events : Handle(e) \/ Again(e)
    \/ \E u \in Users : Spend(u) \/ Unfreeze(u) \/ WriteOff(u)

Spec == Init /\ [][Next]_vars

-----------------------------------------------------------------------------
(* Properties.                                                             *)

\* A charge both disputed and refunded, and every redelivery of either event,
\* takes its credit back once, and nothing is taken back that was not credited.
ReversedOnce ==
    /\ \A o, p \in refunded : Reverses[o] = Reverses[p] => o = p
    /\ \A o \in refunded : Reverses[o] \in credited

\* Once a covering reversal was acknowledged to Stripe, which will not send it
\* again, the credit is never left standing, whichever of the two came first.
AcknowledgedReversalHolds ==
    \A e \in Events :
        (at[e] = "acked" /\ Covers(e) /\ Intent(e) \in credited)
            => Reversed(Intent(e))

\* A dispute that was acknowledged has stopped its payer's spending, covering
\* or not, early or late, until an operator says otherwise.
DisputeFreezes ==
    \A e \in Events :
        (/\ at[e] = "acked" /\ About[e] \in Disputes
         /\ Intent(e) \in credited)
            => Payer[Intent(e)] \in frozen \cup thawed

\* A tombstone leaves the operator's list of unapplied ones only when what it
\* asks for has happened.
AppliedMeansDischarged ==
    \A o \in Objects :
        tombstone[o].applied =>
            /\ Reverses[o] \in credited
            /\ o \in Disputes => Payer[Reverses[o]] \in frozen \cup thawed
            /\ o \notin Disputes => Reversed(Reverses[o])

\* A dispute never waits on the operator's list once its credit is there.
NoDisputeLeftWaiting ==
    \A o \in Disputes :
        (tombstone[o].seen /\ Reverses[o] \in credited) => tombstone[o].applied

\* The list of unapplied tombstones an operator works from holds all that is
\* still to be done, and nothing else that is a dispute.
TombstonesHonest == AppliedMeansDischarged /\ NoDisputeLeftWaiting

\* Credit taken back before it could be spent is never spendable: a purchase
\* that lands on an acknowledged covering reversal does not raise the balance.
NeverSpendable ==
    [][\A e \in Events :
        (/\ at[e] = "acked" /\ Covers(e)
         /\ Intent(e) \in credited' \ credited)
            => balance'[Payer[Intent(e)]] <= balance[Payer[Intent(e)]]]_vars

\* Every reversal Stripe reports in full is eventually carried out.
Reversible(e) == Covers(e) /\ Intent(e) \in credited

ReversalHappens == \A e \in Events : Reversible(e) ~> Reversed(Intent(e))

=============================================================================
