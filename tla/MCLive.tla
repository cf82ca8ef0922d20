------------------------------- MODULE MCLive -------------------------------
(* What must eventually happen to money Stripe reports on: autopay's        *)
(* charges and the reversals of a purchase, one of the two per behaviour.   *)
(* Autopay is extended, Reversals an instance over the slots; the one a     *)
(* behaviour does not run stays where it started.                           *)
EXTENDS Autopay, TLC

VARIABLES component, v1, v2, v3, v4, v5, v6, v7

slots == <<v1, v2, v3, v4, v5, v6, v7>>
all == <<component, autopayVars, slots>>

\* One purchase, refunded in two steps and disputed in full.
R == INSTANCE Reversals WITH
    Users <- {"u"}, Intents <- {"pi1"}, Payer <- [pi1 |-> "u"],
    Credit <- [pi1 |-> 2], Objects <- {"dp1", "ch1"},
    Reverses <- [dp1 |-> "pi1", ch1 |-> "pi1"], Disputes <- {"dp1"},
    Events <- {"refundedHalf", "refundedAll", "disputed"},
    About <- [refundedHalf |-> "ch1", refundedAll |-> "ch1", disputed |-> "dp1"],
    Cents <- [refundedHalf |-> 1, refundedAll |-> 2, disputed |-> 2],
    credited <- v1, refunded <- v2, balance <- v3, frozen <- v4, thawed <- v5,
    tombstone <- v6, at <- v7

-----------------------------------------------------------------------------

LiveInit ==
    /\ AutopayInit
    /\ \/ /\ component = "autopay"
          /\ v1 = 0 /\ v2 = 0 /\ v3 = 0 /\ v4 = 0 /\ v5 = 0 /\ v6 = 0 /\ v7 = 0
       \/ component = "reversals" /\ R!Init

\* What a step of each leaves alone.
Pays == component = "autopay" /\ UNCHANGED <<component, slots>>
Reverts == component = "reversals" /\ UNCHANGED <<component, autopayVars>>

LiveNext == (Pays /\ AutopayNext) \/ (Reverts /\ R!Next)

\* The sweep runs every minute and Stripe retries an event until it is
\* acknowledged; a step that is tried again and again does not always fail, and not
\* every answer of Stripe's is lost. One behaviour has one component: fairness of a
\* step of each is fairness of the step of whichever runs.
AllService(s, k) ==
    /\ WF_all(Pays /\ Abandon(s))
    /\ WF_all(Pays /\ ChargeEnds(k))
    /\ WF_all(Pays /\ age[k] = "fresh" /\ GrowsOld(k))
    /\ SF_all((Pays /\ PickClaim(s, k)) \/ (Reverts /\ R!Resolve("refundedHalf")))
    /\ SF_all((Pays /\ PickIntent(s, k)) \/ (Reverts /\ R!Freeze("refundedHalf")))
    /\ SF_all((Pays /\ CheckArmed(s, k)) \/ (Reverts /\ R!Reverse("refundedHalf")))
    /\ SF_all((Pays /\ ListCards(s, k)) \/ (Reverts /\ R!Stamp("refundedHalf")))
    /\ SF_all((Pays /\ Price(s, k)) \/ (Reverts /\ R!Resolve("refundedAll")))
    /\ SF_all((Pays /\ Guard(s, k)) \/ (Reverts /\ R!Freeze("refundedAll")))
    /\ SF_all((Pays /\ Answers(s, k)) \/ (Reverts /\ R!Reverse("refundedAll")))
    /\ SF_all((Pays /\ AttachAnswer(s, k)) \/ (Reverts /\ R!Stamp("refundedAll")))
    /\ SF_all((Pays /\ AskStripe(s, k)) \/ (Reverts /\ R!Resolve("disputed")))
    /\ SF_all((Pays /\ SettleAnswer(s, k)) \/ (Reverts /\ R!Freeze("disputed")))
    /\ SF_all((Pays /\ FailAnswer(s, k)) \/ (Reverts /\ R!Reverse("disputed")))
    /\ SF_all((Pays /\ DropClaim(s, k)) \/ (Reverts /\ R!Stamp("disputed")))
    /\ SF_all(Pays /\ HookSettles(k))

LiveSpec ==
    /\ LiveInit /\ [][LiveNext]_all
    /\ \A s \in Sweeps, k \in Keys : AllService(s, k)

\* The events that take the whole credit back; the other never covers it.
ReversalHappens ==
    \A e \in {"refundedAll", "disputed"} :
        (component = "reversals" /\ R!Reversible(e))
            ~> (component = "reversals" /\ R!Reversed("pi1"))
==============================================================================
