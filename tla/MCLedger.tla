------------------------------ MODULE MCLedger ------------------------------
(* The components that move credit, one of them per behaviour: they share   *)
(* no state here, and what a behaviour does not run stays where it started.  *)
EXTENDS Reversals, Checkout, Autopay, RedemptionTax, Estimator, TLC

CONSTANTS
    p1, p2,     \* what comes in pairs: attempts, sweeps, task signatures
    visa, amex,
    s1,         \* the sweep of the one instance
    u1,         \* the one user
    None        \* no card, no figure

VARIABLE component

-----------------------------------------------------------------------------

\* Every order of two credits and four reversal events of one payer: the first
\* purchase disputed and refunded in two steps, the second disputed in part.
TwoPurchases == [i \in {"pi1", "pi2"} |-> 2]
OnePayer == [i \in {"pi1", "pi2"} |-> "u"]
TheirReversals == [dp1 |-> "pi1", ch1 |-> "pi1", dp2 |-> "pi2"]
TheirObjects == [refundedHalf |-> "ch1", refundedAll |-> "ch1",
                 disputed |-> "dp1", disputedHalf |-> "dp2"]
TheirCents == [refundedHalf |-> 1, refundedAll |-> 2, disputed |-> 2,
               disputedHalf |-> 1]

\* Two signatures of one user; a cache that cannot hold both of their cells.
TheirCells == {p1, p2} \X {"segment"}
TheirOwner == [s \in {p1, p2} |-> u1]
OneMeasure == {[p50 |-> 2, p99 |-> 4, warm |-> TRUE]}

-----------------------------------------------------------------------------

\* In autopay the customer leaves the cards alone or replaces and removes them; in
\* tax a part of the opening balance is exempt or none is.
LedgerInit ==
    /\ component \in {"reversals", "checkout", "autopay", "tax", "estimator"}
    /\ Init /\ CheckoutInit /\ AutopayInit /\ TaxInit /\ EstimatorInit
    /\ steady \/ component = "autopay"
    /\ users[u1].older \/ component = "tax"

LedgerNext ==
    /\ UNCHANGED component
    /\ \/ /\ component = "reversals" /\ Next
          /\ UNCHANGED <<checkoutVars, autopayVars, taxVars, estimatorVars>>
       \/ /\ component = "checkout" /\ CheckoutNext
          /\ UNCHANGED <<vars, autopayVars, taxVars, estimatorVars>>
       \/ /\ component = "autopay" /\ AutopayNext
          /\ UNCHANGED <<vars, checkoutVars, taxVars, estimatorVars>>
       \/ /\ component = "tax" /\ TaxNext
          /\ UNCHANGED <<vars, checkoutVars, autopayVars, estimatorVars>>
       \/ /\ component = "estimator" /\ EstimatorNext
          /\ UNCHANGED <<vars, checkoutVars, autopayVars, taxVars>>

LedgerSpec ==
    /\ LedgerInit
    /\ [][LedgerNext]_<<component, vars, checkoutVars, autopayVars, taxVars,
                        estimatorVars>>

Interchangeable == Permutations({p1, p2}) \cup Permutations({visa, amex})
==============================================================================
