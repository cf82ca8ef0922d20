----------------------------- MODULE LedgerProofs -----------------------------
(***************************************************************************)
(* The safety properties of what moves credit outside a request, for any   *)
(* buyers, payers, intents, amounts, taxes, keys, cards and processes.     *)
(*                                                                         *)
(* Reversals.  A credit and a reversal that miss each other meet in the    *)
(* tombstone, so the induction remembers it: an acknowledged event whose   *)
(* credit has not landed left a tombstone at least as large as what it     *)
(* reported (Remembered), and a handler that passed a step is entitled to  *)
(* be past it (Stages).                                                    *)
(*                                                                         *)
(* Checkout.  Everything a purchase is checked against is a function of    *)
(* the session's claim: its price, its record, the forms that lead to it   *)
(* and the entry of a cache that hands it out again.  A form found by its  *)
(* price is a form for its amount, because the price grows with the amount *)
(* (PriceTellsAmount).  A record outlives what may still be delivered, in  *)
(* the order of windows CheckoutAssumption gives: one that is gone was     *)
(* made longer ago than a session can be paid and its event repeated       *)
(* (RecordedWhileDue).                                                     *)
(*                                                                         *)
(* Autopay.  That a charge is credited once is not inductive alone: a      *)
(* sweep settles on an answer it read before, so the proof also needs that *)
(* such an answer is still true when it is used (Knows).  That what was    *)
(* collected is kept needs that nobody fails a claim somebody else is      *)
(* charging (Grounded), which only one sweeping instance is sure of, and   *)
(* what a row and a webhook say of their charge (Reported).                *)
(*                                                                         *)
(* Estimator.  That nothing is learned without losses to show for it needs *)
(* no more than the order of a pass: a cell is fresh only in the tick its  *)
(* pass ended in, so what it stands for was judged in this tick            *)
(* (FreshIsJudged).                                                        *)
(*                                                                         *)
(* RedemptionTax.  Everything said of a user is a function of its ledger,  *)
(* its row and its periods (Books), and every step either appends an       *)
(* entry, opens a period over what none covers, or rewrites a period       *)
(* within what it was debited for; the sums follow by adding up spans that *)
(* do not overlap.  What a sweep listed may be stale, but not that a user  *)
(* is enrolled nor that a row was debited (SweepOk).                       *)
(***************************************************************************)
EXTENDS Reversals, Checkout, Autopay, RedemptionTax, Estimator, Sums,
        SequenceTheorems, FiniteSetTheorems, TLAPS

Remembered ==
    \A e \in Events :
        (at[e] = "acked" /\ Intent(e) \notin credited)
            => /\ tombstone[About[e]].seen = TRUE
               /\ tombstone[About[e]].cents >= Cents[e]

Stages ==
    \A e \in Events :
        /\ at[e] \in {"freezing", "reversing", "stamping"}
              => Intent(e) \in credited
        /\ at[e] = "freezing" => About[e] \in Disputes
        /\ at[e] = "reversing" => Covers(e)
        /\ at[e] \in {"reversing", "stamping"} /\ About[e] \in Disputes
              => Payer[Intent(e)] \in frozen \cup thawed
        /\ at[e] = "stamping" => Reversed(Intent(e))

Safe ==
    /\ Stages
    /\ Remembered
    /\ ReversedOnce
    /\ AcknowledgedReversalHolds
    /\ DisputeFreezes
    /\ AppliedMeansDischarged
    /\ NoDisputeLeftWaiting

IInv == TypeOK /\ Safe

USE DEF Tombstone

-----------------------------------------------------------------------------
(* The inputs, and the operators the actions are built from.               *)

LEMMA Inputs ==
    /\ \A i \in Intents : Payer[i] \in Users /\ Credit[i] \in Nat /\ Credit[i] > 0
    /\ \A o \in Objects : Reverses[o] \in Intents
    /\ \A e \in Events :
        /\ About[e] \in Objects /\ Intent(e) \in Intents /\ Cents[e] \in Nat
        /\ Reverses[About[e]] = Intent(e)
BY UsersAssumption, EventsAssumption DEF Intent

\* Moving one event on changes that event's step only.
LEMMA Moves ==
    ASSUME TypeOK, NEW e \in Events,
           NEW step \in {"sent", "freezing", "reversing", "stamping", "acked"},
           Goto(e, step)
    PROVE  /\ at' \in [Events -> {"sent", "freezing", "reversing", "stamping",
                                  "acked"}]
           /\ at'[e] = step
           /\ \A f \in Events \ {e} : at'[f] = at[f]
BY DEF TypeOK, Goto

\* What observing a reversal does to the tombstones: its own is seen and
\* large enough, none shrinks, and none changes hands or is discharged.
LEMMA Observing ==
    ASSUME TypeOK, NEW e \in Events,
           tombstone' = Observed(About[e], Cents[e]),
           tombstone[About[e]].applied = FALSE
    PROVE  /\ tombstone' \in [Objects -> Tombstone]
           /\ tombstone'[About[e]].seen = TRUE
           /\ tombstone'[About[e]].cents >= Cents[e]
           /\ \A o \in Objects :
                /\ tombstone'[o].applied = tombstone[o].applied
                /\ tombstone[o].seen = TRUE => tombstone'[o].seen = TRUE
                /\ tombstone[o].seen = TRUE
                      => tombstone'[o].cents >= tombstone[o].cents
                /\ o # About[e] => tombstone'[o] = tombstone[o]
<1> DEFINE o == About[e]
           t == tombstone[o]
<1>1. o \in Objects /\ Cents[e] \in Nat /\ t \in Tombstone /\ t.applied = FALSE
  BY Inputs DEF TypeOK
<1> DEFINE Grown(u) == /\ u \in Tombstone /\ u.seen = TRUE
                       /\ u.applied = t.applied
                       /\ u.cents >= Cents[e]
                       /\ t.seen => u.cents >= t.cents
<1>2. /\ tombstone' = [p \in Objects |->
            IF p = o THEN Merged(t, Cents[e]) ELSE tombstone[p]]
  BY <1>1 DEF Observed, TypeOK
<1>3. Grown(Merged(t, Cents[e]))
  <2>1. CASE t.seen
    <3>1. Merged(t, Cents[e]) = [t EXCEPT !.cents = Larger(t.cents, Cents[e])]
      BY <1>1, <2>1 DEF Merged
    <3>2. /\ Larger(t.cents, Cents[e]) \in Nat
          /\ Larger(t.cents, Cents[e]) >= Cents[e]
          /\ Larger(t.cents, Cents[e]) >= t.cents
      BY <1>1 DEF Larger
    <3>3. ASSUME NEW n \in Nat
          PROVE  /\ [t EXCEPT !.cents = n] \in Tombstone
                 /\ [t EXCEPT !.cents = n].seen = t.seen
                 /\ [t EXCEPT !.cents = n].applied = t.applied
                 /\ [t EXCEPT !.cents = n].cents = n
      BY <1>1
    <3> HIDE DEF t
    <3> QED BY <1>1, <2>1, <3>1, <3>2, <3>3
  <2>2. CASE ~t.seen
    <3>1. Merged(t, Cents[e])
            = [seen |-> TRUE, cents |-> Cents[e], applied |-> FALSE]
      BY <2>2 DEF Merged, NoTombstone
    <3>2. /\ Merged(t, Cents[e]).seen = TRUE
          /\ Merged(t, Cents[e]).applied = FALSE
          /\ Merged(t, Cents[e]).cents = Cents[e]
      BY <3>1
    <3>3. Merged(t, Cents[e]) \in Tombstone
      BY <1>1, <3>1
    <3>4. Merged(t, Cents[e]).cents >= Cents[e]
      BY <1>1, <3>2
    <3> QED BY <1>1, <2>2, <3>2, <3>3, <3>4
  <2> QED BY <2>1, <2>2
<1>4. Grown(tombstone'[o])
  BY <1>1, <1>2, <1>3
<1>5. \A p \in Objects \ {o} : tombstone'[p] = tombstone[p]
  BY <1>2
<1>6. tombstone' \in [Objects -> Tombstone]
  BY <1>1, <1>2, <1>3 DEF TypeOK
<1>7. \A p \in Objects : tombstone[p] \in Tombstone
  BY DEF TypeOK
<1> QED BY <1>1, <1>4, <1>5, <1>6, <1>7

\* What discharging a set of tombstones does: those are applied, nothing else
\* changes.
LEMMA Discharging ==
    ASSUME TypeOK, NEW S,
           tombstone' = [o \in Objects |->
                [tombstone[o] EXCEPT !.applied = @ \/ o \in S]]
    PROVE  /\ tombstone' \in [Objects -> Tombstone]
           /\ \A o \in Objects :
                /\ tombstone'[o].seen = tombstone[o].seen
                /\ tombstone'[o].cents = tombstone[o].cents
                /\ tombstone'[o].applied
                      <=> (tombstone[o].applied \/ o \in S)
<1>1. \A o \in Objects : tombstone[o] \in Tombstone
  BY DEF TypeOK
<1>2. ASSUME NEW t \in Tombstone, NEW b \in BOOLEAN
      PROVE  /\ [t EXCEPT !.applied = b] \in Tombstone
             /\ [t EXCEPT !.applied = b].seen = t.seen
             /\ [t EXCEPT !.applied = b].cents = t.cents
             /\ [t EXCEPT !.applied = b].applied = b
  OBVIOUS
<1>3. \A o \in Objects : tombstone'[o]
            = [tombstone[o] EXCEPT !.applied = tombstone[o].applied \/ o \in S]
  OBVIOUS
<1>4. ASSUME NEW o \in Objects
      PROVE  /\ tombstone'[o] \in Tombstone
             /\ tombstone'[o].seen = tombstone[o].seen
             /\ tombstone'[o].cents = tombstone[o].cents
             /\ tombstone'[o].applied = (tombstone[o].applied \/ o \in S)
  <2> DEFINE b == tombstone[o].applied \/ o \in S
  <2>1. b \in BOOLEAN /\ tombstone[o] \in Tombstone
    BY <1>1
  <2>2. tombstone'[o] = [tombstone[o] EXCEPT !.applied = b]
    BY <1>3
  <2> HIDE DEF b
  <2>3. /\ tombstone'[o] \in Tombstone /\ tombstone'[o].seen = tombstone[o].seen
        /\ tombstone'[o].cents = tombstone[o].cents /\ tombstone'[o].applied = b
    BY <1>2, <2>1, <2>2
  <2> QED BY <2>3 DEF b
<1> QED BY <1>4

\* A credit's debit or its reversal leaves every balance an integer.
LEMMA BalanceMoves ==
    ASSUME TypeOK, NEW u \in Users, NEW n \in Int,
           \/ balance' = [balance EXCEPT ![u] = @ + n]
           \/ balance' = [balance EXCEPT ![u] = @ - n]
           \/ balance' = [balance EXCEPT ![u] = n]
    PROVE  balance' \in [Users -> Int]
BY DEF TypeOK

-----------------------------------------------------------------------------
(* Types.                                                                  *)

LEMMA TypeStep == TypeOK /\ [Next]_vars => TypeOK'
<1> SUFFICES ASSUME TypeOK, [Next]_vars PROVE TypeOK'
  OBVIOUS
<1>1. ASSUME NEW i \in Intents, CreditLands(i) PROVE TypeOK'
  <2>1. balance' \in [Users -> Int]
    BY <1>1, Inputs, BalanceMoves DEF CreditLands, TypeOK
  <2>2. tombstone' \in [Objects -> Tombstone]
    BY <1>1, Discharging DEF CreditLands
  <2> QED
    BY <1>1, <2>1, <2>2, Inputs DEF CreditLands, Covering, Unapplied, TypeOK
<1>2. ASSUME NEW e \in Events, Resolve(e) PROVE TypeOK'
  <2>1. at' \in [Events -> {"sent", "freezing", "reversing", "stamping",
                            "acked"}]
    BY <1>2, Moves DEF Resolve
  <2>2. tombstone' \in [Objects -> Tombstone]
    <3>1. \A t \in Tombstone : Merged(t, Cents[e]) \in Tombstone
      BY Inputs DEF Merged, NoTombstone, Larger
    <3> QED BY <1>2, <3>1, Inputs DEF Resolve, Observed, TypeOK
  <2> QED BY <1>2, <2>1, <2>2 DEF Resolve, TypeOK
<1>3. ASSUME NEW e \in Events, Freeze(e) PROVE TypeOK'
  <2>1. at' \in [Events -> {"sent", "freezing", "reversing", "stamping",
                            "acked"}]
    BY <1>3, Moves DEF Freeze
  <2> QED BY <1>3, <2>1, Inputs DEF Freeze, TypeOK
<1>4. ASSUME NEW e \in Events, Reverse(e) PROVE TypeOK'
  <2>1. at' \in [Events -> {"sent", "freezing", "reversing", "stamping",
                            "acked"}]
    BY <1>4, Moves DEF Reverse
  <2>2. balance' \in [Users -> Int]
    BY <1>4, Inputs, BalanceMoves DEF Reverse, TypeOK
  <2> QED BY <1>4, <2>1, <2>2, Inputs DEF Reverse, TypeOK
<1>5. ASSUME NEW e \in Events, Stamp(e) PROVE TypeOK'
  <2>1. at' \in [Events -> {"sent", "freezing", "reversing", "stamping",
                            "acked"}]
    BY <1>5, Moves DEF Stamp
  <2>2. tombstone' \in [Objects -> Tombstone]
    BY <1>5, Discharging DEF Stamp
  <2> QED BY <1>5, <2>1, <2>2 DEF Stamp, TypeOK
<1>6. ASSUME NEW e \in Events, Again(e) PROVE TypeOK'
  <2>1. at' \in [Events -> {"sent", "freezing", "reversing", "stamping",
                            "acked"}]
    BY <1>6, Moves DEF Again
  <2> QED BY <1>6, <2>1 DEF Again, TypeOK
<1>7. ASSUME NEW u \in Users, Spend(u) \/ WriteOff(u) PROVE TypeOK'
  <2>1. balance' \in [Users -> Int]
    BY <1>7, BalanceMoves DEF Spend, WriteOff
  <2> QED BY <1>7, <2>1 DEF Spend, WriteOff, TypeOK
<1>8. ASSUME NEW u \in Users, Unfreeze(u) PROVE TypeOK'
  BY <1>8 DEF Unfreeze, TypeOK
<1>9. CASE UNCHANGED vars
  BY <1>9 DEF vars, TypeOK
<1> QED
  BY <1>1, <1>2, <1>3, <1>4, <1>5, <1>6, <1>7, <1>8, <1>9 DEF Next, Handle

-----------------------------------------------------------------------------
(* One lemma per action: everything in IInv but the types.                 *)

LEMMA CreditLandsKeeps ==
    ASSUME TypeOK, TypeOK', Safe, NEW i \in Intents, CreditLands(i)
    PROVE  Safe'
<1>1. /\ i \notin credited /\ credited' = credited \cup {i}
      /\ at' = at /\ thawed' = thawed
      /\ frozen \subseteq frozen' /\ refunded \subseteq refunded'
  BY DEF CreditLands
<1>2. \A j \in Intents : Reversed(j) => Reversed(j)'
  BY <1>1 DEF Reversed
<1>3. \A o \in refunded' \ refunded :
        /\ Reverses[o] = i
        /\ \A p \in refunded' \ refunded : p = o
  BY DEF CreditLands, Covering, Unapplied
<1>4. Covering(i) # {} => Reversed(i)'
  BY DEF CreditLands, Covering, Unapplied, Reversed
<1>5. Unapplied(i) \cap Disputes # {} => Payer[i] \in frozen'
  BY DEF CreditLands
<1>6. \A o \in Objects :
        /\ tombstone'[o].seen = tombstone[o].seen
        /\ tombstone'[o].cents = tombstone[o].cents
        /\ tombstone'[o].applied
              <=> (tombstone[o].applied \/ o \in Answered(i))
  BY Discharging DEF CreditLands
<1>7. \A o \in Objects : Reverses[o] = i => ~tombstone[o].applied
  BY <1>1 DEF Safe, AppliedMeansDischarged
<1>8. Stages'
  BY <1>1, <1>2, Inputs DEF Safe, Stages, Covers, Intent
<1>9. Remembered'
  BY <1>1, <1>6, Inputs DEF Safe, Remembered, Intent
<1>10. ReversedOnce'
  BY <1>1, <1>3 DEF Safe, ReversedOnce
<1>11. AcknowledgedReversalHolds'
  <2> SUFFICES ASSUME NEW e \in Events, at[e] = "acked", Covers(e),
                      Intent(e) \in credited'
               PROVE  Reversed(Intent(e))'
    BY <1>1 DEF AcknowledgedReversalHolds, Covers, Intent
  <2>1. CASE Intent(e) \in credited
    BY <2>1, <1>2, Inputs DEF Safe, AcknowledgedReversalHolds
  <2>2. CASE Intent(e) = i
    <3>1. /\ tombstone[About[e]].seen = TRUE
          /\ tombstone[About[e]].cents >= Cents[e]
      BY <1>1, <2>2 DEF Safe, Remembered
    <3>2. /\ tombstone[About[e]].cents \in Nat /\ Cents[e] \in Nat
          /\ Credit[i] \in Nat /\ Cents[e] >= Credit[i]
      BY <2>2, Inputs DEF TypeOK, Covers
    <3>3. About[e] \in Covering(i)
      BY <1>7, <2>2, <3>1, <3>2, Inputs DEF Covering, Unapplied
    <3> QED BY <1>4, <2>2, <3>3
  <2> QED BY <1>1, <2>1, <2>2
<1>12. DisputeFreezes'
  <2> SUFFICES ASSUME NEW e \in Events, at[e] = "acked", About[e] \in Disputes,
                      Intent(e) \in credited'
               PROVE  Payer[Intent(e)] \in frozen' \cup thawed'
    BY <1>1 DEF DisputeFreezes, Intent
  <2>1. CASE Intent(e) \in credited
    BY <2>1, <1>1 DEF Safe, DisputeFreezes
  <2>2. CASE Intent(e) = i
    <3>1. tombstone[About[e]].seen = TRUE
      BY <1>1, <2>2 DEF Safe, Remembered
    <3>2. About[e] \in Unapplied(i) \cap Disputes
      BY <1>7, <2>2, <3>1, Inputs DEF Unapplied
    <3> QED BY <1>5, <2>2, <3>2
  <2> QED BY <1>1, <2>1, <2>2
<1>13. AppliedMeansDischarged'
  <2> SUFFICES ASSUME NEW o \in Objects, tombstone'[o].applied
               PROVE  /\ Reverses[o] \in credited'
                      /\ o \in Disputes => Payer[Reverses[o]] \in frozen' \cup thawed'
                      /\ o \notin Disputes => Reversed(Reverses[o])'
    BY DEF AppliedMeansDischarged
  <2>1. CASE tombstone[o].applied
    BY <2>1, <1>1, <1>2, Inputs DEF Safe, AppliedMeansDischarged
  <2>2. CASE o \in Answered(i)
    BY <2>2, <1>1, <1>4, <1>5 DEF Answered, Covering, Unapplied
  <2> QED BY <1>6, <2>1, <2>2
<1>14. NoDisputeLeftWaiting'
  BY <1>1, <1>6, EventsAssumption
     DEF Safe, NoDisputeLeftWaiting, Answered, Unapplied
<1> QED BY <1>8, <1>9, <1>10, <1>11, <1>12, <1>13, <1>14 DEF Safe

LEMMA ResolveKeeps ==
    ASSUME TypeOK, TypeOK', Safe, NEW e \in Events, Resolve(e)
    PROVE  Safe'
<1>1. /\ at[e] = "sent" /\ credited' = credited /\ refunded' = refunded
      /\ frozen' = frozen /\ thawed' = thawed
  BY DEF Resolve
<1>2. \A j : Reversed(j)' <=> Reversed(j)
  BY <1>1 DEF Reversed
<1>3. CASE Intent(e) \in credited
  <2>1. /\ tombstone' = tombstone
        /\ Goto(e, IF About[e] \in Disputes THEN "freezing"
                   ELSE IF Covers(e) THEN "reversing" ELSE "acked")
    BY <1>3 DEF Resolve
  <2>2. /\ at'[e] = IF About[e] \in Disputes THEN "freezing"
                    ELSE IF Covers(e) THEN "reversing" ELSE "acked"
        /\ \A f \in Events \ {e} : at'[f] = at[f]
    BY <2>1, Moves
  <2>3. Stages'
    BY <1>1, <1>2, <1>3, <2>2 DEF Safe, Stages, Covers, Intent
  <2>4. Remembered'
    BY <1>1, <1>3, <2>1, <2>2 DEF Safe, Remembered, Intent
  <2>5. ReversedOnce' /\ AppliedMeansDischarged' /\ NoDisputeLeftWaiting'
    BY <1>1, <1>2, <2>1
       DEF Safe, ReversedOnce, AppliedMeansDischarged, NoDisputeLeftWaiting
  <2>6. AcknowledgedReversalHolds'
    BY <1>1, <1>2, <2>2 DEF Safe, AcknowledgedReversalHolds, Covers, Intent
  <2>7. DisputeFreezes'
    BY <1>1, <2>2 DEF Safe, DisputeFreezes, Intent
  <2> QED BY <2>3, <2>4, <2>5, <2>6, <2>7 DEF Safe
<1>4. CASE Intent(e) \notin credited
  <2>1. tombstone' = Observed(About[e], Cents[e]) /\ Goto(e, "acked")
    BY <1>4 DEF Resolve
  <2>2. at'[e] = "acked" /\ \A f \in Events \ {e} : at'[f] = at[f]
    BY <2>1, Moves
  <2>3. tombstone[About[e]].applied = FALSE
    BY <1>4, Inputs DEF Safe, AppliedMeansDischarged, TypeOK
  <2>4. /\ tombstone'[About[e]].seen = TRUE
        /\ tombstone'[About[e]].cents >= Cents[e]
        /\ \A o \in Objects :
                /\ tombstone'[o].applied = tombstone[o].applied
                /\ tombstone[o].seen = TRUE => tombstone'[o].seen = TRUE
                /\ tombstone[o].seen = TRUE
                      => tombstone'[o].cents >= tombstone[o].cents
                /\ o # About[e] => tombstone'[o] = tombstone[o]
    BY <2>1, <2>3, Observing
  <2>5. Stages'
    BY <1>1, <1>2, <2>2 DEF Safe, Stages, Covers, Intent
  <2>6. Remembered'
    <3> SUFFICES ASSUME NEW f \in Events, at'[f] = "acked",
                        Intent(f) \notin credited
                 PROVE  /\ tombstone'[About[f]].seen = TRUE
                        /\ tombstone'[About[f]].cents >= Cents[f]
      BY <1>1 DEF Remembered, Intent
    <3>1. CASE f = e
      BY <2>4, <3>1
    <3>2. CASE f # e
      <4>1. /\ tombstone[About[f]].seen = TRUE
            /\ tombstone[About[f]].cents >= Cents[f]
        BY <2>2, <3>2 DEF Safe, Remembered
      <4>2. /\ tombstone[About[f]].cents \in Nat /\ Cents[f] \in Nat
            /\ tombstone'[About[f]].cents \in Nat /\ About[f] \in Objects
        BY Inputs DEF TypeOK
      <4> QED BY <2>4, <4>1, <4>2
    <3> QED BY <3>1, <3>2
  <2>7. ReversedOnce' /\ AppliedMeansDischarged'
    BY <1>1, <1>2, <2>4 DEF Safe, ReversedOnce, AppliedMeansDischarged
  <2>8. NoDisputeLeftWaiting'
    BY <1>1, <1>4, <2>4, Inputs, EventsAssumption DEF Safe, NoDisputeLeftWaiting
  <2>9. AcknowledgedReversalHolds'
    BY <1>1, <1>2, <1>4, <2>2 DEF Safe, AcknowledgedReversalHolds, Covers, Intent
  <2>10. DisputeFreezes'
    BY <1>1, <1>4, <2>2 DEF Safe, DisputeFreezes, Intent
  <2> QED BY <2>5, <2>6, <2>7, <2>8, <2>9, <2>10 DEF Safe
<1> QED BY <1>3, <1>4

LEMMA FreezeKeeps ==
    ASSUME TypeOK, TypeOK', Safe, NEW e \in Events, Freeze(e)
    PROVE  Safe'
<1>1. /\ at[e] = "freezing" /\ credited' = credited /\ refunded' = refunded
      /\ frozen' = frozen \cup {Payer[Intent(e)]} /\ thawed' = thawed
      /\ tombstone' = tombstone
  BY DEF Freeze
<1>2. \A j : Reversed(j)' <=> Reversed(j)
  BY <1>1 DEF Reversed
<1>3. /\ at'[e] = IF Covers(e) THEN "reversing" ELSE "acked"
      /\ \A f \in Events \ {e} : at'[f] = at[f]
  BY Moves DEF Freeze
<1>4. Intent(e) \in credited
  BY <1>1 DEF Safe, Stages
<1>5. Stages'
  BY <1>1, <1>2, <1>3, <1>4 DEF Safe, Stages, Covers, Intent
<1>6. Remembered'
  BY <1>1, <1>3, <1>4 DEF Safe, Remembered, Intent
<1>7. ReversedOnce' /\ AppliedMeansDischarged' /\ NoDisputeLeftWaiting'
  BY <1>1, <1>2
     DEF Safe, ReversedOnce, AppliedMeansDischarged, NoDisputeLeftWaiting
<1>8. AcknowledgedReversalHolds'
  BY <1>1, <1>2, <1>3 DEF Safe, AcknowledgedReversalHolds, Covers, Intent
<1>9. DisputeFreezes'
  BY <1>1, <1>3 DEF Safe, DisputeFreezes, Intent
<1> QED BY <1>5, <1>6, <1>7, <1>8, <1>9 DEF Safe

LEMMA ReverseKeeps ==
    ASSUME TypeOK, TypeOK', Safe, NEW e \in Events, Reverse(e)
    PROVE  Safe'
<1>1. /\ at[e] = "reversing" /\ credited' = credited
      /\ refunded \subseteq refunded'
      /\ frozen' = frozen /\ thawed' = thawed /\ tombstone' = tombstone
  BY DEF Reverse
<1>2. \A j : Reversed(j) => Reversed(j)'
  BY <1>1 DEF Reversed
<1>3. at'[e] = "stamping" /\ \A f \in Events \ {e} : at'[f] = at[f]
  BY Moves DEF Reverse
<1>4. Intent(e) \in credited
  BY <1>1 DEF Safe, Stages
<1>5. Reversed(Intent(e))'
  BY <1>2, Inputs DEF Reverse, Reversed, Intent
<1>6. Stages'
  BY <1>1, <1>2, <1>3, <1>4, <1>5 DEF Safe, Stages, Covers, Intent
<1>7. Remembered'
  BY <1>1, <1>3 DEF Safe, Remembered, Intent
<1>8. ReversedOnce'
  BY <1>1, <1>4, Inputs DEF Safe, ReversedOnce, Reverse, Reversed
<1>9. AcknowledgedReversalHolds'
  BY <1>1, <1>2, <1>3 DEF Safe, AcknowledgedReversalHolds, Covers, Intent
<1>10. DisputeFreezes'
  BY <1>1, <1>3 DEF Safe, DisputeFreezes, Intent
<1>11. AppliedMeansDischarged' /\ NoDisputeLeftWaiting'
  BY <1>1, <1>2 DEF Safe, AppliedMeansDischarged, NoDisputeLeftWaiting
<1> QED BY <1>6, <1>7, <1>8, <1>9, <1>10, <1>11 DEF Safe

\* The stamp takes every unapplied tombstone of the intent, and is entitled
\* to: no dispute is among them, and the refund they ask for has happened.
LEMMA StampKeeps ==
    ASSUME TypeOK, TypeOK', Safe, NEW e \in Events, Stamp(e)
    PROVE  Safe'
<1>1. /\ at[e] = "stamping" /\ credited' = credited /\ refunded' = refunded
      /\ frozen' = frozen /\ thawed' = thawed
  BY DEF Stamp
<1>2. \A j : Reversed(j)' <=> Reversed(j)
  BY <1>1 DEF Reversed
<1>3. at'[e] = "acked" /\ \A f \in Events \ {e} : at'[f] = at[f]
  BY Moves DEF Stamp
<1>4. \A o \in Objects :
        /\ tombstone'[o].seen = tombstone[o].seen
        /\ tombstone'[o].cents = tombstone[o].cents
        /\ tombstone'[o].applied
              <=> (tombstone[o].applied \/ o \in Unapplied(Intent(e)))
  BY Discharging DEF Stamp
<1>5. Intent(e) \in credited /\ Reversed(Intent(e))
  BY <1>1 DEF Safe, Stages
<1>6. Stages'
  BY <1>1, <1>2, <1>3 DEF Safe, Stages, Covers, Intent
<1>7. Remembered'
  BY <1>1, <1>3, <1>4, <1>5, Inputs DEF Safe, Remembered, Intent
<1>8. ReversedOnce'
  BY <1>1 DEF Safe, ReversedOnce
<1>9. AcknowledgedReversalHolds'
  BY <1>1, <1>2, <1>3, <1>5 DEF Safe, AcknowledgedReversalHolds, Covers, Intent
<1>10. DisputeFreezes'
  BY <1>1, <1>3 DEF Safe, DisputeFreezes, Stages, Intent
<1>11. \A o \in Unapplied(Intent(e)) :
        /\ o \in Objects /\ o \notin Disputes
        /\ Reverses[o] \in credited /\ Reversed(Reverses[o])
  BY <1>5 DEF Safe, NoDisputeLeftWaiting, Unapplied
<1>12. AppliedMeansDischarged'
  BY <1>1, <1>2, <1>4, <1>11 DEF Safe, AppliedMeansDischarged
<1>13. NoDisputeLeftWaiting'
  BY <1>1, <1>4, EventsAssumption DEF Safe, NoDisputeLeftWaiting
<1> QED BY <1>6, <1>7, <1>8, <1>9, <1>10, <1>12, <1>13 DEF Safe

\* A redelivery starts the handler over; nothing it relies on is lost.
LEMMA AgainKeeps ==
    ASSUME TypeOK, Safe, NEW e \in Events, Again(e)
    PROVE  Safe'
<1>1. UNCHANGED <<credited, refunded, frozen, thawed, tombstone>>
  BY DEF Again
<1>2. at'[e] = "sent" /\ \A f \in Events \ {e} : at'[f] = at[f]
  BY Moves DEF Again
<1>3. \A j : Reversed(j)' <=> Reversed(j)
  BY <1>1 DEF Reversed
<1>4. Stages' /\ Remembered'
  BY <1>1, <1>2, <1>3 DEF Safe, Stages, Remembered, Covers, Intent
<1>5. ReversedOnce' /\ AppliedMeansDischarged' /\ NoDisputeLeftWaiting'
  BY <1>1, <1>3
     DEF Safe, ReversedOnce, AppliedMeansDischarged, NoDisputeLeftWaiting
<1>6. AcknowledgedReversalHolds' /\ DisputeFreezes'
  BY <1>1, <1>2, <1>3
     DEF Safe, AcknowledgedReversalHolds, DisputeFreezes, Covers, Intent
<1> QED BY <1>4, <1>5, <1>6 DEF Safe

\* Spending, a write-off and an operator's unfreeze touch no ledger entry and
\* no tombstone, and whoever is unfrozen is remembered as thawed.
LEMMA OthersKeep ==
    ASSUME TypeOK, Safe,
           UNCHANGED <<credited, refunded, tombstone, at>>,
           frozen \cup thawed \subseteq frozen' \cup thawed'
    PROVE  Safe'
<1>1. \A j : Reversed(j)' <=> Reversed(j)
  BY DEF Reversed
<1>2. Stages' /\ Remembered'
  BY <1>1 DEF Safe, Stages, Remembered, Covers, Intent
<1>3. ReversedOnce' /\ AppliedMeansDischarged' /\ NoDisputeLeftWaiting'
  BY <1>1 DEF Safe, ReversedOnce, AppliedMeansDischarged, NoDisputeLeftWaiting
<1>4. AcknowledgedReversalHolds' /\ DisputeFreezes'
  BY <1>1 DEF Safe, AcknowledgedReversalHolds, DisputeFreezes, Covers, Intent
<1> QED BY <1>2, <1>3, <1>4 DEF Safe

-----------------------------------------------------------------------------
(* The theorems.                                                           *)

LEMMA InitSafe == Init => IInv
<1> SUFFICES ASSUME Init PROVE IInv
  OBVIOUS
<1>1. TypeOK
  BY DEF Init, TypeOK, NoTombstone
<1>2. Safe
  BY EventsAssumption
     DEF Init, NoTombstone, Safe, Stages, Remembered, ReversedOnce,
         AcknowledgedReversalHolds, DisputeFreezes, AppliedMeansDischarged,
         NoDisputeLeftWaiting
<1> QED BY <1>1, <1>2 DEF IInv

LEMMA SafeStep == IInv /\ [Next]_vars => IInv'
<1> SUFFICES ASSUME IInv, [Next]_vars PROVE IInv'
  OBVIOUS
<1>1. TypeOK /\ TypeOK' /\ Safe
  BY TypeStep DEF IInv
<1>2. ASSUME NEW i \in Intents, CreditLands(i) PROVE Safe'
  BY <1>1, <1>2, CreditLandsKeeps
<1>3. ASSUME NEW e \in Events, Handle(e) \/ Again(e) PROVE Safe'
  BY <1>1, <1>3, ResolveKeeps, FreezeKeeps, ReverseKeeps, StampKeeps, AgainKeeps
     DEF Handle
<1>4. ASSUME NEW u \in Users, Spend(u) \/ Unfreeze(u) \/ WriteOff(u) PROVE Safe'
  BY <1>1, <1>4, OthersKeep DEF Spend, Unfreeze, WriteOff
<1>5. ASSUME UNCHANGED vars PROVE Safe'
  BY <1>1, <1>5, OthersKeep DEF vars
<1>6. Safe'
  BY <1>2, <1>3, <1>4, <1>5 DEF Next
<1> QED BY <1>1, <1>6 DEF IInv

\* The inductive invariant.
THEOREM Invariant == Spec => []IInv
BY InitSafe, SafeStep, PTL DEF Spec

\* However reversal events are repeated, reordered and retried, one purchase
\* is taken back once, and only after it was credited.
THEOREM TakenBackOnce == Spec => []ReversedOnce
<1>1. IInv => ReversedOnce
  BY DEF IInv, Safe
<1> QED BY <1>1, Invariant, PTL

\* A covering reversal that was acknowledged is never lost: whichever of the
\* credit and the reversal comes second carries it out.
THEOREM NoReversalForgotten == Spec => []AcknowledgedReversalHolds
<1>1. IInv => AcknowledgedReversalHolds
  BY DEF IInv, Safe
<1> QED BY <1>1, Invariant, PTL

\* An acknowledged dispute has frozen its payer.
THEOREM DisputeStopsSpending == Spec => []DisputeFreezes
<1>1. IInv => DisputeFreezes
  BY DEF IInv, Safe
<1> QED BY <1>1, Invariant, PTL

\* The operator's list of unapplied reversals is honest: an entry leaves it
\* only when it was carried out, and no dispute stays on it past its credit.
THEOREM TombstonesAreHonest == Spec => []TombstonesHonest
<1>1. IInv => TombstonesHonest
  BY DEF IInv, Safe, TombstonesHonest
<1> QED BY <1>1, Invariant, PTL

\* A credit that lands behind its own reversal is never spendable.
THEOREM LateCreditIsNeverSpendable == Spec => NeverSpendable
<1> DEFINE Step ==
        \A e \in Events :
            (/\ at[e] = "acked" /\ Covers(e)
             /\ Intent(e) \in credited' \ credited)
                => balance'[Payer[Intent(e)]] <= balance[Payer[Intent(e)]]
<1>1. ASSUME IInv, [Next]_vars PROVE Step
  <2> SUFFICES ASSUME NEW e \in Events, at[e] = "acked", Covers(e),
                      Intent(e) \in credited' \ credited
               PROVE  balance'[Payer[Intent(e)]] <= balance[Payer[Intent(e)]]
    OBVIOUS
  <2>1. CreditLands(Intent(e))
    BY <1>1 DEF Next, Handle, CreditLands, Resolve, Freeze, Reverse, Stamp, Again,
                Spend, Unfreeze, WriteOff, vars
  <2>2. /\ tombstone[About[e]].seen = TRUE
        /\ tombstone[About[e]].cents >= Cents[e]
        /\ ~tombstone[About[e]].applied
    BY <1>1, Inputs DEF IInv, Safe, Remembered, AppliedMeansDischarged
  <2>3. /\ tombstone[About[e]].cents \in Nat /\ Cents[e] \in Nat
        /\ Credit[Intent(e)] \in Nat /\ Cents[e] >= Credit[Intent(e)]
    BY <1>1, Inputs DEF IInv, TypeOK, Covers
  <2>4. About[e] \in Covering(Intent(e))
    BY <2>2, <2>3, Inputs DEF Covering, Unapplied
  <2>5. balance' = balance
    BY <2>1, <2>4 DEF CreditLands
  <2>6. balance[Payer[Intent(e)]] \in Int
    BY <1>1, Inputs DEF IInv, TypeOK
  <2> QED BY <2>5, <2>6
<1>2. IInv /\ [Next]_vars => [Step]_vars
  BY <1>1
<1> QED BY <1>2, Invariant, PTL DEF Spec, NeverSpendable

-----------------------------------------------------------------------------
(* Checkout.                                                               *)

Session ==
    [made : Nat, state : {"open", "collecting", "paid"}, at : Nat \cup {NotYet},
     claim : [user : Buyers, credit : Credits, rail : Rails],
     price : Nat, tax : Nat, acknowledged : BOOLEAN,
     step : {"minted", "recorded", "withheld", "handed"}, on : Instances]

Numbered ==
    /\ Elsewhere \in DOMAIN sessions
    /\ Cardinality(Ours) \in Nat /\ Ours = 1..Cardinality(Ours)

SessionsSold ==
    /\ now \in Nat
    /\ sessions[Elsewhere].step = "handed" /\ sessions[Elsewhere].state = "paid"
    /\ \A s \in Ours :
        /\ sessions[s] \in Session
        /\ sessions[s].price = Gross(sessions[s].claim.credit, sessions[s].claim.rail)
        /\ sessions[s].made <= now
        /\ sessions[s].state # "open" => sessions[s].step = "handed"
        /\ sessions[s].state = "paid" =>
             /\ sessions[s].at \in Nat
             /\ sessions[s].at < sessions[s].made + SessionLife + AsyncLife

RecordsAgree ==
    \A s \in DOMAIN records :
        /\ s \in Ours
        /\ records[s].user = sessions[s].claim.user
        /\ records[s].credit = sessions[s].claim.credit
        /\ records[s].price = sessions[s].price
        /\ records[s].made \in Nat /\ sessions[s].made <= records[s].made

RecordedWhileDue ==
    \A s \in Ours :
        sessions[s].step \in {"recorded", "handed"} =>
            s \in DOMAIN records \/ sessions[s].made + Retention < now

FormsAgree ==
    \A form \in forms :
        /\ form.session \in Ours /\ sessions[form.session].step = "handed"
        /\ sessions[form.session].claim = Claim(form.user, form.credit, form.rail)

CachesAgree ==
    /\ DOMAIN reuse = Instances
    /\ \A i \in Instances : \A k \in DOMAIN reuse[i] :
        LET s == reuse[i][k].session IN
        /\ s \in Ours /\ sessions[s].step = "handed"
        /\ k = KeyOf(sessions[s].claim.user, sessions[s].claim.rail, sessions[s].claim.credit)

HandlersAgree ==
    /\ DOMAIN handlers = Handlers
    /\ \A h \in Handlers :
        handlers[h].at # "idle" =>
            LET s == handlers[h].session IN
            /\ s \in Ours /\ sessions[s].state = "paid"
            /\ now <= sessions[s].at + RetryWindow
            /\ handlers[h].at = "crediting" =>
                 /\ handlers[h].user = sessions[s].claim.user
                 /\ handlers[h].credit = sessions[s].claim.credit

PurchasesAgree ==
    \A s \in DOMAIN purchases :
        /\ s \in Ours /\ sessions[s].state = "paid" /\ s \in DOMAIN records
        /\ purchases[s] =
             [user |-> sessions[s].claim.user, credit |-> sessions[s].claim.credit]

RefusedForeign == refused \subseteq {Elsewhere}

CheckoutIInv ==
    /\ Numbered /\ SessionsSold /\ RecordsAgree /\ RecordedWhileDue
    /\ FormsAgree /\ CachesAgree /\ HandlersAgree /\ PurchasesAgree
    /\ RefusedForeign

-----------------------------------------------------------------------------
(* The price of a deposit.                                                 *)

\* Both rails price in whole cents.
LEMMA GrossIsNat ==
    ASSUME NEW credit \in Nat, NEW rail \in Rails
    PROVE  Gross(credit, rail) \in Nat
<1>1. PICK r \in {55, 50} : Rate(rail) = r
  BY DEF Rate
<1>2. (credit * r + 999) \div 1000 \in Nat
  OBVIOUS
<1>3. Floor(rail) \in Nat
  BY DEF Floor
<1> QED BY <1>1, <1>2, <1>3 DEF Gross, Fee

\* A larger amount has a larger price, on either rail.
LEMMA PriceGrows ==
    ASSUME NEW c \in Nat, NEW d \in Nat, NEW rail \in Rails, c < d
    PROVE  Gross(c, rail) < Gross(d, rail)
<1>1. PICK r \in {55, 50} : Rate(rail) = r
  BY DEF Rate
<1> DEFINE share(n) == (n * r + 999) \div 1000
<1>2. share(c) \in Nat /\ share(d) \in Nat /\ share(c) <= share(d)
  <2>1. c * r + 999 \in Nat /\ d * r + 999 \in Nat /\ c * r + 999 <= d * r + 999
    OBVIOUS
  <2>2. \A m, n \in Nat : m <= n => m \div 1000 <= n \div 1000
    OBVIOUS
  <2> QED BY <2>1, <2>2
<1>3. Floor(rail) \in Nat
  BY DEF Floor
<1>4. Fee(c, rail) \in Nat /\ Fee(d, rail) \in Nat /\ Fee(c, rail) <= Fee(d, rail)
  BY <1>1, <1>2, <1>3 DEF Fee
<1> QED BY <1>4 DEF Gross

\* What two amounts cost on one rail tells them apart.
LEMMA PriceTellsAmount ==
    ASSUME NEW c \in Nat, NEW d \in Nat, NEW rail \in Rails,
           Gross(c, rail) = Gross(d, rail)
    PROVE  c = d
<1>1. Gross(c, rail) \in Nat /\ Gross(d, rail) \in Nat
  BY GrossIsNat
<1>2. ~(c < d) /\ ~(d < c)
  BY <1>1, PriceGrows
<1> QED BY <1>2

-----------------------------------------------------------------------------
(* Sessions.                                                               *)

\* A session that moves on stays the one that was sold, and what was handed or
\* paid stays so.
Onward ==
    /\ DOMAIN sessions' = DOMAIN sessions
    /\ sessions'[Elsewhere].step = "handed" /\ sessions'[Elsewhere].state = "paid"
    /\ \A s \in Ours :
        /\ sessions'[s] \in Session
        /\ sessions'[s].made = sessions[s].made
        /\ sessions'[s].claim = sessions[s].claim
        /\ sessions'[s].price = sessions[s].price
        /\ sessions'[s].on = sessions[s].on
        /\ sessions[s].step = "handed" => sessions'[s].step = "handed"
        /\ sessions[s].state = "paid" =>
             sessions'[s].state = "paid" /\ sessions'[s].at = sessions[s].at

LEMMA SameOurs ==
    ASSUME Numbered, DOMAIN sessions' = DOMAIN sessions
    PROVE  Numbered' /\ Ours' = Ours
BY DEF Numbered, Ours

\* What refers to sessions still agrees with them once they have moved on.
LEMMA OnwardKeeps ==
    ASSUME CheckoutIInv, Onward, UNCHANGED now
    PROVE  /\ UNCHANGED records => RecordsAgree'
           /\ UNCHANGED forms => FormsAgree'
           /\ UNCHANGED reuse => CachesAgree'
           /\ UNCHANGED handlers => HandlersAgree'
           /\ UNCHANGED <<records, purchases>> => PurchasesAgree'
<1>1. Ours' = Ours
  BY SameOurs DEF CheckoutIInv, Onward
<1>2. UNCHANGED records => RecordsAgree'
  BY <1>1 DEF CheckoutIInv, RecordsAgree, Onward
<1>3. UNCHANGED forms => FormsAgree'
  BY <1>1 DEF CheckoutIInv, FormsAgree, Onward, Claim
<1>4. UNCHANGED reuse => CachesAgree'
  BY <1>1 DEF CheckoutIInv, CachesAgree, Onward, KeyOf
<1>5. UNCHANGED handlers => HandlersAgree'
  BY <1>1 DEF CheckoutIInv, HandlersAgree, Onward
<1>6. UNCHANGED <<records, purchases>> => PurchasesAgree'
  BY <1>1 DEF CheckoutIInv, PurchasesAgree, Onward
<1> QED BY <1>2, <1>3, <1>4, <1>5, <1>6

\* Without a new or a changed session, and at the same time, sessions are as sold.
LEMMA Untouched ==
    ASSUME CheckoutIInv, UNCHANGED <<now, sessions>>
    PROVE  Numbered' /\ SessionsSold' /\ Ours' = Ours
BY DEF CheckoutIInv, Numbered, SessionsSold, Ours

\* Whoever may pay holds a form.
LEMMA PayStep ==
    ASSUME CheckoutIInv, NEW s \in DOMAIN sessions, Pay(s)
    PROVE  CheckoutIInv'
<1>1. PICK form \in forms : form.session = s
  BY DEF Pay
<1>2. s \in Ours /\ sessions[s] \in Session /\ sessions[s].step = "handed"
  BY <1>1 DEF CheckoutIInv, FormsAgree, SessionsSold
<1>3. sessions[s].state = "open" /\ now < sessions[s].made + SessionLife /\ now \in Nat
  BY DEF Pay, Payable, CheckoutIInv, SessionsSold
<1>4. PICK to \in {"paid", "collecting"} :
        /\ to = "paid" => \E tax \in Taxes : sessions' = Paid(s, tax)
        /\ to # "paid" => sessions' = [sessions EXCEPT ![s].state = "collecting"]
  BY DEF Pay
<1>5. /\ DOMAIN sessions' = DOMAIN sessions
      /\ \A x \in DOMAIN sessions : x # s => sessions'[x] = sessions[x]
      /\ sessions'[s] \in Session
      /\ sessions'[s].made = sessions[s].made /\ sessions'[s].claim = sessions[s].claim
      /\ sessions'[s].price = sessions[s].price /\ sessions'[s].on = sessions[s].on
      /\ sessions'[s].step = sessions[s].step
      /\ sessions'[s].state = "paid" => sessions'[s].at = now
  <2>1. CASE to = "paid"
    <3>1. PICK tax \in Taxes : sessions' = Paid(s, tax)
      BY <1>4, <2>1
    <3>2. tax \in Nat
      BY CheckoutAssumption
    <3> QED BY <1>2, <1>3, <3>1, <3>2 DEF Paid, Session, Ours
  <2>2. CASE to = "collecting"
    BY <1>2, <1>4, <2>2 DEF Session, Ours
  <2> QED BY <2>1, <2>2
<1>6. Onward
  BY <1>2, <1>3, <1>5 DEF Onward, CheckoutIInv, Numbered, SessionsSold, Ours
<1>7. Ours' = Ours /\ Numbered'
  BY <1>6, SameOurs DEF CheckoutIInv, Onward
<1>8. SessionsSold'
  <2>1. now' = now
    BY DEF Pay
  <2>2. SUFFICES ASSUME NEW x \in Ours
                 PROVE  /\ sessions'[x].price =
                             Gross(sessions'[x].claim.credit, sessions'[x].claim.rail)
                        /\ sessions'[x].made <= now
                        /\ sessions'[x].state # "open" => sessions'[x].step = "handed"
                        /\ sessions'[x].state = "paid" =>
                             /\ sessions'[x].at \in Nat
                             /\ sessions'[x].at < sessions'[x].made + SessionLife + AsyncLife
    BY <1>6, <1>7, <2>1 DEF SessionsSold, Onward, CheckoutIInv
  <2>3. CASE x = s
    <3>1. now < sessions[s].made + SessionLife + AsyncLife
      BY <1>2, <1>3, CheckoutAssumption DEF Session
    <3> QED BY <1>2, <1>3, <1>5, <2>3, <3>1 DEF CheckoutIInv, SessionsSold
  <2>4. CASE x # s
    BY <1>5, <2>4 DEF CheckoutIInv, SessionsSold, Ours
  <2> QED BY <2>3, <2>4
<1>9. RecordedWhileDue'
  BY <1>2, <1>5, <1>7 DEF CheckoutIInv, RecordedWhileDue, Pay, Ours
<1> QED BY <1>6, <1>7, <1>8, <1>9, OnwardKeeps DEF CheckoutIInv, Pay, RefusedForeign

\* What is collected late is of a session that was paid for in time.
LEMMA CollectStep ==
    ASSUME CheckoutIInv, NEW s \in DOMAIN sessions, Collect(s)
    PROVE  CheckoutIInv'
<1>1. s \in Ours /\ sessions[s] \in Session /\ sessions[s].step = "handed"
  BY DEF Collect, CheckoutIInv, Numbered, SessionsSold, Ours
<1>2. PICK tax \in Taxes : sessions' = Paid(s, tax)
  BY DEF Collect
<1>3. now \in Nat /\ now' = now /\ tax \in Nat
  BY CheckoutAssumption DEF Collect, CheckoutIInv, SessionsSold
<1>4. /\ DOMAIN sessions' = DOMAIN sessions
      /\ \A x \in DOMAIN sessions : x # s => sessions'[x] = sessions[x]
      /\ sessions'[s] \in Session
      /\ sessions'[s].made = sessions[s].made /\ sessions'[s].claim = sessions[s].claim
      /\ sessions'[s].price = sessions[s].price /\ sessions'[s].on = sessions[s].on
      /\ sessions'[s].step = sessions[s].step /\ sessions'[s].at = now
  BY <1>1, <1>2, <1>3 DEF Paid, Session, Ours
<1>5. Onward
  BY <1>1, <1>4 DEF Onward, CheckoutIInv, Numbered, SessionsSold, Ours, Collect
<1>6. Ours' = Ours /\ Numbered'
  BY <1>5, SameOurs DEF CheckoutIInv, Onward
<1>7. SessionsSold'
  BY <1>1, <1>3, <1>4, <1>5, <1>6 DEF CheckoutIInv, SessionsSold, Ours, Collect, Onward
<1>8. RecordedWhileDue'
  BY <1>1, <1>4, <1>6 DEF CheckoutIInv, RecordedWhileDue, Collect, Ours
<1> QED BY <1>5, <1>6, <1>7, <1>8, OnwardKeeps DEF CheckoutIInv, Collect, RefusedForeign

\* A number nobody has yet.
LEMMA CreateStep ==
    ASSUME CheckoutIInv, NEW i \in Instances, NEW user \in Buyers, NEW rail \in Rails,
           NEW credit \in Credits, Create(i, user, rail, credit)
    PROVE  CheckoutIInv'
<1>0. PICK n \in Nat : n = Cardinality(Ours) /\ Ours = 1..n
  BY DEF CheckoutIInv, Numbered
<1> DEFINE made == [made |-> now, state |-> "open", at |-> NotYet,
                    claim |-> Claim(user, credit, rail), price |-> Gross(credit, rail),
                    tax |-> 0, acknowledged |-> FALSE, step |-> "minted", on |-> i]
<1>1. Elsewhere \in DOMAIN sessions /\ n + 1 # Elsewhere
  BY <1>0, CheckoutAssumption DEF CheckoutIInv, Numbered
<1>2. n + 1 \notin DOMAIN sessions
  <2>1. \A m \in Nat : m + 1 \notin 1..m
    OBVIOUS
  <2>2. n + 1 \notin Ours
    BY <1>0, <2>1, Zenon
  <2> QED BY <1>1, <2>2 DEF Ours
<1>3. /\ DOMAIN sessions' = DOMAIN sessions \cup {n + 1}
      /\ \A x \in DOMAIN sessions : sessions'[x] = sessions[x]
      /\ sessions'[n + 1] = made
  BY <1>0, <1>2 DEF Create
<1>4. Ours' = Ours \cup {n + 1}
  BY <1>1, <1>3 DEF Ours
<1>5. Ours' = 1..(n + 1)
  <2>1. \A m \in Nat : 1..m \cup {m + 1} = 1..(m + 1)
    OBVIOUS
  <2> QED BY <1>0, <1>4, <2>1, Zenon
<1>6. Numbered'
  <2>1. Cardinality(1..(n + 1)) = n + 1
    BY <1>0, FS_Interval
  <2>2. Cardinality(Ours)' = n + 1
    BY <1>5, <2>1, Zenon
  <2>3. Elsewhere \in DOMAIN sessions'
    BY <1>1, <1>3
  <2>4. n + 1 \in Nat
    BY <1>0
  <2> QED BY <1>5, <2>2, <2>3, <2>4, Zenon DEF Numbered
<1>7. /\ UNCHANGED <<now, records, reuse, forms, handlers, refused, purchases>>
      /\ now \in Nat /\ credit \in Nat
  BY CheckoutAssumption DEF Create, CheckoutIInv, SessionsSold
<1>8. Gross(credit, rail) \in Nat
  BY <1>7, GrossIsNat
<1>9. made \in Session
  BY <1>7, <1>8 DEF Session, Claim
<1>10. SessionsSold'
  <2>1. sessions'[Elsewhere].step = "handed" /\ sessions'[Elsewhere].state = "paid"
    BY <1>1, <1>3 DEF CheckoutIInv, SessionsSold
  <2>2. ASSUME NEW x \in Ours PROVE sessions'[x] = sessions[x]
    BY <1>3 DEF Ours
  <2> QED BY <1>3, <1>4, <1>7, <1>9, <2>1, <2>2 DEF CheckoutIInv, SessionsSold, Claim
<1>11. RecordsAgree'
  BY <1>3, <1>4, <1>7 DEF CheckoutIInv, RecordsAgree, Ours
<1>12. RecordedWhileDue'
  BY <1>3, <1>4, <1>7 DEF CheckoutIInv, RecordedWhileDue, Ours
<1>13. FormsAgree'
  BY <1>3, <1>4, <1>7 DEF CheckoutIInv, FormsAgree, Ours, Claim
<1>14. CachesAgree'
  BY <1>3, <1>4, <1>7 DEF CheckoutIInv, CachesAgree, Ours, KeyOf
<1>15. HandlersAgree'
  BY <1>3, <1>4, <1>7 DEF CheckoutIInv, HandlersAgree, Ours
<1>16. PurchasesAgree'
  BY <1>3, <1>4, <1>7 DEF CheckoutIInv, PurchasesAgree, Ours
<1> QED BY <1>6, <1>7, <1>10, <1>11, <1>12, <1>13, <1>14, <1>15, <1>16
        DEF CheckoutIInv, RefusedForeign

\* The entry found is of a session for this buyer, rail and amount.
LEMMA ReuseStep ==
    ASSUME CheckoutIInv, NEW i \in Instances, NEW user \in Buyers, NEW rail \in Rails,
           NEW credit \in Credits, Reuse(i, user, rail, credit)
    PROVE  CheckoutIInv'
<1> DEFINE key == KeyOf(user, rail, credit)
           s == reuse[i][key].session
<1>1. /\ key \in DOMAIN reuse[i] /\ forms' = forms \cup {Form(s, user, rail, credit)}
      /\ UNCHANGED <<now, sessions, records, reuse, handlers, refused, purchases>>
  BY DEF Reuse
<1>2. /\ s \in Ours /\ sessions[s].step = "handed" /\ sessions[s] \in Session
      /\ key = KeyOf(sessions[s].claim.user, sessions[s].claim.rail, sessions[s].claim.credit)
  BY <1>1 DEF CheckoutIInv, CachesAgree, SessionsSold
<1>3. /\ sessions[s].claim \in [user : Buyers, credit : Credits, rail : Rails]
      /\ sessions[s].claim.user = user /\ sessions[s].claim.rail = rail
      /\ Gross(sessions[s].claim.credit, rail) = Gross(credit, rail)
  BY <1>2 DEF KeyOf, Session
<1>4. sessions[s].claim.credit = credit
  BY <1>3, PriceTellsAmount, CheckoutAssumption
<1>5. sessions[s].claim = Claim(user, credit, rail)
  BY <1>3, <1>4 DEF Claim
<1>6. FormsAgree'
  <2>1. Ours' = Ours /\ sessions' = sessions
    BY <1>1, Untouched
  <2>2. SUFFICES ASSUME NEW form \in forms'
                 PROVE  /\ form.session \in Ours /\ sessions[form.session].step = "handed"
                        /\ sessions[form.session].claim
                             = Claim(form.user, form.credit, form.rail)
    BY <2>1 DEF FormsAgree, Claim
  <2>3. CASE form \in forms
    BY <2>3 DEF CheckoutIInv, FormsAgree
  <2>4. CASE form = Form(s, user, rail, credit)
    BY <1>2, <1>5, <2>4 DEF Form
  <2> QED BY <1>1, <2>2, <2>3, <2>4
<1> QED BY <1>1, <1>6, Untouched
        DEF CheckoutIInv, RecordsAgree, RecordedWhileDue, CachesAgree, HandlersAgree,
            PurchasesAgree, RefusedForeign, KeyOf

\* The clock moves on between requests and deliveries.
LEMMA TickStep ==
    ASSUME CheckoutIInv, Tick
    PROVE  CheckoutIInv'
<1>1. /\ UNCHANGED <<sessions, records, reuse, forms, handlers, refused, purchases>>
      /\ now \in Nat /\ now' = now + 1
      /\ \A h \in Handlers : handlers[h].at = "idle"
  BY DEF Tick, CheckoutIInv, SessionsSold
<1>2. Ours' = Ours /\ Numbered'
  BY <1>1, SameOurs DEF CheckoutIInv
<1>3. SessionsSold'
  BY <1>1, <1>2 DEF CheckoutIInv, SessionsSold, Session
<1>4. RecordedWhileDue'
  <2>1. \A s \in Ours : sessions[s].made + Retention < now
                          => sessions[s].made + Retention < now + 1
    BY <1>1, CheckoutAssumption DEF CheckoutIInv, SessionsSold, Session
  <2> QED BY <1>1, <1>2, <2>1 DEF CheckoutIInv, RecordedWhileDue
<1>5. HandlersAgree'
  BY <1>1 DEF CheckoutIInv, HandlersAgree
<1> QED BY <1>1, <1>2, <1>3, <1>4, <1>5
        DEF CheckoutIInv, RecordsAgree, FormsAgree, CachesAgree, PurchasesAgree, RefusedForeign,
            KeyOf, Claim

\* A step of its creation takes an open session on, and changes nothing else of it.
LEMMA StepTaken ==
    ASSUME CheckoutIInv, NEW s \in DOMAIN sessions, sessions[s].step \in {"minted", "recorded"},
           NEW to \in {"recorded", "withheld", "handed"},
           sessions' = [sessions EXCEPT ![s].step = to], UNCHANGED now
    PROVE  /\ s \in Ours /\ sessions[s] \in Session /\ Onward
           /\ Ours' = Ours /\ Numbered' /\ SessionsSold'
           /\ sessions'[s].step = to
           /\ \A x \in DOMAIN sessions : x # s => sessions'[x] = sessions[x]
<1>1. s \in Ours /\ sessions[s] \in Session /\ sessions[s].state = "open"
  BY DEF CheckoutIInv, SessionsSold, Ours
<1>2. /\ DOMAIN sessions' = DOMAIN sessions
      /\ \A x \in DOMAIN sessions : x # s => sessions'[x] = sessions[x]
      /\ sessions'[s] = [sessions[s] EXCEPT !.step = to]
  OBVIOUS
<1>3. /\ sessions'[s] \in Session /\ sessions'[s].step = to
      /\ \A f \in {"made", "state", "at", "claim", "price", "on"} :
           sessions'[s][f] = sessions[s][f]
  BY <1>1, <1>2 DEF Session
<1>4. Onward
  BY <1>1, <1>2, <1>3 DEF Onward, CheckoutIInv, Numbered, SessionsSold, Ours
<1>5. Ours' = Ours /\ Numbered'
  BY <1>4, SameOurs DEF CheckoutIInv, Onward
<1>6. SessionsSold'
  BY <1>1, <1>2, <1>3, <1>4, <1>5 DEF CheckoutIInv, SessionsSold, Onward, Ours
<1> QED BY <1>1, <1>2, <1>3, <1>4, <1>5, <1>6

\* The record says what the session does; without one the form is withheld.
LEMMA RecordStep ==
    ASSUME CheckoutIInv, NEW s \in DOMAIN sessions, Record(s)
    PROVE  CheckoutIInv'
<1>1. /\ sessions[s].step = "minted"
      /\ UNCHANGED <<now, reuse, forms, handlers, refused, purchases>>
  BY DEF Record
<1>2. CASE sessions' = [sessions EXCEPT ![s].step = "withheld"] /\ UNCHANGED records
  <2>1. /\ s \in Ours /\ Onward /\ Ours' = Ours /\ Numbered' /\ SessionsSold'
        /\ sessions'[s].step = "withheld"
        /\ \A x \in DOMAIN sessions : x # s => sessions'[x] = sessions[x]
    BY <1>1, <1>2, StepTaken
  <2>2. RecordedWhileDue'
    BY <1>1, <1>2, <2>1 DEF CheckoutIInv, RecordedWhileDue, Ours
  <2> QED BY <1>1, <1>2, <2>1, <2>2, OnwardKeeps DEF CheckoutIInv, RefusedForeign
<1>3. CASE /\ sessions' = [sessions EXCEPT ![s].step = "recorded"]
           /\ records' = [x \in DOMAIN records \cup {s} |->
                IF x = s THEN [user |-> sessions[s].claim.user,
                               credit |-> sessions[s].claim.credit,
                               price |-> sessions[s].price, made |-> now, settled |-> FALSE]
                ELSE records[x]]
  <2>1. /\ s \in Ours /\ Onward /\ Ours' = Ours /\ Numbered' /\ SessionsSold'
        /\ sessions'[s].step = "recorded"
        /\ \A x \in DOMAIN sessions : x # s => sessions'[x] = sessions[x]
    BY <1>1, <1>3, StepTaken
  <2>2. DOMAIN records' = DOMAIN records \cup {s}
    BY <1>3
  <2>3. RecordsAgree'
    <3>1. now \in Nat /\ sessions[s].made <= now
      BY <2>1 DEF CheckoutIInv, SessionsSold
    <3>2. SUFFICES ASSUME NEW x \in DOMAIN records \cup {s}
                   PROVE  /\ x \in Ours
                          /\ records'[x].user = sessions'[x].claim.user
                          /\ records'[x].credit = sessions'[x].claim.credit
                          /\ records'[x].price = sessions'[x].price
                          /\ records'[x].made \in Nat
                          /\ sessions'[x].made <= records'[x].made
      BY <2>1, <2>2 DEF RecordsAgree
    <3>3. CASE x = s
      BY <1>3, <2>1, <3>1, <3>3 DEF Onward
    <3>4. CASE x # s
      BY <1>3, <2>1, <3>4 DEF CheckoutIInv, RecordsAgree, Onward
    <3> QED BY <3>3, <3>4
  <2>4. RecordedWhileDue'
    BY <1>1, <2>1, <2>2 DEF CheckoutIInv, RecordedWhileDue, Ours
  <2>5. PurchasesAgree'
    BY <1>1, <2>1, <2>2 DEF CheckoutIInv, PurchasesAgree, Onward
  <2> QED BY <1>1, <2>1, <2>3, <2>4, <2>5, OnwardKeeps DEF CheckoutIInv, RefusedForeign
<1> QED BY <1>2, <1>3 DEF Record

\* The form handed over and the entry to hand it out again are the session's own.
LEMMA HandOverStep ==
    ASSUME CheckoutIInv, NEW s \in DOMAIN sessions, HandOver(s)
    PROVE  CheckoutIInv'
<1> DEFINE sold == sessions[s].claim
           i == sessions[s].on
           key == KeyOf(sold.user, sold.rail, sold.credit)
<1>1. /\ sessions[s].step = "recorded"
      /\ sessions' = [sessions EXCEPT ![s].step = "handed"]
      /\ reuse' = [reuse EXCEPT ![i] = [k \in DOMAIN @ \cup {key} |->
                       IF k = key THEN [session |-> s, at |-> now] ELSE @[k]]]
      /\ forms' = forms \cup {Form(s, sold.user, sold.rail, sold.credit)}
      /\ UNCHANGED <<now, records, handlers, refused, purchases>>
  BY DEF HandOver
<1>2. /\ s \in Ours /\ sessions[s] \in Session /\ Onward
      /\ Ours' = Ours /\ Numbered' /\ SessionsSold'
      /\ sessions'[s].step = "handed"
      /\ \A x \in DOMAIN sessions : x # s => sessions'[x] = sessions[x]
  BY <1>1, StepTaken
<1>3. RecordedWhileDue'
  BY <1>1, <1>2 DEF CheckoutIInv, RecordedWhileDue, Ours
<1>4. FormsAgree'
  <2>1. sold = Claim(sold.user, sold.credit, sold.rail)
    BY <1>2 DEF Session, Claim
  <2>2. SUFFICES ASSUME NEW form \in forms'
                 PROVE  /\ form.session \in Ours /\ sessions'[form.session].step = "handed"
                        /\ sessions'[form.session].claim
                             = Claim(form.user, form.credit, form.rail)
    BY <1>2 DEF FormsAgree, Claim
  <2>3. CASE form \in forms
    BY <1>2, <2>3 DEF CheckoutIInv, FormsAgree, Onward
  <2>4. CASE form = Form(s, sold.user, sold.rail, sold.credit)
    <3>1. /\ form.session = s /\ form.user = sold.user
          /\ form.credit = sold.credit /\ form.rail = sold.rail
      BY <2>4 DEF Form
    <3>2. sessions'[s].claim = sold
      BY <1>2 DEF Onward
    <3> QED BY <1>2, <2>1, <3>1, <3>2
  <2> QED BY <1>1, <2>3, <2>4
<1>5. CachesAgree'
  <2>1. i \in Instances /\ DOMAIN reuse' = Instances
    BY <1>1, <1>2 DEF Session, CheckoutIInv, CachesAgree
  <2>2. SUFFICES ASSUME NEW j \in Instances, NEW k \in DOMAIN reuse'[j]
                 PROVE  LET x == reuse'[j][k].session IN
                        /\ x \in Ours /\ sessions'[x].step = "handed"
                        /\ k = KeyOf(sessions'[x].claim.user, sessions'[x].claim.rail,
                                     sessions'[x].claim.credit)
    BY <1>2, <2>1 DEF CachesAgree, KeyOf
  <2>3. CASE j = i /\ k = key
    <3>1. reuse'[j][k].session = s
      BY <1>1, <2>1, <2>3 DEF CheckoutIInv, CachesAgree
    <3>2. sessions'[s].claim = sold
      BY <1>2 DEF Onward
    <3> QED BY <1>2, <2>3, <3>1, <3>2
  <2>4. CASE ~(j = i /\ k = key)
    <3>1. k \in DOMAIN reuse[j] /\ reuse'[j][k] = reuse[j][k]
      BY <1>1, <2>1, <2>2, <2>4 DEF CheckoutIInv, CachesAgree
    <3> QED BY <1>2, <3>1 DEF CheckoutIInv, CachesAgree, Onward
  <2> QED BY <2>3, <2>4
<1> QED BY <1>1, <1>2, <1>3, <1>4, <1>5, OnwardKeeps DEF CheckoutIInv, RefusedForeign

\* Forgetting entries keeps the others.
LEMMA ReadStatusStep ==
    ASSUME CheckoutIInv, NEW i \in Instances, NEW s \in DOMAIN sessions, ReadStatus(i, s)
    PROVE  CheckoutIInv'
<1>1. /\ reuse' = [reuse EXCEPT ![i] =
           [k \in {k \in DOMAIN @ : @[k].session # s} |-> @[k]]]
      /\ UNCHANGED <<now, sessions, records, forms, handlers, refused, purchases>>
  BY DEF ReadStatus
<1>2. Ours' = Ours /\ Numbered' /\ SessionsSold'
  BY <1>1, Untouched
<1>3. CachesAgree'
  <2>1. DOMAIN reuse = Instances /\ DOMAIN reuse' = Instances
    BY <1>1 DEF CheckoutIInv, CachesAgree
  <2>2. ASSUME NEW j \in Instances, NEW k \in DOMAIN reuse'[j]
        PROVE  k \in DOMAIN reuse[j] /\ reuse'[j][k] = reuse[j][k]
    <3>1. CASE j = i
      BY <1>1, <2>1, <3>1
    <3>2. CASE j # i
      BY <1>1, <2>1, <3>2
    <3> QED BY <3>1, <3>2
  <2>3. ASSUME NEW j \in Instances, NEW k \in DOMAIN reuse'[j]
        PROVE  LET x == reuse'[j][k].session IN
               /\ x \in Ours /\ sessions[x].step = "handed"
               /\ k = KeyOf(sessions[x].claim.user, sessions[x].claim.rail,
                            sessions[x].claim.credit)
    BY <2>1, <2>2 DEF CheckoutIInv, CachesAgree
  <2>4. sessions' = sessions
    BY <1>1
  <2> QED BY <1>2, <2>1, <2>3, <2>4 DEF CachesAgree, KeyOf
<1> QED BY <1>1, <1>2, <1>3
        DEF CheckoutIInv, RecordsAgree, RecordedWhileDue, FormsAgree, HandlersAgree,
            PurchasesAgree, RefusedForeign, Claim

-----------------------------------------------------------------------------
(* Deliveries and the cleanup.                                             *)

\* What may still be delivered is still on record.
LEMMA StillRecorded ==
    ASSUME CheckoutIInv, NEW s \in Ours, sessions[s].state = "paid",
           now <= sessions[s].at + RetryWindow
    PROVE  s \in DOMAIN records
<1>1. /\ sessions[s].step = "handed" /\ sessions[s].at \in Nat
      /\ sessions[s].at < sessions[s].made + SessionLife + AsyncLife
      /\ sessions[s].made \in Nat /\ now \in Nat
  BY DEF CheckoutIInv, SessionsSold, Session
<1>2. ~(sessions[s].made + Retention < now)
  <2> DEFINE born == sessions[s].made
             paid == sessions[s].at
  <2>1. /\ {SessionLife, AsyncLife, RetryWindow, Retention} \subseteq Nat
        /\ SessionLife + AsyncLife + RetryWindow < Retention
    BY CheckoutAssumption
  <2> HIDE DEF born, paid
  <2>2. born \in Nat /\ paid \in Nat /\ now \in Nat
        /\ paid < born + SessionLife + AsyncLife /\ now <= paid + RetryWindow
    BY <1>1 DEF born, paid
  <2>3. ~(born + Retention < now)
    BY <2>1, <2>2
  <2> QED BY <2>3 DEF born
<1> QED BY <1>1, <1>2 DEF CheckoutIInv, RecordedWhileDue

\* Only what another integration sold can be refused.
LEMMA DeliverStep ==
    ASSUME CheckoutIInv, NEW h \in Handlers, NEW s \in DOMAIN sessions, Deliver(h, s)
    PROVE  CheckoutIInv'
<1>1. /\ sessions[s].state = "paid" /\ now <= sessions[s].at + RetryWindow
      /\ UNCHANGED <<now, sessions, records, reuse, forms, purchases>>
  BY DEF Deliver
<1>2. Ours' = Ours /\ Numbered' /\ SessionsSold'
  BY <1>1, Untouched
<1>3. ASSUME s \in Ours PROVE Corroborates(sessions[s]) /\ Agrees(s)
  <2>1. /\ sessions[s].price \in Nat /\ sessions[s].tax \in Nat
        /\ sessions[s].price = Gross(sessions[s].claim.credit, sessions[s].claim.rail)
    BY <1>3 DEF CheckoutIInv, SessionsSold, Session
  <2>2. Collected(sessions[s]) = sessions[s].price
    BY <2>1 DEF Collected
  <2>3. s \in DOMAIN records
    BY <1>1, <1>3, StillRecorded
  <2> QED BY <2>1, <2>2, <2>3 DEF Corroborates, Agrees, CheckoutIInv, RecordsAgree
<1>4. HandlersAgree'
  <2>1. CASE UNCHANGED handlers
    BY <1>1, <1>2, <2>1 DEF CheckoutIInv, HandlersAgree
  <2>2. CASE /\ Agrees(s)
             /\ Handling(h, [at |-> "crediting", session |-> s,
                             user |-> records[s].user, credit |-> records[s].credit])
    <3>1. /\ s \in Ours /\ records[s].user = sessions[s].claim.user
          /\ records[s].credit = sessions[s].claim.credit
      BY <2>2 DEF Agrees, CheckoutIInv, RecordsAgree
    <3>2. /\ DOMAIN handlers' = Handlers
          /\ handlers'[h] = [at |-> "crediting", session |-> s,
                             user |-> records[s].user, credit |-> records[s].credit]
          /\ \A g \in Handlers : g # h => handlers'[g] = handlers[g]
      BY <2>2 DEF Handling, CheckoutIInv, HandlersAgree
    <3>3. ASSUME NEW g \in Handlers, handlers'[g].at # "idle"
          PROVE  LET x == handlers'[g].session IN
                 /\ x \in Ours /\ sessions[x].state = "paid"
                 /\ now <= sessions[x].at + RetryWindow
                 /\ handlers'[g].at = "crediting" =>
                      /\ handlers'[g].user = sessions[x].claim.user
                      /\ handlers'[g].credit = sessions[x].claim.credit
      <4>1. CASE g = h
        BY <1>1, <3>1, <3>2, <4>1
      <4>2. CASE g # h
        BY <3>2, <3>3, <4>2 DEF CheckoutIInv, HandlersAgree
      <4> QED BY <4>1, <4>2
    <3> QED BY <1>1, <1>2, <3>2, <3>3 DEF HandlersAgree
  <2> QED BY <2>1, <2>2 DEF Deliver
<1>5. RefusedForeign'
  BY <1>3 DEF Deliver, CheckoutIInv, RefusedForeign, Ours
<1> QED BY <1>1, <1>2, <1>4, <1>5
        DEF CheckoutIInv, RecordsAgree, RecordedWhileDue, FormsAgree, CachesAgree,
            PurchasesAgree, KeyOf, Claim

\* What is credited is what the record of the session said.
LEMMA CreditPurchaseStep ==
    ASSUME CheckoutIInv, NEW h \in Handlers, CreditPurchase(h)
    PROVE  CheckoutIInv'
<1> DEFINE s == handlers[h].session
<1>1. /\ handlers[h].at = "crediting"
      /\ Handling(h, [at |-> "stamping", session |-> s])
      /\ purchases' = [x \in DOMAIN purchases \cup {s} |->
           IF x \in DOMAIN purchases THEN purchases[x]
           ELSE [user |-> handlers[h].user, credit |-> handlers[h].credit]]
      /\ UNCHANGED <<now, sessions, records, reuse, forms, refused>>
  BY DEF CreditPurchase
<1>2. Ours' = Ours /\ Numbered' /\ SessionsSold'
  BY <1>1, Untouched
<1>3. /\ s \in Ours /\ sessions[s].state = "paid"
      /\ now <= sessions[s].at + RetryWindow
      /\ handlers[h].user = sessions[s].claim.user
      /\ handlers[h].credit = sessions[s].claim.credit
  BY <1>1 DEF CheckoutIInv, HandlersAgree
<1>4. s \in DOMAIN records
  BY <1>3, StillRecorded
<1>5. HandlersAgree'
  <2>1. /\ DOMAIN handlers' = Handlers
        /\ handlers'[h] = [at |-> "stamping", session |-> s]
        /\ \A g \in Handlers : g # h => handlers'[g] = handlers[g]
    BY <1>1 DEF Handling, CheckoutIInv, HandlersAgree
  <2> QED BY <1>1, <1>2, <1>3, <2>1 DEF CheckoutIInv, HandlersAgree
<1>6. PurchasesAgree'
  BY <1>1, <1>2, <1>3, <1>4 DEF CheckoutIInv, PurchasesAgree
<1> QED BY <1>1, <1>2, <1>5, <1>6
        DEF CheckoutIInv, RecordsAgree, RecordedWhileDue, FormsAgree, CachesAgree,
            RefusedForeign, KeyOf, Claim

\* The marker and the answer change nothing a purchase is checked against.
LEMMA StampRecordStep ==
    ASSUME CheckoutIInv, NEW h \in Handlers, StampRecord(h)
    PROVE  CheckoutIInv'
<1> DEFINE s == handlers[h].session
<1>1. /\ handlers[h].at = "stamping" /\ Handling(h, [at |-> "idle"])
      /\ sessions' = [sessions EXCEPT ![s].acknowledged = TRUE]
      /\ UNCHANGED <<now, reuse, forms, refused, purchases>>
      /\ \/ s \in DOMAIN records /\ records' = [records EXCEPT ![s].settled = TRUE]
         \/ UNCHANGED records
  BY DEF StampRecord
<1>2. s \in Ours /\ sessions[s] \in Session
  BY <1>1 DEF CheckoutIInv, HandlersAgree, SessionsSold
<1>3. /\ DOMAIN sessions' = DOMAIN sessions
      /\ \A x \in DOMAIN sessions : x # s => sessions'[x] = sessions[x]
      /\ sessions'[s] \in Session
      /\ sessions'[s].made = sessions[s].made /\ sessions'[s].claim = sessions[s].claim
      /\ sessions'[s].price = sessions[s].price /\ sessions'[s].on = sessions[s].on
      /\ sessions'[s].step = sessions[s].step /\ sessions'[s].at = sessions[s].at
      /\ sessions'[s].state = sessions[s].state
  BY <1>1, <1>2 DEF Session, Ours
<1>4. Onward
  BY <1>2, <1>3 DEF Onward, CheckoutIInv, Numbered, SessionsSold, Ours
<1>5. Ours' = Ours /\ Numbered'
  BY <1>4, SameOurs DEF CheckoutIInv, Onward
<1>6. SessionsSold'
  <2>1. now' = now
    BY <1>1
  <2>2. ASSUME NEW x \in Ours
        PROVE  /\ sessions'[x] \in Session
               /\ sessions'[x].price = sessions[x].price
               /\ sessions'[x].claim = sessions[x].claim
               /\ sessions'[x].made = sessions[x].made
               /\ sessions'[x].state = sessions[x].state
               /\ sessions'[x].step = sessions[x].step /\ sessions'[x].at = sessions[x].at
    <3>1. CASE x = s
      BY <1>3, <3>1
    <3>2. CASE x # s
      BY <1>3, <3>2 DEF CheckoutIInv, SessionsSold, Ours
    <3> QED BY <3>1, <3>2
  <2> QED BY <1>4, <1>5, <2>1, <2>2 DEF CheckoutIInv, SessionsSold, Onward
<1>7. /\ DOMAIN records' = DOMAIN records
      /\ \A x \in DOMAIN records :
           /\ records'[x].user = records[x].user /\ records'[x].credit = records[x].credit
           /\ records'[x].price = records[x].price /\ records'[x].made = records[x].made
  <2>1. CASE UNCHANGED records
    BY <2>1
  <2>2. CASE s \in DOMAIN records /\ records' = [records EXCEPT ![s].settled = TRUE]
    <3>1. /\ DOMAIN records' = DOMAIN records
          /\ records'[s] = [records[s] EXCEPT !.settled = TRUE]
          /\ \A x \in DOMAIN records : x # s => records'[x] = records[x]
      BY <2>2
    <3>2. /\ records'[s].user = records[s].user /\ records'[s].credit = records[s].credit
          /\ records'[s].price = records[s].price /\ records'[s].made = records[s].made
      BY <3>1
    <3> QED BY <3>1, <3>2
  <2> QED BY <1>1, <2>1, <2>2
<1>8. RecordsAgree'
  BY <1>4, <1>5, <1>7 DEF CheckoutIInv, RecordsAgree, Onward
<1>9. RecordedWhileDue'
  BY <1>1, <1>3, <1>5, <1>7 DEF CheckoutIInv, RecordedWhileDue, Ours
<1>10. PurchasesAgree'
  BY <1>1, <1>4, <1>5, <1>7 DEF CheckoutIInv, PurchasesAgree, Onward
<1>11. HandlersAgree'
  <2>1. /\ DOMAIN handlers' = Handlers /\ handlers'[h].at = "idle"
        /\ \A g \in Handlers : g # h => handlers'[g] = handlers[g]
    BY <1>1 DEF Handling, CheckoutIInv, HandlersAgree
  <2> QED BY <1>1, <1>4, <1>5, <2>1 DEF CheckoutIInv, HandlersAgree, Onward
<1> QED BY <1>1, <1>4, <1>5, <1>6, <1>8, <1>9, <1>10, <1>11, OnwardKeeps
        DEF CheckoutIInv, RefusedForeign

\* A delivery forgotten.
LEMMA CrashStep ==
    ASSUME CheckoutIInv, NEW h \in Handlers, Crash(h)
    PROVE  CheckoutIInv'
<1>1. /\ Handling(h, [at |-> "idle"])
      /\ UNCHANGED <<now, sessions, records, reuse, forms, refused, purchases>>
  BY DEF Crash
<1>2. Ours' = Ours /\ Numbered' /\ SessionsSold'
  BY <1>1, Untouched
<1>3. HandlersAgree'
  BY <1>1, <1>2 DEF Handling, CheckoutIInv, HandlersAgree
<1> QED BY <1>1, <1>2, <1>3
        DEF CheckoutIInv, RecordsAgree, RecordedWhileDue, FormsAgree, CachesAgree,
            PurchasesAgree, RefusedForeign, KeyOf, Claim

\* What is deleted was never credited, and is past its time.
LEMMA SweepStep ==
    ASSUME CheckoutIInv, Sweep
    PROVE  CheckoutIInv'
<1>1. PICK gone \in SUBSET {s \in DOMAIN records : Abandoned(s)} :
        /\ records' = [s \in DOMAIN records \ gone |-> records[s]]
        /\ UNCHANGED <<now, sessions, reuse, forms, handlers, refused, purchases>>
  BY DEF Sweep
<1>2. Ours' = Ours /\ Numbered' /\ SessionsSold'
  BY <1>1, Untouched
<1>3. \A s \in gone : s \notin DOMAIN purchases /\ records[s].made + Retention < now
  BY <1>1 DEF Abandoned
<1>4. RecordsAgree'
  BY <1>1, <1>2 DEF CheckoutIInv, RecordsAgree
<1>5. RecordedWhileDue'
  <2>1. Retention \in Int
    BY CheckoutAssumption
  <2>2. \A s \in gone : sessions[s].made + Retention < now
    BY <1>1, <1>3, <2>1 DEF CheckoutIInv, RecordsAgree, SessionsSold, Session
  <2> QED BY <1>1, <1>2, <2>2 DEF CheckoutIInv, RecordedWhileDue
<1>6. PurchasesAgree'
  BY <1>1, <1>2, <1>3 DEF CheckoutIInv, PurchasesAgree
<1> QED BY <1>1, <1>2, <1>4, <1>5, <1>6
        DEF CheckoutIInv, FormsAgree, CachesAgree, HandlersAgree, RefusedForeign, KeyOf, Claim

-----------------------------------------------------------------------------
(* The invariant, and what it says of purchases.                           *)

\* At first there is nothing but a session of another integration.
LEMMA InitIInv == CheckoutInit => CheckoutIInv
<1> SUFFICES ASSUME CheckoutInit PROVE CheckoutIInv
  OBVIOUS
<1>1. DOMAIN sessions = {Elsewhere} /\ Ours = {}
  BY DEF CheckoutInit, Ours
<1>2. sessions[Elsewhere].step = "handed" /\ sessions[Elsewhere].state = "paid"
  BY DEF CheckoutInit, Foreign
<1>3. Cardinality({}) = 0
  BY FS_EmptySet
<1>4. Cardinality(Ours) = 0 /\ Ours = 1..0
  BY <1>1, <1>3
<1>5. Numbered
  BY <1>1, <1>4 DEF Numbered
<1> QED BY <1>1, <1>2, <1>5
        DEF CheckoutInit, CheckoutIInv, SessionsSold, RecordsAgree, RecordedWhileDue, FormsAgree,
            CachesAgree, HandlersAgree, PurchasesAgree, RefusedForeign

LEMMA NextIInv == CheckoutIInv /\ [CheckoutNext]_checkoutVars => CheckoutIInv'
<1> SUFFICES ASSUME CheckoutIInv, [CheckoutNext]_checkoutVars PROVE CheckoutIInv'
  OBVIOUS
<1>1. CASE Tick
  BY <1>1, TickStep
<1>2. ASSUME NEW s \in DOMAIN sessions, Pay(s) \/ Collect(s) \/ Record(s) \/ HandOver(s)
      PROVE  CheckoutIInv'
  BY <1>2, PayStep, CollectStep, RecordStep, HandOverStep
<1>3. ASSUME NEW i \in Instances, NEW user \in Buyers, NEW rail \in Rails,
             NEW credit \in Credits,
             Reuse(i, user, rail, credit) \/ Create(i, user, rail, credit)
      PROVE  CheckoutIInv'
  BY <1>3, ReuseStep, CreateStep
<1>4. ASSUME NEW i \in Instances, NEW s \in DOMAIN sessions, ReadStatus(i, s)
      PROVE  CheckoutIInv'
  BY <1>4, ReadStatusStep
<1>5. ASSUME NEW h \in Handlers, NEW s \in DOMAIN sessions, Deliver(h, s)
      PROVE  CheckoutIInv'
  BY <1>5, DeliverStep
<1>6. ASSUME NEW h \in Handlers, CreditPurchase(h) \/ StampRecord(h) \/ Crash(h)
      PROVE  CheckoutIInv'
  BY <1>6, CreditPurchaseStep, StampRecordStep, CrashStep
<1>7. CASE Sweep
  BY <1>7, SweepStep
<1>8. CASE UNCHANGED checkoutVars
  <2>1. Ours' = Ours /\ Numbered' /\ SessionsSold'
    BY <1>8, Untouched DEF checkoutVars
  <2> QED BY <1>8, <2>1
          DEF checkoutVars, CheckoutIInv, RecordsAgree, RecordedWhileDue, FormsAgree, CachesAgree,
              HandlersAgree, PurchasesAgree, RefusedForeign, KeyOf, Claim
<1> QED BY <1>1, <1>2, <1>3, <1>4, <1>5, <1>6, <1>7, <1>8 DEF CheckoutNext

\* Every session, record, form, cached entry, delivery and purchase agrees with
\* what was sold (create_checkout, stripe_webhook, sweep_expired_checkout_intents).
THEOREM CheckoutInvariant == CheckoutSpec => []CheckoutIInv
<1> QED BY InitIInv, NextIInv, PTL DEF CheckoutSpec

\* A purchase is credited to the buyer who was handed its form, as asked for and at
\* its price, and its record outlives it (credit_purchase).
THEOREM CreditedAsAsked == CheckoutSpec => []CreditedAsSold
<1>1. CheckoutIInv => CreditedAsSold
  <2> SUFFICES ASSUME CheckoutIInv, NEW s \in DOMAIN purchases
               PROVE  /\ s \in Ours /\ sessions[s].state = "paid" /\ s \in DOMAIN records
                      /\ \A form \in {f \in forms : f.session = s} :
                           /\ purchases[s] = [user |-> form.user, credit |-> form.credit]
                           /\ sessions[s].price = Gross(form.credit, form.rail)
    BY DEF CreditedAsSold
  <2>1. /\ s \in Ours /\ sessions[s].state = "paid" /\ s \in DOMAIN records
        /\ purchases[s] =
             [user |-> sessions[s].claim.user, credit |-> sessions[s].claim.credit]
        /\ sessions[s].price = Gross(sessions[s].claim.credit, sessions[s].claim.rail)
    BY DEF CheckoutIInv, PurchasesAgree, SessionsSold
  <2>2. ASSUME NEW form \in forms, form.session = s
        PROVE  /\ sessions[s].claim.user = form.user
               /\ sessions[s].claim.credit = form.credit
               /\ sessions[s].claim.rail = form.rail
    <3>1. sessions[s].claim = Claim(form.user, form.credit, form.rail)
      BY <2>2 DEF CheckoutIInv, FormsAgree
    <3> QED BY <3>1 DEF Claim
  <2> QED BY <2>1, <2>2
<1> QED BY <1>1, CheckoutInvariant, PTL

\* No event of a purchase this router sold is refused while Stripe may deliver it:
\* the windows are in the order migration 0022 derives its floor from.
THEOREM NothingSoldIsRefused == CheckoutSpec => []SoldIsHonoured
<1>1. CheckoutIInv => SoldIsHonoured
  BY DEF CheckoutIInv, RefusedForeign, SoldIsHonoured, Ours
<1> QED BY <1>1, CheckoutInvariant, PTL

-----------------------------------------------------------------------------
(* Autopay.                                                                  *)

\* A sweep about to settle a charge, now or after attaching it, holds an
\* answer that Stripe collected it.
Knows(task) ==
    \A k \in Keys :
        (/\ task.key = {k}
         /\ \/ task.at = "settling"
            \/ task.at = "attaching" /\ task.answer = "succeeded")
            => Charged(k)

AutopayIInv == /\ AutopayTypeOK
        /\ CreditedOnce
        /\ \A s \in Sweeps : Knows(job[s])

-----------------------------------------------------------------------------
(* The operators the actions are built from.                               *)

LEMMA IdleIsTask == Idle \in Task
  BY DEF Idle, Task

\* A sweep that moves on keeps its key, its card and its answer.
LEMMA DoesStep ==
    ASSUME AutopayTypeOK, NEW s \in Sweeps,
           NEW step \in {"picked", "listing", "pricing", "guarding", "posting",
                         "attaching", "settling", "failing", "dropping",
                         "asking"},
           Does(s, step)
    PROVE  /\ job' \in [Sweeps -> Task]
           /\ \A t \in Sweeps \ {s} : job'[t] = job[t]
           /\ job'[s].at = step /\ job'[s].key = job[s].key
<1>1. job[s] \in Task
  BY DEF AutopayTypeOK
<1>2. [job[s] EXCEPT !.at = step] \in Task
  BY <1>1 DEF Task
<1>3. job' = [job EXCEPT ![s] = [job[s] EXCEPT !.at = step]]
  BY DEF Does, AutopayTypeOK
<1>4. job'[s] = [job[s] EXCEPT !.at = step]
  BY <1>3 DEF AutopayTypeOK
<1>5. job'[s].at = step /\ job'[s].key = job[s].key
  BY <1>1, <1>4 DEF Task
<1> QED BY <1>2, <1>3, <1>5 DEF AutopayTypeOK

\* A sweep that gives its row up holds nothing.
LEMMA EndsStep ==
    ASSUME AutopayTypeOK, NEW s \in Sweeps, Ends(s)
    PROVE  /\ job' \in [Sweeps -> Task]
           /\ \A t \in Sweeps \ {s} : job'[t] = job[t]
           /\ job'[s].at = "idle"
  BY IdleIsTask DEF AutopayTypeOK, Ends, Idle

\* A strike keeps the account well typed.
LEMMA StrikeStep ==
    ASSUME AutopayTypeOK, Strike
    PROVE  /\ armed' \in BOOLEAN /\ barred' \in BOOLEAN /\ low' \in BOOLEAN
           /\ strikes' \in 0..MaxStrikes
<1>1. strikes \in 0..MaxStrikes /\ MaxStrikes \in Nat \ {0}
  BY AutopayAssumption DEF AutopayTypeOK
<1>2. strikes' \in 0..MaxStrikes
  BY <1>1 DEF Strike
<1> QED BY <1>2 DEF Strike, AutopayTypeOK

-----------------------------------------------------------------------------
(* Steps that credit nothing, and the steps that settle.                   *)

\* What an action that credits nothing must keep: charges stay collected, no
\* row becomes or stops being resolved, and no sweep learns what is not so.
LEMMA QuietStep ==
    ASSUME AutopayIInv, AutopayTypeOK', UNCHANGED credits,
           \A k \in Keys : Charged(k) => Charged(k)',
           \A k \in Keys : \/ intent'[k] = intent[k]
                           \/ ~Resolved(k) /\ ~Resolved(k)',
           \A s \in Sweeps : job'[s] = job[s] \/ Knows(job[s])'
    PROVE  AutopayIInv'
<1>1. CreditedOnce'
  BY DEF AutopayIInv, CreditedOnce, Resolved
<1>2. ASSUME NEW s \in Sweeps PROVE Knows(job[s])'
  <2>1. CASE job'[s] = job[s]
    BY <2>1 DEF AutopayIInv, Knows
  <2> QED BY <2>1
<1> QED BY <1>1, <1>2 DEF AutopayIInv

\* settle_autopay_intent on a charge that was collected credits it if nobody
\* has, and otherwise changes nothing of it.
LEMMA SettleStep ==
    ASSUME AutopayIInv, NEW k \in Keys, Charged(k), Settle(k), UNCHANGED charge
    PROVE  /\ CreditedOnce'
           /\ intent' \in [Keys -> {"none", "pending", "succeeded", "failed",
                                    "withheld"}]
           /\ credits' \in [Keys -> Nat]
           /\ armed' \in BOOLEAN /\ barred' \in BOOLEAN /\ low' \in BOOLEAN
           /\ strikes' \in 0..MaxStrikes
           /\ claim' = claim /\ taxed' = taxed
<1>0. AutopayTypeOK /\ CreditedOnce
  BY DEF AutopayIInv
<1>1. /\ claim' = claim /\ taxed' = taxed
      /\ armed' \in BOOLEAN /\ barred' \in BOOLEAN /\ low' \in BOOLEAN
  BY <1>0 DEF Settle, userRow, AutopayTypeOK
<1>2. strikes' \in 0..MaxStrikes
  <2>1. 0 \in 0..MaxStrikes
    BY AutopayAssumption
  <2> QED BY <1>0, <2>1 DEF Settle, userRow, AutopayTypeOK
<1>3. CASE /\ intent[k] \in {"none", "pending"}
           /\ intent' = [intent EXCEPT ![k] = "succeeded"]
           /\ credits' = [credits EXCEPT ![k] = @ + 1]
  <2>1. credits[k] = 0
    BY <1>0, <1>3 DEF CreditedOnce
  <2>2. credits' = [credits EXCEPT ![k] = 1]
    BY <1>0, <1>3, <2>1 DEF AutopayTypeOK
  <2>3. CreditedOnce'
    BY <1>0, <1>3, <2>2 DEF CreditedOnce, Resolved, Charged, AutopayTypeOK
  <2> QED BY <1>0, <1>1, <1>2, <1>3, <2>2, <2>3 DEF AutopayTypeOK
<1>4. CASE /\ intent[k] \in {"none", "pending"}
           /\ intent' = [intent EXCEPT ![k] = "withheld"]
           /\ UNCHANGED credits
  <2>1. CreditedOnce'
    BY <1>0, <1>4 DEF CreditedOnce, Resolved, Charged, AutopayTypeOK
  <2> QED BY <1>0, <1>1, <1>2, <1>4, <2>1 DEF AutopayTypeOK
<1>5. CASE UNCHANGED <<intent, credits>>
  <2>1. CreditedOnce'
    BY <1>0, <1>5 DEF CreditedOnce, Resolved, Charged
  <2> QED BY <1>0, <1>1, <1>2, <1>5, <2>1 DEF AutopayTypeOK
<1> QED BY <1>3, <1>4, <1>5 DEF Settle

\* fail_autopay_intent on an intent row touches no row that was resolved.
LEMMA FailIntentStep ==
    ASSUME AutopayTypeOK, NEW k \in Keys, FailIntent(k)
    PROVE  /\ intent' \in [Keys -> {"none", "pending", "succeeded", "failed",
                                    "withheld"}]
           /\ armed' \in BOOLEAN /\ barred' \in BOOLEAN /\ low' \in BOOLEAN
           /\ strikes' \in 0..MaxStrikes
           /\ claim' = claim /\ taxed' = taxed
           /\ \A q \in Keys : \/ intent'[q] = intent[q]
                              \/ ~Resolved(q) /\ ~Resolved(q)'
<1>1. CASE /\ intent[k] = "pending" /\ Strike
           /\ intent' = [intent EXCEPT ![k] = "failed"]
  BY <1>1, StrikeStep DEF FailIntent, Resolved, AutopayTypeOK
<1>2. CASE UNCHANGED <<intent, userRow>>
  BY <1>2 DEF FailIntent, userRow, AutopayTypeOK
<1> QED BY <1>1, <1>2 DEF FailIntent

\* The same for a claim row, which is never the one that is credited.
LEMMA FailClaimStep ==
    ASSUME AutopayTypeOK, NEW k \in Keys, FailClaim(k)
    PROVE  /\ claim' \in [Keys -> {"none", "pending", "failed", "gone"}]
           /\ armed' \in BOOLEAN /\ barred' \in BOOLEAN /\ low' \in BOOLEAN
           /\ strikes' \in 0..MaxStrikes
           /\ intent' = intent /\ taxed' = taxed
<1>1. CASE /\ claim[k] = "pending" /\ Strike
           /\ claim' = [claim EXCEPT ![k] = "failed"]
  BY <1>1, StrikeStep DEF FailClaim, AutopayTypeOK
<1>2. CASE UNCHANGED <<claim, userRow>>
  BY <1>2 DEF FailClaim, userRow, AutopayTypeOK
<1> QED BY <1>1, <1>2 DEF FailClaim

\* A sweep that is neither settling nor about to knows nothing.
LEMMA Unknowing ==
    ASSUME NEW s \in Sweeps, job'[s].at \notin {"settling", "attaching"}
    PROVE  Knows(job[s])'
  BY DEF Knows

\* A step that only moves one sweep on.
LEMMA TaskStep ==
    ASSUME AutopayIInv, NEW s \in Sweeps,
           UNCHANGED <<userRow, stripe, rows, age, hook, credits>>,
           job' \in [Sweeps -> Task],
           \A t \in Sweeps \ {s} : job'[t] = job[t],
           Knows(job[s])'
    PROVE  AutopayIInv'
<1>1. AutopayTypeOK'
  BY DEF AutopayIInv, AutopayTypeOK, userRow, stripe, rows
<1> QED BY <1>1, QuietStep DEF Charged, stripe, rows

-----------------------------------------------------------------------------
(* Every step keeps the invariant.                                         *)

LEMMA AutopayInitIInv == AutopayInit => AutopayIInv
<1> SUFFICES ASSUME AutopayInit PROVE AutopayIInv
  OBVIOUS
<1>1. AutopayTypeOK
  <2>1. 0 \in 0..MaxStrikes
    BY AutopayAssumption
  <2>2. /\ armed \in BOOLEAN /\ barred \in BOOLEAN /\ low \in BOOLEAN
        /\ strikes \in 0..MaxStrikes /\ card \in Cards \cup {NoCard}
    BY <2>1 DEF AutopayInit
  <2>3. steady \in BOOLEAN /\ (~steady => CardsMove)
    <3>1. CASE CardsMove
      BY <3>1 DEF AutopayInit
    <3>2. CASE ~CardsMove
      BY <3>2 DEF AutopayInit
    <3> QED BY <3>1, <3>2
  <2>4. job \in [Sweeps -> Task]
    BY IdleIsTask DEF AutopayInit
  <2> QED BY <2>2, <2>3, <2>4 DEF AutopayInit, AutopayTypeOK
<1>2. CreditedOnce
  BY DEF AutopayInit, CreditedOnce, Resolved
<1>3. \A s \in Sweeps : Knows(job[s])
  BY DEF AutopayInit, Knows, Idle
<1> QED BY <1>1, <1>2, <1>3 DEF AutopayIInv

\* Where a sweep goes with an answer: what it takes on as "succeeded" is so.
LEMMA AnsweredStep ==
    ASSUME AutopayTypeOK, NEW s \in Sweeps, NEW k \in Keys, At(s, "posting", k),
           NEW answer \in {"lost", "refused", "open", "succeeded", "declined"},
           Replied(s, answer), answer = "succeeded" => Charged(k)'
    PROVE  /\ job' \in [Sweeps -> Task]
           /\ \A t \in Sweeps \ {s} : job'[t] = job[t]
           /\ Knows(job[s])'
<1>1. CASE answer = "lost"
  BY <1>1, EndsStep, Unknowing DEF Replied
<1>2. CASE answer = "refused"
  BY <1>2, DoesStep, Unknowing DEF Replied
<1>3. CASE answer \in {"open", "succeeded", "declined"}
  <2>1. job' = [job EXCEPT ![s].at = "attaching", ![s].answer = answer]
    BY <1>3 DEF Replied
  <2>2. job[s] \in Task /\ job[s].key = {k}
    BY DEF At, AutopayTypeOK
  <2>3. [job[s] EXCEPT !.at = "attaching", !.answer = answer] \in Task
    BY <1>3, <2>2 DEF Task
  <2>4. job' = [job EXCEPT ![s] = [job[s] EXCEPT !.at = "attaching",
                                                 !.answer = answer]]
    BY <2>1 DEF AutopayTypeOK
  <2>5. job'[s] = [job[s] EXCEPT !.at = "attaching", !.answer = answer]
    BY <2>4 DEF AutopayTypeOK
  <2>6. /\ job'[s].at = "attaching" /\ job'[s].answer = answer
        /\ job'[s].key = {k}
    BY <2>2, <2>5 DEF Task
  <2>7. Knows(job[s])'
    BY <2>6 DEF Knows
  <2> QED BY <2>3, <2>4, <2>7 DEF AutopayTypeOK
<1> QED BY <1>1, <1>2, <1>3

\* The sweep claims, reads and decides.
LEMMA SweepReads ==
    ASSUME AutopayIInv, NEW s \in Sweeps, NEW k \in Keys,
           \/ ClaimAttempt(s, k) \/ PickClaim(s, k) \/ PickIntent(s, k)
           \/ CheckArmed(s, k) \/ ListCards(s, k) \/ Price(s, k)
           \/ Guard(s, k) \/ AskStripe(s, k)
    PROVE  AutopayIInv'
<1>0. AutopayTypeOK
  BY DEF AutopayIInv
<1>1. ASSUME NEW step \in {"picked", "listing", "asking"},
             job' = [job EXCEPT ![s] = [Idle EXCEPT !.at = step, !.key = {k}]]
      PROVE  /\ job' \in [Sweeps -> Task]
             /\ \A t \in Sweeps \ {s} : job'[t] = job[t]
             /\ Knows(job[s])'
  <2>1. [Idle EXCEPT !.at = step, !.key = {k}] \in Task
    BY DEF Idle, Task
  <2>2. job'[s].at = step
    BY <1>0, <1>1 DEF AutopayTypeOK, Idle
  <2> QED BY <1>0, <1>1, <2>1, <2>2, Unknowing DEF AutopayTypeOK
<1>2. CASE ClaimAttempt(s, k)
  <2>1. /\ job' \in [Sweeps -> Task]
        /\ \A t \in Sweeps \ {s} : job'[t] = job[t]
        /\ Knows(job[s])'
    BY <1>1, <1>2 DEF ClaimAttempt
  <2>2. UNCHANGED <<userRow, stripe, intent, taxed, age, hook, credits>>
    BY <1>2 DEF ClaimAttempt
  <2>3. claim' \in [Keys -> {"none", "pending", "failed", "gone"}]
    BY <1>0, <1>2 DEF ClaimAttempt, AutopayTypeOK
  <2>4. AutopayTypeOK'
    BY <1>0, <2>1, <2>2, <2>3 DEF AutopayTypeOK, userRow, stripe
  <2> QED BY <2>1, <2>2, <2>4, QuietStep DEF Charged, stripe
<1>3. CASE PickClaim(s, k) \/ PickIntent(s, k)
  BY <1>1, <1>3, TaskStep DEF PickClaim, PickIntent
<1>4. CASE CheckArmed(s, k)
  <2>1. Does(s, "listing") \/ Ends(s)
    BY <1>4 DEF CheckArmed
  <2> QED BY <1>0, <1>4, <2>1, DoesStep, EndsStep, Unknowing, TaskStep
          DEF CheckArmed
<1>5. CASE ListCards(s, k)
  <2>1. PICK step \in {"dropping", "pricing"} :
           job' = [job EXCEPT ![s].at = step, ![s].card = card]
    BY <1>5 DEF ListCards
  <2>2. job[s] \in Task /\ card \in Cards \cup {NoCard}
    BY <1>0 DEF AutopayTypeOK
  <2>3. [job[s] EXCEPT !.at = step, !.card = card] \in Task
    BY <2>2 DEF Task
  <2>4. job' = [job EXCEPT ![s] = [job[s] EXCEPT !.at = step, !.card = card]]
    BY <1>0, <2>1 DEF AutopayTypeOK
  <2>5. job'[s] = [job[s] EXCEPT !.at = step, !.card = card]
    BY <1>0, <2>4 DEF AutopayTypeOK
  <2>6. job'[s].at = step
    BY <2>2, <2>5 DEF Task
  <2>7. Knows(job[s])'
    BY <2>6, Unknowing
  <2>8. /\ job' \in [Sweeps -> Task]
        /\ \A t \in Sweeps \ {s} : job'[t] = job[t]
    BY <1>0, <2>3, <2>4 DEF AutopayTypeOK
  <2>9. UNCHANGED <<userRow, stripe, rows, age, hook, credits>>
    BY <1>5 DEF ListCards
  <2> QED BY <2>7, <2>8, <2>9, TaskStep
<1>6. CASE Price(s, k)
  <2>1. Does(s, "guarding") \/ Ends(s)
    BY <1>6 DEF Price
  <2>2. taxed' \in [Keys -> BOOLEAN]
    BY <1>0, <1>6 DEF Price, AutopayTypeOK
  <2>3. UNCHANGED <<userRow, stripe, claim, intent, age, hook, credits>>
    BY <1>6 DEF Price
  <2>4. /\ job' \in [Sweeps -> Task]
        /\ \A t \in Sweeps \ {s} : job'[t] = job[t]
        /\ Knows(job[s])'
    BY <1>0, <2>1, DoesStep, EndsStep, Unknowing
  <2>5. AutopayTypeOK'
    BY <1>0, <2>2, <2>3, <2>4 DEF AutopayTypeOK, userRow, stripe
  <2> QED BY <2>3, <2>4, <2>5, QuietStep DEF Charged, stripe
<1>7. CASE Guard(s, k)
  <2>1. Does(s, "posting") \/ Ends(s)
    BY <1>7 DEF Guard
  <2> QED BY <1>0, <1>7, <2>1, DoesStep, EndsStep, Unknowing, TaskStep
          DEF Guard
<1>8. CASE AskStripe(s, k)
  <2>1. CASE charge[k] = "succeeded"
    <3>1. Does(s, "settling") /\ job[s].key = {k} /\ UNCHANGED charge
      BY <1>8, <2>1 DEF AskStripe, At, stripe
    <3>2. Knows(job[s])'
      BY <1>0, <2>1, <3>1, DoesStep DEF Knows, Charged
    <3> QED BY <1>0, <1>8, <3>1, <3>2, DoesStep, TaskStep DEF AskStripe
  <2>2. CASE charge[k] # "succeeded"
    <3>1. Ends(s) \/ Does(s, "failing")
      BY <1>8, <2>2 DEF AskStripe
    <3> QED BY <1>0, <1>8, <3>1, DoesStep, EndsStep, Unknowing, TaskStep
            DEF AskStripe
  <2> QED BY <2>1, <2>2
<1> QED BY <1>2, <1>3, <1>4, <1>5, <1>6, <1>7, <1>8

\* The request that moves money, and the one that repeats it.
LEMMA SweepPosts ==
    ASSUME AutopayIInv, NEW s \in Sweeps, NEW k \in Keys,
           PostNew(s, k) \/ PostAgain(s, k)
    PROVE  AutopayIInv'
<1>0. AutopayTypeOK
  BY DEF AutopayIInv
<1>1. CASE PostNew(s, k)
  <2>1. At(s, "posting", k) /\ charge[k] = "none"
    BY <1>1 DEF PostNew
  <2>2. PICK answer \in {"lost", "refused", "open", "succeeded", "declined"} :
           /\ Replied(s, answer)
           /\ answer = "succeeded" => Charged(k)'
    <3>1. CASE \E outcome \in {"processing", "succeeded", "declined"} :
                  /\ charge' = [charge EXCEPT ![k] = outcome]
                  /\ \E answer \in {"lost", "open"}
                                   \cup ({outcome} \ {"processing"}) :
                        Replied(s, answer)
      BY <1>0, <3>1 DEF Charged, AutopayTypeOK
    <3>2. CASE Replied(s, "lost") \/ Replied(s, "refused")
      BY <3>2
    <3> QED BY <1>1, <3>1, <3>2 DEF PostNew
  <2>3. /\ job' \in [Sweeps -> Task]
        /\ \A t \in Sweeps \ {s} : job'[t] = job[t]
        /\ Knows(job[s])'
    BY <1>0, <2>1, <2>2, AnsweredStep
  <2>4. /\ charge' \in [Keys -> {"none", "processing", "succeeded", "declined"}]
        /\ paidWith' \in [Keys -> Cards \cup {NoCard}]
        /\ hook' \in [Keys -> {"none", "due", "recorded", "acked"}]
        /\ \A q \in Keys \ {k} : charge'[q] = charge[q]
    <3>1. job[s].card \in Cards \cup {NoCard}
      BY <1>0 DEF AutopayTypeOK, Task
    <3>2. CASE UNCHANGED <<charge, paidWith, hook>>
      BY <1>0, <3>2 DEF AutopayTypeOK
    <3>3. ASSUME NEW outcome \in {"processing", "succeeded", "declined"},
                 charge' = [charge EXCEPT ![k] = outcome],
                 paidWith' = [paidWith EXCEPT ![k] = job[s].card],
                 hook' \in {hook, [hook EXCEPT ![k] = "due"]}
          PROVE  <2>4
      BY <1>0, <3>1, <3>3 DEF AutopayTypeOK
    <3> QED BY <1>1, <3>2, <3>3 DEF PostNew
  <2>5. UNCHANGED <<card, steady, userRow, rows, age, credits>>
    BY <1>1 DEF PostNew
  <2>6. AutopayTypeOK'
    BY <1>0, <2>3, <2>4, <2>5 DEF AutopayTypeOK, userRow, rows
  <2>7. \A q \in Keys : Charged(q) => Charged(q)'
    BY <2>1, <2>4 DEF Charged
  <2> QED BY <2>3, <2>5, <2>6, <2>7, QuietStep DEF rows
<1>2. CASE PostAgain(s, k)
  <2>1. At(s, "posting", k) /\ charge[k] # "none" /\ UNCHANGED charge
    BY <1>2 DEF PostAgain, stripe
  <2>2. PICK answer \in {"lost", "refused", "open", "succeeded", "declined"} :
           /\ Replied(s, answer)
           /\ answer = "succeeded" => Charged(k)'
    <3>1. charge[k] \in {"processing", "succeeded", "declined"}
      BY <1>0, <2>1 DEF AutopayTypeOK
    <3> QED BY <1>2, <2>1, <3>1 DEF PostAgain, Charged
  <2>3. /\ job' \in [Sweeps -> Task]
        /\ \A t \in Sweeps \ {s} : job'[t] = job[t]
        /\ Knows(job[s])'
    BY <1>0, <2>1, <2>2, AnsweredStep
  <2> QED BY <1>2, <2>3, TaskStep DEF PostAgain
<1> QED BY <1>1, <1>2

\* What a sweep does with the row once it has an answer.
LEMMA SweepActs ==
    ASSUME AutopayIInv, NEW s \in Sweeps, NEW k \in Keys,
           \/ AttachAnswer(s, k) \/ SettleAnswer(s, k)
           \/ FailAnswer(s, k) \/ DropClaim(s, k)
    PROVE  AutopayIInv'
<1>0. AutopayTypeOK
  BY DEF AutopayIInv
<1>1. CASE AttachAnswer(s, k)
  <2>1. /\ job' \in [Sweeps -> Task]
        /\ \A t \in Sweeps \ {s} : job'[t] = job[t]
        /\ Knows(job[s])'
    <3>1. At(s, "attaching", k) /\ UNCHANGED charge
      BY <1>1 DEF AttachAnswer, stripe
    <3>2. CASE job[s].answer = "succeeded"
      <4>1. Does(s, "settling")
        BY <1>1, <3>2 DEF AttachAnswer
      <4>2. Charged(k)
        BY <3>1, <3>2 DEF AutopayIInv, Knows, At
      <4>3. Knows(job[s])'
        BY <1>0, <3>1, <4>1, <4>2, DoesStep DEF Knows, Charged, At
      <4> QED BY <1>0, <4>1, <4>3, DoesStep
    <3>3. CASE job[s].answer # "succeeded"
      <4>1. Does(s, "failing") \/ Ends(s)
        BY <1>1, <3>3 DEF AttachAnswer
      <4> QED BY <1>0, <4>1, DoesStep, EndsStep, Unknowing
    <3> QED BY <3>2, <3>3
  <2>2. UNCHANGED <<userRow, stripe, taxed, age, hook, credits>>
    BY <1>1 DEF AttachAnswer, Attach
  <2>3. /\ claim' \in [Keys -> {"none", "pending", "failed", "gone"}]
        /\ intent' \in [Keys -> {"none", "pending", "succeeded", "failed",
                                 "withheld"}]
        /\ \A q \in Keys : \/ intent'[q] = intent[q]
                           \/ ~Resolved(q) /\ ~Resolved(q)'
    BY <1>0, <1>1 DEF AttachAnswer, Attach, Resolved, AutopayTypeOK
  <2>4. AutopayTypeOK'
    BY <1>0, <2>1, <2>2, <2>3 DEF AutopayTypeOK, userRow, stripe
  <2> QED BY <2>1, <2>2, <2>3, <2>4, QuietStep DEF Charged, stripe
<1>2. CASE SettleAnswer(s, k)
  <2>1. At(s, "settling", k) /\ Ends(s) /\ UNCHANGED <<stripe, age, hook>>
    BY <1>2 DEF SettleAnswer
  <2>2. /\ job' \in [Sweeps -> Task]
        /\ \A t \in Sweeps \ {s} : job'[t] = job[t]
        /\ Knows(job[s])'
    BY <1>0, <2>1, EndsStep, Unknowing
  <2>3. CASE Settle(k)
    <3>1. Charged(k)
      BY <2>1 DEF AutopayIInv, Knows, At
    <3>2. UNCHANGED charge
      BY <2>1 DEF stripe
    <3>3. /\ CreditedOnce'
          /\ intent' \in [Keys -> {"none", "pending", "succeeded", "failed",
                                   "withheld"}]
          /\ credits' \in [Keys -> Nat]
          /\ armed' \in BOOLEAN /\ barred' \in BOOLEAN /\ low' \in BOOLEAN
          /\ strikes' \in 0..MaxStrikes
          /\ claim' = claim /\ taxed' = taxed
      BY <2>3, <3>1, <3>2, SettleStep
    <3>4. AutopayTypeOK'
      BY <1>0, <2>1, <2>2, <3>3 DEF AutopayTypeOK, stripe
    <3>5. ASSUME NEW t \in Sweeps PROVE Knows(job[t])'
      BY <2>2, <3>2 DEF AutopayIInv, Knows, Charged
    <3> QED BY <3>3, <3>4, <3>5 DEF AutopayIInv
  <2>4. CASE UNCHANGED <<rows, userRow, credits>>
    BY <2>1, <2>2, <2>4, TaskStep
  <2> QED BY <1>2, <2>3, <2>4 DEF SettleAnswer
<1>3. CASE FailAnswer(s, k)
  <2>1. /\ job' \in [Sweeps -> Task]
        /\ \A t \in Sweeps \ {s} : job'[t] = job[t]
        /\ Knows(job[s])'
    BY <1>0, <1>3, EndsStep, Unknowing DEF FailAnswer
  <2>2. FailIntent(k) /\ UNCHANGED <<stripe, age, hook, credits>>
    BY <1>3 DEF FailAnswer
  <2>3. AutopayTypeOK'
    BY <1>0, <2>1, <2>2, FailIntentStep DEF AutopayTypeOK, stripe
  <2> QED BY <1>0, <2>1, <2>2, <2>3, FailIntentStep, QuietStep
          DEF Charged, stripe
<1>4. CASE DropClaim(s, k)
  <2>1. /\ job' \in [Sweeps -> Task]
        /\ \A t \in Sweeps \ {s} : job'[t] = job[t]
        /\ Knows(job[s])'
    BY <1>0, <1>4, EndsStep, Unknowing DEF DropClaim
  <2>2. FailClaim(k) /\ UNCHANGED <<stripe, age, hook, credits>>
    BY <1>4 DEF DropClaim
  <2>3. AutopayTypeOK'
    BY <1>0, <2>1, <2>2, FailClaimStep DEF AutopayTypeOK, stripe
  <2> QED BY <1>0, <2>1, <2>2, <2>3, FailClaimStep, QuietStep
          DEF Charged, stripe
<1> QED BY <1>1, <1>2, <1>3, <1>4

\* The webhook settles only what Stripe collected.
LEMMA HookStep ==
    ASSUME AutopayIInv, NEW k \in Keys,
           HookSettles(k) \/ HookRecords(k) \/ HookFails(k) \/ HookAgain(k)
    PROVE  AutopayIInv'
<1>0. AutopayTypeOK
  BY DEF AutopayIInv
<1>1. hook' \in [Keys -> {"none", "due", "recorded", "acked"}]
  BY <1>0 DEF HookSettles, HookRecords, HookFails, HookAgain, AutopayTypeOK
<1>2. CASE HookSettles(k)
  <2>1. /\ Charged(k) /\ Settle(k) /\ UNCHANGED <<stripe, age, job>>
    BY <1>2 DEF HookSettles, Charged
  <2>2. /\ CreditedOnce'
        /\ intent' \in [Keys -> {"none", "pending", "succeeded", "failed",
                                 "withheld"}]
        /\ credits' \in [Keys -> Nat]
        /\ armed' \in BOOLEAN /\ barred' \in BOOLEAN /\ low' \in BOOLEAN
        /\ strikes' \in 0..MaxStrikes
        /\ claim' = claim /\ taxed' = taxed
    BY <2>1, SettleStep DEF stripe
  <2>3. AutopayTypeOK'
    BY <1>0, <1>1, <2>1, <2>2 DEF AutopayTypeOK, stripe
  <2>4. ASSUME NEW t \in Sweeps PROVE Knows(job[t])'
    BY <2>1 DEF AutopayIInv, Knows, Charged, stripe
  <2> QED BY <2>2, <2>3, <2>4 DEF AutopayIInv
<1>3. CASE HookRecords(k)
  <2>1. UNCHANGED <<userRow, stripe, claim, taxed, credits, job>>
    BY <1>3 DEF HookRecords
  <2>2. /\ intent' \in [Keys -> {"none", "pending", "succeeded", "failed",
                                 "withheld"}]
        /\ age' \in [Keys -> {"fresh", "stale", "overdue"}]
        /\ \A q \in Keys : \/ intent'[q] = intent[q]
                           \/ ~Resolved(q) /\ ~Resolved(q)'
    BY <1>0, <1>3 DEF HookRecords, Resolved, AutopayTypeOK
  <2>3. AutopayTypeOK'
    BY <1>0, <1>1, <2>1, <2>2 DEF AutopayTypeOK, userRow, stripe
  <2> QED BY <2>1, <2>2, <2>3, QuietStep DEF Charged, stripe
<1>4. CASE HookFails(k)
  <2>1. FailIntent(k) /\ UNCHANGED <<stripe, age, credits, job>>
    BY <1>4 DEF HookFails
  <2>2. AutopayTypeOK'
    BY <1>0, <1>1, <2>1, FailIntentStep DEF AutopayTypeOK, stripe
  <2> QED BY <1>0, <2>1, <2>2, FailIntentStep, QuietStep DEF Charged, stripe
<1>5. CASE HookAgain(k)
  <2>1. UNCHANGED <<userRow, stripe, rows, age, credits, job>>
    BY <1>5 DEF HookAgain
  <2>2. AutopayTypeOK'
    BY <1>0, <1>1, <2>1 DEF AutopayTypeOK, userRow, stripe, rows
  <2> QED BY <2>1, <2>2, QuietStep DEF Charged, stripe, rows
<1> QED BY <1>2, <1>3, <1>4, <1>5

\* Stripe, the customer, the operator and time credit nothing.
LEMMA OutsideStep ==
    ASSUME AutopayIInv,
           \/ \E k \in Keys : ChargeEnds(k) \/ GrowsOld(k)
           \/ SaveCard \/ PutAutopay \/ Bar \/ RunsLow \/ UNCHANGED autopayVars
    PROVE  AutopayIInv'
<1>0. AutopayTypeOK
  BY DEF AutopayIInv
<1>1. UNCHANGED <<claim, intent, taxed, credits, job>>
  BY DEF ChargeEnds, GrowsOld, SaveCard, PutAutopay, Bar, RunsLow, autopayVars, rows
<1>2. ASSUME NEW k \in Keys, ChargeEnds(k) PROVE AutopayIInv'
  <2>1. /\ charge' \in [Keys -> {"none", "processing", "succeeded", "declined"}]
        /\ hook' \in [Keys -> {"none", "due", "recorded", "acked"}]
        /\ \A q \in Keys : Charged(q) => Charged(q)'
    BY <1>0, <1>2 DEF ChargeEnds, Charged, AutopayTypeOK
  <2>2. AutopayTypeOK'
    BY <1>0, <1>1, <1>2, <2>1 DEF ChargeEnds, AutopayTypeOK, userRow
  <2> QED BY <1>1, <2>1, <2>2, QuietStep
<1>3. ASSUME NEW k \in Keys, GrowsOld(k) PROVE AutopayIInv'
  <2>1. AutopayTypeOK'
    BY <1>0, <1>1, <1>3 DEF GrowsOld, AutopayTypeOK, userRow, stripe
  <2> QED BY <1>1, <1>3, <2>1, QuietStep DEF GrowsOld, Charged, stripe
<1>4. CASE SaveCard
  <2>1. AutopayTypeOK'
    BY <1>0, <1>1, <1>4 DEF SaveCard, AutopayTypeOK, userRow
  <2> QED BY <1>1, <1>4, <2>1, QuietStep DEF SaveCard, Charged
<1>5. CASE PutAutopay \/ Bar \/ RunsLow
  <2>1. 0 \in 0..MaxStrikes
    BY AutopayAssumption
  <2>2. /\ armed' \in BOOLEAN /\ barred' \in BOOLEAN /\ low' \in BOOLEAN
        /\ strikes' \in 0..MaxStrikes
        /\ UNCHANGED <<stripe, age, hook>>
    BY <1>0, <1>5, <2>1 DEF PutAutopay, Bar, RunsLow, AutopayTypeOK
  <2>3. AutopayTypeOK'
    BY <1>0, <1>1, <2>2 DEF AutopayTypeOK, stripe
  <2> QED BY <1>1, <2>2, <2>3, QuietStep DEF Charged, stripe
<1>6. CASE UNCHANGED autopayVars
  <2>1. AutopayTypeOK'
    BY <1>0, <1>1, <1>6 DEF AutopayTypeOK, autopayVars, userRow, stripe
  <2> QED BY <1>1, <1>6, <2>1, QuietStep DEF Charged, autopayVars, stripe
<1> QED BY <1>2, <1>3, <1>4, <1>5, <1>6

LEMMA AutopayNextIInv == AutopayIInv /\ [AutopayNext]_autopayVars => AutopayIInv'
<1> SUFFICES ASSUME AutopayIInv, [AutopayNext]_autopayVars PROVE AutopayIInv'
  OBVIOUS
<1>1. ASSUME NEW s \in Sweeps, NEW k \in Keys, SweepOnce(s, k) PROVE AutopayIInv'
  BY <1>1, SweepReads, SweepPosts, SweepActs DEF SweepOnce
<1>2. ASSUME NEW s \in Sweeps, Abandon(s) PROVE AutopayIInv'
  BY <1>2, EndsStep, Unknowing, TaskStep DEF Abandon, AutopayIInv
<1>3. ASSUME NEW k \in Keys,
             HookSettles(k) \/ HookRecords(k) \/ HookFails(k) \/ HookAgain(k)
      PROVE  AutopayIInv'
  BY <1>3, HookStep
<1>4. CASE \/ \E k \in Keys : ChargeEnds(k) \/ GrowsOld(k)
           \/ SaveCard \/ PutAutopay \/ Bar \/ RunsLow \/ UNCHANGED autopayVars
  BY <1>4, OutsideStep
<1> QED BY <1>1, <1>2, <1>3, <1>4 DEF AutopayNext

-----------------------------------------------------------------------------
(* The theorems.                                                           *)

\* The strengthened invariant holds in every reachable state.
THEOREM AutopayInvariant == AutopaySpec => []AutopayIInv
  BY AutopayInitIInv, AutopayNextIInv, PTL DEF AutopaySpec

\* Every variable keeps its type.
THEOREM AutopayTypeCorrect == AutopaySpec => []AutopayTypeOK
<1>1. AutopayIInv => AutopayTypeOK
  BY DEF AutopayIInv
<1> QED BY AutopayInvariant, <1>1, PTL

\* However many instances sweep and however often Stripe's webhooks arrive, a
\* collected charge is credited at most once, never one that was not
\* collected, and exactly when its row says so.
THEOREM CreditedAtMostOnce == AutopaySpec => []CreditedOnce
<1>1. AutopayIInv => CreditedOnce
  BY DEF AutopayIInv
<1> QED BY AutopayInvariant, <1>1, PTL

-----------------------------------------------------------------------------
(* What was collected is kept, as long as one instance sweeps.  With two,  *)
(* one may fail a claim whose charge the other is about to attach; the     *)
(* row is then renamed "failed" and the webhook acknowledged without a     *)
(* credit.  Of one sweep's claim nobody else changes the status.           *)

OneInstance == \A s, t \in Sweeps : s = t

\* What the row and the webhook of a key say of its charge.
Reported(k) ==
    /\ intent[k] # "none" => charge[k] # "none"
    /\ intent[k] = "failed" => charge[k] = "declined"
    /\ hook[k] = "recorded" => charge[k] = "declined"
    /\ Charged(k) => hook[k] \in {"due", "acked"}
    /\ Charged(k) /\ hook[k] = "acked" => Resolved(k)

\* On the way to a charge the claim is open; whoever is about to ask or to
\* fail has a reason.
Charging == {"picked", "listing", "pricing", "guarding", "posting", "attaching"}

Grounded(task, k) ==
    task.key = {k} =>
        /\ task.at \in Charging => claim[k] = "pending"
        /\ task.at \in {"attaching", "asking"} => charge[k] # "none"
        /\ task.at = "failing" => charge[k] = "declined"
        /\ (task.at = "attaching" /\ task.answer = "declined")
              => charge[k] = "declined"

Kept == /\ \A k \in Keys : Reported(k)
        /\ \A s \in Sweeps, k \in Keys : Grounded(job[s], k)

LEMMA InitKept == AutopayInit => Kept
  BY DEF AutopayInit, Kept, Reported, Charged, Grounded, Charging, Idle

\* A sweep at none of these steps claims nothing.
LEMMA Groundless ==
    ASSUME NEW s \in Sweeps,
           job'[s].at \notin Charging \cup {"asking", "failing"}
    PROVE  \A k \in Keys : Grounded(job[s], k)'
  BY DEF Grounded, Charging

\* A sweep that moves on along its claim.
LEMMA MovesOn ==
    ASSUME Kept, NEW s \in Sweeps, job[s].at \in Charging,
           job'[s].at \in Charging \ {"attaching"}, job'[s].key = job[s].key,
           UNCHANGED claim
    PROVE  \A k \in Keys : Grounded(job[s], k)'
  BY DEF Kept, Grounded, Charging

\* A step that changes none of what a report depends on.
LEMMA SameReports ==
    ASSUME Kept, UNCHANGED <<intent, charge, hook>>
    PROVE  \A k \in Keys : Reported(k)'
  BY DEF Kept, Reported, Charged, Resolved

\* fail_autopay_intent after a refusal.
LEMMA FailReported ==
    ASSUME AutopayIInv, Kept, NEW k \in Keys, FailIntent(k), charge[k] = "declined",
           UNCHANGED charge, NEW said \in {"recorded", "acked", "due"},
           hook' = hook \/ hook' = [hook EXCEPT ![k] = said]
    PROVE  \A q \in Keys : Reported(q)'
<1>1. /\ intent' = intent \/ intent' = [intent EXCEPT ![k] = "failed"]
      /\ \A q \in Keys \ {k} : intent'[q] = intent[q] /\ hook'[q] = hook[q]
  BY DEF FailIntent, AutopayIInv, AutopayTypeOK
<1>2. Reported(k)'
  BY DEF Reported, Charged, Kept
<1>3. ASSUME NEW q \in Keys \ {k} PROVE Reported(q)'
  BY <1>1, <1>3 DEF Reported, Charged, Resolved, Kept
<1> QED BY <1>2, <1>3

\* settle_autopay_intent after a charge: no row says it failed, so it is resolved.
LEMMA SettleReported ==
    ASSUME AutopayIInv, Kept, NEW k \in Keys, Settle(k), Charged(k),
           UNCHANGED charge, hook' = hook \/ hook' = [hook EXCEPT ![k] = "acked"]
    PROVE  \A q \in Keys : Reported(q)'
<1>1. AutopayTypeOK
  BY DEF AutopayIInv
<1>2. /\ intent[k] # "failed"
      /\ hook'[k] \in {"due", "acked"}
      /\ \A q \in Keys \ {k} : hook'[q] = hook[q]
  BY <1>1 DEF Kept, Reported, Charged, AutopayTypeOK
<1>3. /\ Resolved(k)'
      /\ \A q \in Keys \ {k} : intent'[q] = intent[q]
  BY <1>1, <1>2 DEF Settle, Resolved, AutopayTypeOK
<1>4. Reported(k)'
  BY <1>2, <1>3 DEF Reported, Resolved, Charged
<1>5. ASSUME NEW q \in Keys \ {k} PROVE Reported(q)'
  BY <1>2, <1>3, <1>5 DEF Reported, Resolved, Charged, Kept
<1> QED BY <1>4, <1>5

\* A sweep claims, reads and decides.
LEMMA ReadsKept ==
    ASSUME AutopayIInv, Kept, NEW s \in Sweeps, NEW k \in Keys,
           \/ ClaimAttempt(s, k) \/ PickClaim(s, k) \/ PickIntent(s, k)
           \/ CheckArmed(s, k) \/ ListCards(s, k) \/ Price(s, k)
           \/ Guard(s, k) \/ AskStripe(s, k)
    PROVE  /\ \A q \in Keys : Reported(q)'
           /\ \A q \in Keys : Grounded(job[s], q)'
<1>0. AutopayTypeOK
  BY DEF AutopayIInv
<1>1. UNCHANGED <<intent, charge, hook>>
  BY DEF ClaimAttempt, PickClaim, PickIntent, CheckArmed, ListCards, Price, Guard,
         AskStripe, stripe, rows
<1>2. \A q \in Keys : Reported(q)'
  BY <1>1, SameReports
<1>3. CASE ClaimAttempt(s, k) \/ PickClaim(s, k) \/ PickIntent(s, k)
  <2>1. PICK step \in {"picked", "listing", "asking"} :
           /\ job' = [job EXCEPT ![s] = [Idle EXCEPT !.at = step, !.key = {k}]]
           /\ step # "asking" => claim'[k] = "pending"
           /\ step = "asking" => intent[k] = "pending"
    BY <1>0, <1>3 DEF ClaimAttempt, PickClaim, PickIntent, rows, AutopayTypeOK
  <2>2. job'[s].at = step /\ job'[s].key = {k}
    BY <1>0, <2>1 DEF AutopayTypeOK, Idle
  <2>3. step = "asking" => charge'[k] # "none"
    BY <1>1, <2>1 DEF Kept, Reported
  <2> QED BY <1>2, <2>1, <2>2, <2>3 DEF Grounded, Charging
<1>4. CASE CheckArmed(s, k) \/ Price(s, k) \/ Guard(s, k)
  <2>1. /\ job[s].at \in Charging /\ UNCHANGED claim
        /\ Ends(s) \/ Does(s, "listing") \/ Does(s, "guarding")
                   \/ Does(s, "posting")
    BY <1>4 DEF CheckArmed, Price, Guard, At, Charging, rows
  <2>2. CASE Ends(s)
    BY <1>0, <1>2, <2>2, EndsStep, Groundless DEF Charging
  <2>3. ASSUME NEW step \in {"listing", "guarding", "posting"}, Does(s, step)
        PROVE  \A q \in Keys : Grounded(job[s], q)'
    <3>1. job'[s].at = step /\ job'[s].key = job[s].key
      BY <1>0, <2>3, DoesStep
    <3>2. step \in Charging \ {"attaching"}
      BY DEF Charging
    <3> QED BY <2>1, <3>1, <3>2, MovesOn
  <2> QED BY <1>2, <2>1, <2>2, <2>3
<1>5. CASE ListCards(s, k)
  <2>1. /\ job[s].at \in Charging /\ job[s] \in Task /\ UNCHANGED claim
    BY <1>0, <1>5 DEF ListCards, At, Charging, rows, AutopayTypeOK
  <2>2. PICK step \in {"dropping", "pricing"} :
           job' = [job EXCEPT ![s].at = step, ![s].card = card]
    BY <1>5 DEF ListCards
  <2>3. job' = [job EXCEPT ![s] = [job[s] EXCEPT !.at = step, !.card = card]]
    BY <1>0, <2>2 DEF AutopayTypeOK
  <2>4. job'[s] = [job[s] EXCEPT !.at = step, !.card = card]
    BY <1>0, <2>3 DEF AutopayTypeOK
  <2>5. job'[s].at = step /\ job'[s].key = job[s].key
    BY <2>1, <2>4 DEF Task
  <2>6. CASE step = "dropping"
    BY <1>2, <2>5, <2>6, Groundless DEF Charging
  <2>7. CASE step = "pricing"
    <3>1. step \in Charging \ {"attaching"}
      BY <2>7 DEF Charging
    <3> QED BY <1>2, <2>1, <2>5, <3>1, MovesOn
  <2> QED BY <2>6, <2>7
<1>6. CASE AskStripe(s, k)
  <2>1. /\ At(s, "asking", k) /\ charge[k] # "none"
        /\ charge[k] \in {"none", "processing", "succeeded", "declined"}
    BY <1>0, <1>6 DEF AskStripe, At, Kept, Grounded, AutopayTypeOK
  <2>2. CASE charge[k] = "declined"
    <3>1. Does(s, "failing")
      BY <1>6, <2>2 DEF AskStripe
    <3>2. job'[s].at = "failing" /\ job'[s].key = {k} /\ charge'[k] = "declined"
      BY <1>0, <1>1, <2>1, <2>2, <3>1, DoesStep DEF At
    <3> QED BY <1>2, <3>2 DEF Grounded, Charging
  <2>3. CASE charge[k] # "declined"
    <3>1. Ends(s) \/ Does(s, "settling")
      BY <1>6, <2>1, <2>3 DEF AskStripe
    <3>2. job'[s].at \in {"idle", "settling"}
      BY <1>0, <3>1, EndsStep, DoesStep
    <3> QED BY <1>2, <3>2, Groundless DEF Charging
  <2> QED BY <2>2, <2>3
<1> QED BY <1>3, <1>4, <1>5, <1>6

\* Where a sweep goes with an answer, once the charge is what it is.
LEMMA AnswerGrounded ==
    ASSUME AutopayTypeOK, Kept, NEW s \in Sweeps, NEW k \in Keys,
           At(s, "posting", k), UNCHANGED claim,
           NEW answer \in {"lost", "refused", "open", "succeeded", "declined"},
           Replied(s, answer),
           answer \in {"open", "succeeded", "declined"} => charge'[k] # "none",
           answer = "declined" => charge'[k] = "declined"
    PROVE  \A q \in Keys : Grounded(job[s], q)'
<1>1. CASE answer = "lost"
  BY <1>1, EndsStep, Groundless DEF Replied, Charging
<1>2. CASE answer = "refused"
  BY <1>2, DoesStep, Groundless DEF Replied, Charging
<1>3. CASE answer \in {"open", "succeeded", "declined"}
  <2>1. job' = [job EXCEPT ![s].at = "attaching", ![s].answer = answer]
    BY <1>3 DEF Replied
  <2>2. job[s] \in Task /\ job[s].key = {k} /\ claim[k] = "pending"
    BY DEF At, AutopayTypeOK, Kept, Grounded, Charging
  <2>3. job' = [job EXCEPT ![s] = [job[s] EXCEPT !.at = "attaching",
                                                 !.answer = answer]]
    BY <2>1 DEF AutopayTypeOK
  <2>4. job'[s] = [job[s] EXCEPT !.at = "attaching", !.answer = answer]
    BY <2>3 DEF AutopayTypeOK
  <2>5. /\ job'[s].at = "attaching" /\ job'[s].answer = answer
        /\ job'[s].key = {k}
    BY <2>2, <2>4 DEF Task
  <2> QED BY <1>3, <2>2, <2>5 DEF Grounded, Charging
<1> QED BY <1>1, <1>2, <1>3

\* The request that moves money leaves a webhook behind it if it ends.
LEMMA PostsKept ==
    ASSUME AutopayIInv, Kept, NEW s \in Sweeps, NEW k \in Keys,
           PostNew(s, k) \/ PostAgain(s, k)
    PROVE  /\ \A q \in Keys : Reported(q)'
           /\ \A q \in Keys : Grounded(job[s], q)'
<1>0. AutopayTypeOK
  BY DEF AutopayIInv
<1>1. CASE PostNew(s, k)
  <2>1. /\ At(s, "posting", k) /\ charge[k] = "none"
        /\ UNCHANGED <<claim, intent>>
    BY <1>1 DEF PostNew, rows
  <2>2. CASE \E outcome \in {"processing", "succeeded", "declined"} :
                /\ charge' = [charge EXCEPT ![k] = outcome]
                /\ hook' = IF outcome = "processing" THEN hook
                           ELSE [hook EXCEPT ![k] = "due"]
                /\ \E answer \in {"lost", "open"}
                                 \cup ({outcome} \ {"processing"}) :
                      Replied(s, answer)
    <3>1. PICK outcome \in {"processing", "succeeded", "declined"} :
                /\ charge' = [charge EXCEPT ![k] = outcome]
                /\ hook' = IF outcome = "processing" THEN hook
                           ELSE [hook EXCEPT ![k] = "due"]
                /\ \E answer \in {"lost", "open"}
                                 \cup ({outcome} \ {"processing"}) :
                      Replied(s, answer)
      BY <2>2
    <3>2. /\ charge'[k] = outcome
          /\ hook'[k] = IF outcome = "processing" THEN hook[k] ELSE "due"
          /\ \A q \in Keys \ {k} : charge'[q] = charge[q] /\ hook'[q] = hook[q]
      BY <1>0, <3>1 DEF AutopayTypeOK
    <3>3. PICK answer \in {"lost", "open", "succeeded", "declined"} :
             /\ Replied(s, answer)
             /\ answer = "declined" => outcome = "declined"
      BY <3>1
    <3>4. \A q \in Keys : Grounded(job[s], q)'
      BY <1>0, <2>1, <3>2, <3>3, AnswerGrounded
    <3>5. Reported(k)'
      BY <2>1, <3>2 DEF Kept, Reported, Charged
    <3>6. ASSUME NEW q \in Keys \ {k} PROVE Reported(q)'
      BY <2>1, <3>2, <3>6 DEF Kept, Reported, Charged, Resolved
    <3> QED BY <3>4, <3>5, <3>6
  <2>3. CASE /\ Replied(s, "lost") \/ Replied(s, "refused")
             /\ UNCHANGED <<charge, paidWith, hook>>
    <3>1. \A q \in Keys : Reported(q)'
      BY <2>1, <2>3, SameReports
    <3>2. PICK answer \in {"lost", "refused"} : Replied(s, answer)
      BY <2>3
    <3> QED BY <1>0, <2>1, <3>1, <3>2, AnswerGrounded
  <2> QED BY <1>1, <2>2, <2>3 DEF PostNew
<1>2. CASE PostAgain(s, k)
  <2>1. /\ At(s, "posting", k) /\ charge[k] # "none"
        /\ UNCHANGED <<claim, intent, charge, hook>>
        /\ charge[k] \in {"none", "processing", "succeeded", "declined"}
    BY <1>0, <1>2 DEF PostAgain, stripe, rows, AutopayTypeOK
  <2>2. PICK answer \in {"lost", "refused", "open", "succeeded", "declined"} :
           /\ Replied(s, answer)
           /\ answer = "declined" => charge[k] = "declined"
    BY <1>2, <2>1 DEF PostAgain
  <2>3. \A q \in Keys : Grounded(job[s], q)'
    BY <1>0, <2>1, <2>2, AnswerGrounded
  <2> QED BY <2>1, <2>3, SameReports
<1> QED BY <1>1, <1>2

\* What a sweep does with its answer: it renames an open claim, settles what was
\* collected and fails what was declined.
LEMMA ActsKept ==
    ASSUME AutopayIInv, Kept, NEW s \in Sweeps, NEW k \in Keys,
           \/ AttachAnswer(s, k) \/ SettleAnswer(s, k)
           \/ FailAnswer(s, k) \/ DropClaim(s, k)
    PROVE  /\ \A q \in Keys : Reported(q)'
           /\ \A q \in Keys : Grounded(job[s], q)'
<1>0. AutopayTypeOK
  BY DEF AutopayIInv
<1>1. CASE AttachAnswer(s, k)
  <2>1. /\ At(s, "attaching", k) /\ UNCHANGED <<charge, hook>>
        /\ claim[k] = "pending" /\ charge[k] # "none"
        /\ job[s].answer = "declined" => charge[k] = "declined"
    BY <1>1 DEF AttachAnswer, stripe, At, Kept, Grounded, Charging
  <2>2. /\ intent'[k] = IF intent[k] = "none" THEN "pending" ELSE intent[k]
        /\ \A q \in Keys \ {k} : intent'[q] = intent[q]
    BY <1>0, <1>1, <2>1 DEF AttachAnswer, Attach, AutopayTypeOK
  <2>3. Reported(k)'
    BY <2>1, <2>2 DEF Kept, Reported, Charged, Resolved
  <2>4. ASSUME NEW q \in Keys \ {k} PROVE Reported(q)'
    BY <2>1, <2>2, <2>4 DEF Kept, Reported, Charged, Resolved
  <2>5. CASE job[s].answer = "declined"
    <3>1. Does(s, "failing")
      BY <1>1, <2>5 DEF AttachAnswer
    <3>2. /\ job'[s].at = "failing" /\ job'[s].key = {k}
          /\ charge'[k] = "declined"
      BY <1>0, <2>1, <2>5, <3>1, DoesStep DEF At
    <3>3. \A q \in Keys : Grounded(job[s], q)'
      BY <3>2 DEF Grounded, Charging
    <3> QED BY <2>3, <2>4, <3>3
  <2>6. CASE job[s].answer # "declined"
    <3>1. Does(s, "settling") \/ Ends(s)
      BY <1>1, <2>6 DEF AttachAnswer
    <3>2. job'[s].at \in {"idle", "settling"}
      BY <1>0, <3>1, EndsStep, DoesStep
    <3> QED BY <2>3, <2>4, <3>2, Groundless DEF Charging
  <2> QED BY <2>5, <2>6
<1>2. CASE SettleAnswer(s, k) \/ FailAnswer(s, k) \/ DropClaim(s, k)
  <2>1. Ends(s) /\ UNCHANGED <<charge, hook>>
    BY <1>2 DEF SettleAnswer, FailAnswer, DropClaim, stripe
  <2>2. \A q \in Keys : Grounded(job[s], q)'
    BY <1>0, <2>1, EndsStep, Groundless DEF Charging
  <2>3. CASE SettleAnswer(s, k)
    <3>1. Charged(k)
      BY <2>3 DEF SettleAnswer, AutopayIInv, Knows, At
    <3>2. CASE Settle(k)
      BY <2>1, <2>2, <3>1, <3>2, SettleReported
    <3>3. CASE UNCHANGED rows
      BY <2>1, <2>2, <3>3, SameReports DEF rows
    <3> QED BY <2>3, <3>2, <3>3 DEF SettleAnswer
  <2>4. CASE FailAnswer(s, k)
    <3>1. FailIntent(k) /\ charge[k] = "declined"
      BY <2>4 DEF FailAnswer, At, Kept, Grounded
    <3> QED BY <2>1, <2>2, <3>1, FailReported
  <2>5. CASE DropClaim(s, k)
    <3>1. UNCHANGED intent
      BY <2>5 DEF DropClaim, FailClaim
    <3> QED BY <2>1, <2>2, <3>1, SameReports
  <2> QED BY <1>2, <2>3, <2>4, <2>5
<1> QED BY <1>1, <1>2

\* A webhook reports on a charge that ended, and is acknowledged once its row
\* says the same.
LEMMA HookKept ==
    ASSUME AutopayIInv, Kept, NEW k \in Keys,
           HookSettles(k) \/ HookRecords(k) \/ HookFails(k) \/ HookAgain(k)
    PROVE  /\ UNCHANGED <<claim, charge, job>>
           /\ \A q \in Keys : Reported(q)'
<1>0. AutopayTypeOK
  BY DEF AutopayIInv
<1>1. UNCHANGED <<claim, charge, job>>
  BY DEF HookSettles, Settle, HookRecords, HookFails, FailIntent, HookAgain,
         stripe, rows
<1>2. CASE HookSettles(k)
  BY <1>1, <1>2, SettleReported DEF HookSettles, Charged
<1>3. CASE HookRecords(k)
  <2>1. /\ charge[k] = "declined" /\ hook'[k] = "recorded"
        /\ \A q \in Keys \ {k} : hook'[q] = hook[q] /\ intent'[q] = intent[q]
    BY <1>0, <1>3 DEF HookRecords, AutopayTypeOK
  <2>2. Reported(k)'
    BY <1>1, <2>1 DEF Reported, Charged
  <2>3. ASSUME NEW q \in Keys \ {k} PROVE Reported(q)'
    BY <1>1, <2>1, <2>3 DEF Kept, Reported, Charged, Resolved
  <2> QED BY <1>1, <2>2, <2>3
<1>4. CASE HookFails(k)
  <2>1. FailIntent(k) /\ charge[k] = "declined"
    BY <1>4 DEF HookFails, Kept, Reported
  <2>2. hook' = [hook EXCEPT ![k] = "acked"]
    BY <1>4 DEF HookFails
  <2> QED BY <1>1, <2>1, <2>2, FailReported
<1>5. CASE HookAgain(k)
  <2>1. /\ hook'[k] = "due" /\ UNCHANGED intent
        /\ \A q \in Keys \ {k} : hook'[q] = hook[q]
    BY <1>0, <1>5 DEF HookAgain, rows, AutopayTypeOK
  <2> QED BY <1>1, <2>1 DEF Kept, Reported, Charged, Resolved
<1> QED BY <1>2, <1>3, <1>4, <1>5

\* A charge that ends leaves its webhook due.
LEMMA EndsKept ==
    ASSUME AutopayIInv, Kept, NEW k \in Keys, ChargeEnds(k)
    PROVE  Kept'
<1>1. /\ charge[k] = "processing" /\ charge'[k] \in {"succeeded", "declined"}
      /\ hook'[k] = "due" /\ UNCHANGED <<claim, intent, job>>
      /\ \A q \in Keys \ {k} : charge'[q] = charge[q] /\ hook'[q] = hook[q]
  BY DEF ChargeEnds, rows, AutopayIInv, AutopayTypeOK
<1>2. Reported(k)'
  BY <1>1 DEF Kept, Reported, Charged
<1>3. ASSUME NEW q \in Keys \ {k} PROVE Reported(q)'
  BY <1>1, <1>3 DEF Kept, Reported, Charged, Resolved
<1>4. ASSUME NEW s \in Sweeps, NEW q \in Keys PROVE Grounded(job[s], q)'
  <2>1. charge'[q] = charge[q] \/ (charge[q] = "processing" /\ charge'[q] # "none")
    BY <1>1
  <2> QED BY <1>1, <2>1 DEF Kept, Grounded
<1> QED BY <1>2, <1>3, <1>4 DEF Kept

LEMMA NextKept == OneInstance /\ AutopayIInv /\ Kept /\ [AutopayNext]_autopayVars => Kept'
<1> SUFFICES ASSUME OneInstance, AutopayIInv, Kept, [AutopayNext]_autopayVars PROVE Kept'
  OBVIOUS
<1>1. ASSUME NEW s \in Sweeps, \A q \in Keys : Reported(q)',
             \A q \in Keys : Grounded(job[s], q)'
      PROVE  Kept'
  BY <1>1 DEF Kept, OneInstance
<1>2. ASSUME UNCHANGED <<claim, charge, job>>, \A q \in Keys : Reported(q)'
      PROVE  Kept'
  BY <1>2 DEF Kept, Grounded
<1>3. ASSUME NEW s \in Sweeps, NEW k \in Keys, SweepOnce(s, k) PROVE Kept'
  BY <1>1, <1>3, ReadsKept, PostsKept, ActsKept DEF SweepOnce
<1>4. ASSUME NEW s \in Sweeps, Abandon(s) PROVE Kept'
  <2>1. job'[s].at = "idle" /\ UNCHANGED <<intent, charge, hook>>
    BY <1>4, EndsStep DEF Abandon, AutopayIInv, stripe, rows
  <2> QED BY <1>1, <2>1, Groundless, SameReports DEF Charging
<1>5. ASSUME NEW k \in Keys,
             HookSettles(k) \/ HookRecords(k) \/ HookFails(k) \/ HookAgain(k)
      PROVE  Kept'
  BY <1>2, <1>5, HookKept
<1>6. CASE \/ \E k \in Keys : GrowsOld(k)
           \/ SaveCard \/ PutAutopay \/ Bar \/ RunsLow \/ UNCHANGED autopayVars
  <2>1. UNCHANGED <<claim, intent, charge, hook, job>>
    BY <1>6 DEF GrowsOld, SaveCard, PutAutopay, Bar, RunsLow, autopayVars, rows, stripe
  <2> QED BY <1>2, <2>1, SameReports
<1> QED BY <1>3, <1>4, <1>5, <1>6, EndsKept DEF AutopayNext

\* As long as one instance sweeps, money Stripe collected is never lost sight
\* of, whatever answers are lost, cards replaced and events repeated: it is
\* credited, withheld, on an open row, or announced by a webhook that is due
\* (attach_autopay_intent, settle_autopay_intent, fail_autopay_intent).
THEOREM CollectedStaysKept ==
    ASSUME OneInstance
    PROVE  AutopaySpec => []CollectedIsKept
<1>1. Kept => CollectedIsKept
  BY DEF Kept, Reported, CollectedIsKept
<1> QED BY InitKept, NextKept, AutopayInvariant, <1>1, PTL DEF AutopaySpec

-----------------------------------------------------------------------------
(* The estimator.  A cell is fresh only in the tick its pass ended in, and a  *)
(* pass judges before it applies, so what a fresh cell stands for was judged  *)
(* in this tick: either the rows that tick began with are below every limit,  *)
(* or a mark outlives it.                                                     *)

LearnedRow == [segment : Segments, at : Int, loss : Nat, nr : Int]

EstimatorTyped ==
    /\ tick \in Nat
    /\ learned \subseteq LearnedRow /\ IsFiniteSet(learned)
    /\ DOMAIN cached = Cells
    /\ \A c \in Cells : cached[c].fetched \in Int /\ cached[c].fetched <= tick
    /\ segmentMark \in [Segments -> Int] /\ userMark \in [Owners -> Int]
    /\ batch \subseteq Cells
    /\ work.at # "idle" => work.cell \in Cells
    /\ pending \subseteq Cells

\* What a verdict on a segment, or on its owner, leaves behind.
SegmentJudged(s) ==
    segmentMark[s] > tick \/ ~DollarsTripped(Before(Since(s, 2 * Window)))
OwnerJudged(s) ==
    \/ userMark[Owner[s]] > tick
    \/ Loss(Before(UserRows(Owner[s], UserWindow + Window))) <= UserLimit

\* What the pass has judged by the step it is at.
JudgedInOrder ==
    /\ work.at \in {"user", "apply"} /\ work.cell[2] = "segment" =>
         SegmentJudged(work.cell[1])
    /\ work.at = "apply" /\ work.cell[2] = "segment" => OwnerJudged(work.cell[1])

FreshIsJudged ==
    \A s \in Segments : FreshCell(<<s, "segment">>) => SegmentJudged(s) /\ OwnerJudged(s)

EstimatorInv == EstimatorTyped /\ JudgedInOrder /\ FreshIsJudged

\* The losses of fewer rows are no more.
LEMMA LossSubset ==
    ASSUME NEW T, T \subseteq LearnedRow, IsFiniteSet(T), NEW S, S \subseteq T
    PROVE  Loss(S) \in Nat /\ Loss(T) \in Nat /\ Loss(S) <= Loss(T)
<1> DEFINE f == [e \in S |-> e.loss]
           g == [e \in T |-> e.loss]
<1>1. IsFiniteSet(S) /\ S \subseteq LearnedRow
  BY FS_Subset
<1>2. \A e \in T : g[e] \in Nat /\ g[e] \in Int /\ g[e] >= 0
  BY DEF LearnedRow
<1>3. \A e \in S : f[e] = g[e] /\ f[e] \in Nat /\ f[e] \in Int
  BY <1>2
<1>4. Loss(S) = SumFunctionOnSet(f, S) /\ Loss(T) = SumFunctionOnSet(g, T)
  BY DEF Loss, SumFunction
<1> HIDE DEF f, g
<1>5. SumFunctionOnSet(f, S) = SumFunctionOnSet(g, S)
  BY <1>1, <1>3, SumSame
<1>6. SumFunctionOnSet(g, S) <= SumFunctionOnSet(g, T)
  BY <1>1, <1>2, SumSubset
<1>7. SumFunctionOnSet(f, S) \in Nat /\ SumFunctionOnSet(g, T) \in Nat
  BY <1>1, <1>2, <1>3, SumType
<1> QED BY <1>4, <1>5, <1>6, <1>7

\* Where the constants lie.
LEMMA EstimatorConstants ==
    /\ \A c \in Cells : c[1] \in Segments /\ c = <<c[1], c[2]>>
    /\ \A s \in Segments : <<s, "segment">> \in Cells /\ Owner[s] \in Owners
    /\ Window \in Int /\ Window > 0 /\ 2 * Window \in Int /\ UserWindow + Window \in Int
    /\ RowLimit \in Int /\ SegmentLimit \in Int /\ UserLimit \in Int
BY EstimatorAssumption DEF Owners

LEMMA InitEstimatorInv == EstimatorInit => EstimatorInv
<1> SUFFICES ASSUME EstimatorInit PROVE EstimatorInv
  OBVIOUS
<1>1. EstimatorTyped
  BY FS_EmptySet DEF EstimatorInit, EstimatorTyped, Missing, Never, NoWork
<1>2. JudgedInOrder
  BY DEF EstimatorInit, JudgedInOrder, NoWork
<1>3. \A s \in Segments : cached[<<s, "segment">>].fetched = -1
  BY EstimatorConstants DEF EstimatorInit, Missing, Never
<1>4. FreshIsJudged
  BY <1>3 DEF EstimatorInit, FreshIsJudged, FreshCell
<1> QED BY <1>1, <1>2, <1>4 DEF EstimatorInv

\* Within a tick no verdict is taken back: what settles now is not before now.
LEMMA VerdictsStand ==
    ASSUME EstimatorTyped, tick' = tick,
           learned' = learned \/ (\E e : e.at = tick /\ learned' = learned \cup {e}),
           \A s \in Segments : segmentMark'[s] = segmentMark[s] \/ segmentMark'[s] > tick,
           \A u \in Owners : userMark'[u] = userMark[u] \/ userMark'[u] > tick,
           NEW s \in Segments
    PROVE  /\ SegmentJudged(s) => SegmentJudged(s)'
           /\ OwnerJudged(s) => OwnerJudged(s)'
<1>1. tick \in Int /\ \A e \in learned : e.at \in Int
  BY DEF EstimatorTyped, LearnedRow
<1>2. {e \in learned' : e.at < tick} = {e \in learned : e.at < tick}
  BY <1>1
<1>3. Before(Since(s, 2 * Window))' = Before(Since(s, 2 * Window))
  BY <1>2 DEF Before, Since
<1>4. Before(UserRows(Owner[s], UserWindow + Window))'
        = Before(UserRows(Owner[s], UserWindow + Window))
  BY <1>2 DEF Before, UserRows
<1>5. SegmentJudged(s) => SegmentJudged(s)'
  BY <1>3 DEF SegmentJudged, DollarsTripped, Loss
<1>6. Owner[s] \in Owners
  BY EstimatorConstants
<1>7. OwnerJudged(s) => OwnerJudged(s)'
  BY <1>4, <1>6 DEF OwnerJudged, Loss
<1> QED BY <1>5, <1>7

\* A step that judges nothing and applies nothing.
LEMMA VerdictsKept ==
    ASSUME EstimatorInv, UNCHANGED <<tick, segmentMark, userMark>>,
           learned' = learned \/ (\E e : e.at = tick /\ learned' = learned \cup {e}),
           \A c \in Cells : cached'[c].fetched = cached[c].fetched \/ cached'[c].fetched # tick,
           \/ work' = work
           \/ work'.at \in {"idle", "segment"}
           \/ work'.at = "apply" /\ work'.cell[2] # "segment"
    PROVE  JudgedInOrder' /\ FreshIsJudged'
<1>1. EstimatorTyped /\ JudgedInOrder /\ FreshIsJudged
  BY DEF EstimatorInv
<1>2. ASSUME NEW s \in Segments
      PROVE  /\ SegmentJudged(s) => SegmentJudged(s)'
             /\ OwnerJudged(s) => OwnerJudged(s)'
  BY <1>1, VerdictsStand
<1>3. FreshIsJudged'
  BY <1>1, <1>2, EstimatorConstants DEF FreshIsJudged, FreshCell
<1>4. JudgedInOrder'
  <2>1. CASE work' = work
    <3>1. work.at # "idle" => work.cell[1] \in Segments
      BY <1>1, EstimatorConstants DEF EstimatorTyped
    <3> QED BY <1>1, <1>2, <2>1, <3>1 DEF JudgedInOrder
  <2>2. CASE work' # work
    BY <2>2 DEF JudgedInOrder
  <2> QED BY <2>1, <2>2
<1> QED BY <1>3, <1>4

\* A segment that does not trip is below every dollar limit, and so are the rows
\* the tick began with.
LEMMA NotTripped ==
    ASSUME EstimatorTyped, NEW s \in Segments
    PROVE  /\ ~SegmentTripped(s) => ~DollarsTripped(Before(Since(s, 2 * Window)))
           /\ ~UserTripped(Owner[s]) =>
                Loss(Before(UserRows(Owner[s], UserWindow + Window))) <= UserLimit
<1> DEFINE T == Since(s, 2 * Window)
           U == UserRows(Owner[s], UserWindow + Window)
<1>1. /\ T \subseteq LearnedRow /\ IsFiniteSet(T)
      /\ U \subseteq LearnedRow /\ IsFiniteSet(U)
  BY FS_Subset DEF EstimatorTyped, Since, UserRows
<1>2. Before(T) \subseteq T /\ Before(U) \subseteq U
  BY DEF Before
<1>3. ~SegmentTripped(s) => ~DollarsTripped(T)
  BY DEF SegmentTripped, WindowTripped
<1>4. ~UserTripped(Owner[s]) => ~(Loss(U) > UserLimit)
  BY DEF UserTripped
<1> HIDE DEF T, U
<1> DEFINE BT == Before(T)
           BU == Before(U)
<1>5. BT \subseteq T /\ BU \subseteq U
  BY <1>2
<1> HIDE DEF BT, BU
<1>6. /\ Loss(BT) \in Nat /\ Loss(T) \in Nat /\ Loss(BT) <= Loss(T)
      /\ Loss(BU) \in Nat /\ Loss(U) \in Nat /\ Loss(BU) <= Loss(U)
  BY <1>1, <1>5, LossSubset
<1>7. ~DollarsTripped(T) => ~DollarsTripped(BT)
  BY <1>5, <1>6, EstimatorConstants DEF DollarsTripped
<1>8. ~(Loss(U) > UserLimit) => Loss(BU) <= UserLimit
  BY <1>6, EstimatorConstants
<1> QED BY <1>3, <1>4, <1>7, <1>8 DEF T, U, BT, BU

LEMMA NextEstimatorTyped ==
    EstimatorTyped /\ [EstimatorNext]_estimatorVars => EstimatorTyped'
<1> SUFFICES ASSUME EstimatorTyped, [EstimatorNext]_estimatorVars PROVE EstimatorTyped'
  OBVIOUS
<1> USE EstimatorConstants
<1>0. /\ tick \in Nat /\ tick \in Int /\ tick + Window \in Int
      /\ IsFiniteSet(learned) /\ Cardinality(learned) \in Int
      /\ segmentMark \in [Segments -> Int] /\ userMark \in [Owners -> Int]
      /\ batch \subseteq Cells /\ pending \subseteq Cells
  BY FS_CardinalityType DEF EstimatorTyped
<1>1. ASSUME NEW s \in Segments, Serve(s) PROVE EstimatorTyped'
  <2>1. pending' \subseteq Cells
    BY <1>0, <1>1 DEF Serve, OfferedCells, CellsOf
  <2> QED BY <1>1, <2>1 DEF Serve, EstimatorTyped
<1>2. ASSUME NEW s \in Segments, SettleLearned(s) PROVE EstimatorTyped'
  <2>1. PICK loss \in {0} \cup Losses :
          learned' = learned \cup {[segment |-> s, at |-> tick, loss |-> loss,
                                    nr |-> Cardinality(learned)]}
    BY <1>2 DEF SettleLearned
  <2>2. loss \in Nat
    BY EstimatorAssumption
  <2>3. [segment |-> s, at |-> tick, loss |-> loss, nr |-> Cardinality(learned)] \in LearnedRow
    BY <1>0, <2>2 DEF LearnedRow
  <2>4. learned' \subseteq LearnedRow /\ IsFiniteSet(learned')
    BY <1>0, <2>1, <2>3, FS_AddElement DEF EstimatorTyped
  <2> QED BY <1>2, <2>4 DEF SettleLearned, EstimatorTyped
<1>3. CASE Drain
  BY <1>3 DEF Drain, EstimatorTyped
<1>4. ASSUME NEW c \in Cells, Scan(c) PROVE EstimatorTyped'
  BY <1>4 DEF Scan, EstimatorTyped
<1>5. ASSUME NEW c \in Cells, Requeue(c), batch' \subseteq Cells PROVE EstimatorTyped'
  BY <1>5 DEF Requeue, Enqueued, NoWork, EstimatorTyped
<1>6. ASSUME NEW c \in Cells, ScanFails(c) PROVE EstimatorTyped'
  BY <1>0, <1>5, <1>6 DEF ScanFails
<1>7. CASE JudgeFails
  BY <1>0, <1>5, <1>7 DEF JudgeFails, LeftCold, EstimatorTyped
<1>8. CASE JudgeSegment
  <2>1. segmentMark' \in [Segments -> Int]
    BY <1>0, <1>8 DEF JudgeSegment
  <2>2. work'.cell = work.cell
    BY <1>8 DEF JudgeSegment
  <2> QED BY <1>8, <2>1, <2>2 DEF JudgeSegment, EstimatorTyped
<1>9. CASE JudgeUser
  <2>1. userMark' \in [Owners -> Int]
    BY <1>0, <1>9 DEF JudgeUser
  <2>2. work'.cell = work.cell
    BY <1>9 DEF JudgeUser
  <2> QED BY <1>9, <2>1, <2>2 DEF JudgeUser, EstimatorTyped
<1>10. CASE Apply
  <2>1. DOMAIN cached' = Cells
    BY <1>10 DEF Apply, Applied
  <2>2. \A d \in Cells : cached'[d].fetched \in {tick, cached[d].fetched, -1}
    BY <1>10 DEF Apply, Applied, Missing, Never
  <2>3. \A d \in Cells : cached'[d].fetched \in Int /\ cached'[d].fetched <= tick
    BY <1>0, <2>2 DEF EstimatorTyped
  <2> QED BY <1>10, <2>1, <2>3 DEF Apply, NoWork, EstimatorTyped
<1>11. CASE EstimatorTick
  BY <1>11 DEF EstimatorTick, EstimatorTyped
<1>12. CASE Restart
  <2>1. DOMAIN cached' = Cells /\ \A d \in Cells : cached'[d].fetched = -1
    BY <1>12 DEF Restart, Missing, Never
  <2> QED BY <1>0, <1>12, <2>1 DEF Restart, Missing, Never, NoWork, EstimatorTyped
<1>13. CASE UNCHANGED estimatorVars
  BY <1>13 DEF estimatorVars, EstimatorTyped
<1> QED
  BY <1>1, <1>2, <1>3, <1>4, <1>6, <1>7, <1>8, <1>9, <1>10, <1>11, <1>12, <1>13
     DEF EstimatorNext

LEMMA NextEstimatorInv ==
    EstimatorInv /\ [EstimatorNext]_estimatorVars => EstimatorInv'
<1> SUFFICES ASSUME EstimatorInv, [EstimatorNext]_estimatorVars
             PROVE  JudgedInOrder' /\ FreshIsJudged'
  BY NextEstimatorTyped DEF EstimatorInv
<1>0. /\ EstimatorTyped /\ JudgedInOrder /\ FreshIsJudged
      /\ tick \in Int /\ tick >= 0 /\ tick + Window \in Int /\ tick + Window > tick
  BY EstimatorConstants DEF EstimatorInv, EstimatorTyped
<1>1. ASSUME NEW s \in Segments, Serve(s) PROVE JudgedInOrder' /\ FreshIsJudged'
  BY <1>1, VerdictsKept DEF Serve
<1>2. ASSUME NEW s \in Segments, SettleLearned(s) PROVE JudgedInOrder' /\ FreshIsJudged'
  <2>1. \E e : e.at = tick /\ learned' = learned \cup {e}
    BY <1>2 DEF SettleLearned
  <2> QED BY <1>2, <2>1, VerdictsKept DEF SettleLearned
<1>3. CASE Drain
  BY <1>3, VerdictsKept DEF Drain
<1>4. ASSUME NEW c \in Cells, Scan(c) PROVE JudgedInOrder' /\ FreshIsJudged'
  <2>1. \/ work'.at = "segment"
        \/ work'.at = "apply" /\ work'.cell[2] # "segment"
    BY <1>4 DEF Scan
  <2> QED BY <1>4, <2>1, VerdictsKept DEF Scan
<1>5. ASSUME NEW c, Requeue(c) PROVE JudgedInOrder' /\ FreshIsJudged'
  <2>1. work'.at = "idle"
    BY <1>5 DEF Requeue, NoWork
  <2> QED BY <1>5, <2>1, VerdictsKept DEF Requeue
<1>6. ASSUME NEW c \in Cells, ScanFails(c) PROVE JudgedInOrder' /\ FreshIsJudged'
  BY <1>5, <1>6 DEF ScanFails
<1>7. CASE JudgeFails
  BY <1>5, <1>7 DEF JudgeFails, LeftCold
<1>8. CASE JudgeSegment
  <2>0. PICK s \in Segments : s = work.cell[1]
    BY <1>0, <1>8, EstimatorConstants DEF JudgeSegment, EstimatorTyped
  <2>1. work'.at = "user" /\ work'.cell = work.cell /\ work'.cell[1] = s
    BY <1>8, <2>0 DEF JudgeSegment
  <2>2. /\ UNCHANGED <<tick, learned, cached, userMark>>
        /\ \A x \in Segments :
             segmentMark'[x] = segmentMark[x] \/ segmentMark'[x] > tick
        /\ SegmentTripped(s) => segmentMark'[s] > tick
    BY <1>0, <1>8, <2>0 DEF JudgeSegment, EstimatorTyped
  <2>3. ASSUME NEW x \in Segments
        PROVE  /\ SegmentJudged(x) => SegmentJudged(x)'
               /\ OwnerJudged(x) => OwnerJudged(x)'
    BY <1>0, <2>2, VerdictsStand
  <2>4. SegmentJudged(s)'
    <3>1. CASE SegmentTripped(s)
      BY <2>2, <3>1 DEF SegmentJudged
    <3>2. CASE ~SegmentTripped(s)
      <4>1. SegmentJudged(s)
        BY <1>0, <3>2, NotTripped DEF SegmentJudged
      <4> QED BY <2>1, <2>3, <4>1
    <3> QED BY <3>1, <3>2
  <2>5. FreshIsJudged'
    BY <1>0, <2>2, <2>3 DEF FreshIsJudged, FreshCell
  <2> QED BY <2>1, <2>4, <2>5 DEF JudgedInOrder
<1>9. CASE JudgeUser
  <2>0. PICK s \in Segments : s = work.cell[1]
    BY <1>0, <1>9, EstimatorConstants DEF JudgeUser, EstimatorTyped
  <2>a. Owner[s] \in Owners
    BY EstimatorConstants
  <2>b. work'.at = "apply" /\ work'.cell = work.cell /\ work.at = "user"
    BY <1>9 DEF JudgeUser
  <2>1. /\ work'.at = "apply" /\ work'.cell = work.cell /\ work'.cell[1] = s
        /\ work.at = "user" /\ Owner[s] \in Owners
    BY <2>0, <2>a, <2>b
  <2>2. /\ UNCHANGED <<tick, learned, cached, segmentMark>>
        /\ \A u \in Owners : userMark'[u] = userMark[u] \/ userMark'[u] > tick
        /\ UserTripped(Owner[s]) => userMark'[Owner[s]] > tick
    BY <1>0, <1>9, <2>0, <2>1 DEF JudgeUser, EstimatorTyped
  <2>3. ASSUME NEW x \in Segments
        PROVE  /\ SegmentJudged(x) => SegmentJudged(x)'
               /\ OwnerJudged(x) => OwnerJudged(x)'
    BY <1>0, <2>2, VerdictsStand
  <2>4. OwnerJudged(s)'
    <3>1. CASE UserTripped(Owner[s])
      BY <2>2, <3>1 DEF OwnerJudged
    <3>2. CASE ~UserTripped(Owner[s])
      <4>1. OwnerJudged(s)
        BY <1>0, <3>2, NotTripped DEF OwnerJudged
      <4> QED BY <2>1, <2>3, <4>1
    <3> QED BY <3>1, <3>2
  <2>5. work.cell[2] = "segment" => SegmentJudged(s)'
    BY <1>0, <2>0, <2>1, <2>3 DEF JudgedInOrder
  <2>6. FreshIsJudged'
    BY <1>0, <2>2, <2>3 DEF FreshIsJudged, FreshCell
  <2> QED BY <2>1, <2>4, <2>5, <2>6 DEF JudgedInOrder
<1>10. CASE Apply
  <2>1. /\ work.at = "apply" /\ work.cell \in Cells /\ work'.at = "idle"
        /\ UNCHANGED <<tick, learned, segmentMark, userMark>>
        /\ cached' = Applied(work.cell, work.measured)
    BY <1>0, <1>10 DEF Apply, EstimatorTyped, NoWork
  <2>2. ASSUME NEW x \in Segments
        PROVE  /\ SegmentJudged(x) => SegmentJudged(x)'
               /\ OwnerJudged(x) => OwnerJudged(x)'
    BY <1>0, <2>1, VerdictsStand
  <2>3. \A d \in Cells : d # work.cell => cached'[d].fetched \in {cached[d].fetched, -1}
    BY <2>1 DEF Applied, Missing, Never
  <2>4. ASSUME NEW x \in Segments, cached'[<<x, "segment">>].fetched = tick
        PROVE  SegmentJudged(x)' /\ OwnerJudged(x)'
    <3>1. CASE work.cell = <<x, "segment">>
      <4>1. SegmentJudged(x) /\ OwnerJudged(x)
        BY <1>0, <2>1, <3>1 DEF JudgedInOrder
      <4> QED BY <2>2, <4>1
    <3>2. CASE work.cell # <<x, "segment">>
      <4>1. cached[<<x, "segment">>].fetched = tick
        BY <1>0, <2>3, <2>4, <3>2, EstimatorConstants
      <4> QED BY <1>0, <2>2, <4>1 DEF FreshIsJudged, FreshCell
    <3> QED BY <3>1, <3>2
  <2>5. FreshIsJudged'
    BY <2>1, <2>4 DEF FreshIsJudged, FreshCell
  <2> QED BY <2>1, <2>5 DEF JudgedInOrder
<1>11. CASE EstimatorTick
  <2>1. \A c \in Cells : cached'[c].fetched <= tick /\ cached'[c].fetched \in Int
    BY <1>0, <1>11 DEF EstimatorTick, EstimatorTyped
  <2>2. tick' = tick + 1 /\ work' = work /\ work.at = "idle"
    BY <1>11 DEF EstimatorTick
  <2>3. \A c \in Cells : cached'[c].fetched # tick'
    BY <1>0, <2>1, <2>2
  <2> QED BY <2>2, <2>3, EstimatorConstants DEF JudgedInOrder, FreshIsJudged, FreshCell
<1>12. CASE Restart
  <2>1. \A c \in Cells : cached'[c].fetched = -1
    BY <1>12 DEF Restart, Missing, Never
  <2>2. tick' = tick /\ work'.at = "idle"
    BY <1>12 DEF Restart, NoWork
  <2>3. \A c \in Cells : cached'[c].fetched # tick'
    BY <1>0, <2>1, <2>2
  <2> QED BY <2>2, <2>3, EstimatorConstants DEF JudgedInOrder, FreshIsJudged, FreshCell
<1>13. CASE UNCHANGED estimatorVars
  BY <1>13, VerdictsKept DEF estimatorVars
<1> QED
  BY <1>1, <1>2, <1>3, <1>4, <1>6, <1>7, <1>8, <1>9, <1>10, <1>11, <1>12, <1>13
     DEF EstimatorNext

\* The inductive invariant of the estimator: nothing is fresh that this tick has
\* not judged (refresh_estimator_batch, evaluate_revert).
THEOREM EstimatorInvariant == EstimatorSpec => []EstimatorInv
BY InitEstimatorInv, NextEstimatorInv, PTL DEF EstimatorSpec

\* For any segments, owners, limits and losses, whatever queries fail and however
\* often the process restarts: a request is sized from what was learned only if
\* the losses of its segment and of its user were consulted in this very tick and
\* were below every dollar limit when it began (evaluate_revert).
THEOREM LearnedOnlyOnEvidence == EstimatorSpec => []LossesConsulted
<1>1. EstimatorInv => LossesConsulted
  BY DEF EstimatorInv, FreshIsJudged, SegmentJudged, OwnerJudged, LossesConsulted,
         SizesLearned, Warm, Reverted
<1> QED BY <1>1, EstimatorInvariant, PTL

-----------------------------------------------------------------------------
(* The books of one user: its ledger L, its row U and its periods P.  Every   *)
(* step leaves a user's books alone, appends an entry, opens a period or      *)
(* rewrites one, and each of these keeps the books in order.                  *)

EntryRow == [type : {"deposit", "usage", "tax"}, amount : Int]
PeriodRow == [from : Int, through : Int, usage : Int, exempt : Int, taxable : Int,
              tax : Int \cup {NoFigure}, debited : BOOLEAN, collected : Int,
              entry : Int \cup {NoFigure}, recorded : BOOLEAN]
UserRow == [older : BOOLEAN, cursor : Nat \cup {NoFigure}, granted : Int, exempt : Int,
            address : BOOLEAN]

\* The entries of a kind, those of a span of usage, what some entries add up to,
\* and where the last period ends.
Entries(L, type) == {i \in DOMAIN L : L[i].type = type}
Span(L, from, through) == {i \in Entries(L, "usage") : i > from /\ i <= through}
Amount(L, ids) == SumFunction([i \in ids |-> L[i].amount])
End(U, P) == Max({U.cursor} \cup {P[k].through : k \in DOMAIN P})

BooksTyped(L, U, P) == L \in Seq(EntryRow) /\ U \in UserRow /\ P \in Seq(PeriodRow)

\* Nothing reaches past the ledger.
Within(L, U, P) ==
    /\ U.cursor = NoFigure => P = <<>>
    /\ U.cursor # NoFigure => U.cursor <= Len(L)
    /\ \A k \in DOMAIN P : P[k].through <= Len(L)

Tiled(L, U, P) ==
    U.cursor # NoFigure =>
        /\ SumFunction([k \in DOMAIN P |-> P[k].usage])
             = -Amount(L, Span(L, U.cursor, End(U, P)))
        /\ \A k \in DOMAIN P :
             P[k].usage = -Amount(L, Span(L, P[k].from, P[k].through))
        /\ U.granted = U.exempt + SumFunction([k \in DOMAIN P |-> P[k].exempt])

\* A period that took something says which entry took it, and was priced before.
TakenByTax(L, P) ==
    \A k \in DOMAIN P :
        /\ P[k].debited => P[k].tax # NoFigure
        /\ P[k].collected > 0 =>
             /\ P[k].debited /\ P[k].entry \in 1..Len(L)
             /\ L[P[k].entry].amount = -P[k].collected

TaxDebits(P) == {k \in DOMAIN P : P[k].collected > 0}
Debits(L, P) ==
    /\ Cardinality(Entries(L, "tax")) = Cardinality(TaxDebits(P))
    /\ \A i \in Entries(L, "tax") : Amount(L, 1..i) >= 0

Books(L, U, P) ==
    BooksTyped(L, U, P) /\ Within(L, U, P) /\ Tiled(L, U, P) /\ TakenByTax(L, P) /\ Debits(L, P)

LEMMA MaxIs ==
    ASSUME NEW S, IsFiniteSet(S), S \subseteq Int, S # {}
    PROVE  Max(S) \in S /\ Max(S) \in Int /\ \A y \in S : y <= Max(S)
<1>1. \E x \in S : \A y \in S : x >= y
  BY Greatest
<1>2. Max(S) \in S /\ \A y \in S : Max(S) >= y
  BY <1>1 DEF Max
<1> QED BY <1>2

LEMMA EndIs ==
    ASSUME NEW L, NEW U, NEW P, BooksTyped(L, U, P), Within(L, U, P), U.cursor # NoFigure
    PROVE  /\ End(U, P) \in Int /\ End(U, P) <= Len(L) /\ U.cursor <= End(U, P)
           /\ U.cursor \in Int
           /\ \A k \in DOMAIN P : P[k].through <= End(U, P)
<1> DEFINE f == [k \in DOMAIN P |-> P[k].through]
           T == {f[k] : k \in DOMAIN P}
           S == {U.cursor} \cup {P[k].through : k \in DOMAIN P}
<1>1. /\ U.cursor \in Int /\ U.cursor <= Len(L) /\ Len(L) \in Nat
      /\ DOMAIN P = 1..Len(P) /\ Len(P) \in Nat
      /\ \A k \in DOMAIN P : P[k] \in PeriodRow
  BY DEF BooksTyped, UserRow, Within
<1>2. \A k \in DOMAIN P : P[k].through \in Int /\ P[k].through <= Len(L)
  BY <1>1 DEF PeriodRow, Within
<1>3. S = T \cup {U.cursor}
  OBVIOUS
<1>4. IsFiniteSet(T)
  <2>1. IsFiniteSet(DOMAIN P)
    BY <1>1, FS_Interval
  <2> QED BY <2>1, FiniteImage
<1>5. IsFiniteSet(S)
  <2> HIDE DEF T, S
  <2> QED BY <1>3, <1>4, FS_AddElement
<1>6. S \subseteq Int /\ S # {} /\ \A x \in S : x <= Len(L)
  BY <1>1, <1>2
<1>7. Max(S) \in S /\ Max(S) \in Int /\ \A y \in S : y <= Max(S)
  <2> HIDE DEF S
  <2> QED BY <1>5, <1>6, MaxIs
<1> QED BY <1>1, <1>6, <1>7 DEF End

\* Entries already in a ledger stay what they were as it grows.
LEMMA Grown ==
    ASSUME NEW L \in Seq(EntryRow), NEW e \in EntryRow, NEW M, M = Append(L, e)
    PROVE  /\ M \in Seq(EntryRow) /\ Len(L) \in Nat /\ Len(M) = Len(L) + 1
           /\ DOMAIN L = 1..Len(L) /\ DOMAIN M = 1..(Len(L) + 1)
           /\ \A i \in 1..Len(L) : M[i] = L[i]
           /\ M[Len(L) + 1] = e
OBVIOUS

LEMMA AmountType ==
    ASSUME NEW L \in Seq(EntryRow), NEW ids, ids \subseteq 1..Len(L)
    PROVE  Amount(L, ids) \in Int /\ IsFiniteSet(ids)
<1> DEFINE f == [i \in ids |-> L[i].amount]
<1>1. IsFiniteSet(ids)
  <2>1. Len(L) \in Int
    OBVIOUS
  <2>2. IsFiniteSet(1..Len(L))
    BY <2>1, FS_Interval
  <2> QED BY <2>2, FS_Subset
<1>2. \A i \in ids : f[i] \in Int
  <2>1. \A i \in ids : L[i] \in EntryRow
    OBVIOUS
  <2> QED BY <2>1 DEF EntryRow
<1>3. Amount(L, ids) = SumFunctionOnSet(f, ids)
  BY DEF Amount, SumFunction
<1> HIDE DEF f
<1> QED BY <1>1, <1>2, <1>3, SumType

LEMMA AmountStands ==
    ASSUME NEW L \in Seq(EntryRow), NEW e \in EntryRow, NEW M, M = Append(L, e),
           NEW ids, ids \subseteq 1..Len(L)
    PROVE  Amount(M, ids) = Amount(L, ids)
<1>1. \A i \in ids : M[i] = L[i]
  BY Grown
<1>2. [i \in ids |-> M[i].amount] = [i \in ids |-> L[i].amount]
  BY <1>1
<1> QED BY <1>2 DEF Amount

LEMMA TiledGrows ==
    ASSUME NEW L, NEW U, NEW P, BooksTyped(L, U, P), Within(L, U, P), Tiled(L, U, P),
           NEW e \in EntryRow, NEW M, M = Append(L, e)
    PROVE  Tiled(M, U, P)
<1> SUFFICES ASSUME U.cursor # NoFigure
             PROVE  /\ Amount(M, Span(M, U.cursor, End(U, P)))
                         = Amount(L, Span(L, U.cursor, End(U, P)))
                    /\ \A k \in DOMAIN P :
                         Amount(M, Span(M, P[k].from, P[k].through))
                           = Amount(L, Span(L, P[k].from, P[k].through))
  BY DEF Tiled
<1>1. L \in Seq(EntryRow) /\ End(U, P) \in Int /\ End(U, P) <= Len(L)
  BY EndIs DEF BooksTyped
<1>2. ASSUME NEW from, NEW through \in Int, through <= Len(L)
      PROVE  Amount(M, Span(M, from, through)) = Amount(L, Span(L, from, through))
  <2> DEFINE ids == Span(L, from, through)
  <2>0. through \in Int /\ through <= Len(L) /\ L \in Seq(EntryRow)
    BY <1>1, <1>2
  <2>1. Span(M, from, through) = ids /\ ids \subseteq 1..Len(L)
    BY <2>0, Grown DEF Span, Entries
  <2> HIDE DEF ids
  <2>2. Amount(M, ids) = Amount(L, ids)
    BY <1>1, <2>1, AmountStands
  <2> QED BY <2>1, <2>2 DEF ids
<1>3. \A k \in DOMAIN P : P[k].through \in Int /\ P[k].through <= Len(L)
  <2>1. \A k \in DOMAIN P : P[k] \in PeriodRow
    BY DEF BooksTyped
  <2> QED BY <2>1 DEF PeriodRow, Within
<1> QED BY <1>1, <1>2, <1>3

\* Any other entry than the debit of a tax.
LEMMA BooksGrow ==
    ASSUME NEW L, NEW U, NEW P, Books(L, U, P),
           NEW e \in EntryRow, e.type # "tax", NEW M, M = Append(L, e)
    PROVE  Books(M, U, P)
<1>1. BooksTyped(L, U, P) /\ Within(L, U, P) /\ Tiled(L, U, P) /\ TakenByTax(L, P) /\ Debits(L, P)
      /\ L \in Seq(EntryRow)
  BY DEF Books, BooksTyped
<1>2. /\ M \in Seq(EntryRow) /\ Len(L) \in Nat /\ Len(M) = Len(L) + 1
      /\ DOMAIN L = 1..Len(L) /\ DOMAIN M = 1..(Len(L) + 1)
      /\ \A i \in 1..Len(L) : M[i] = L[i]
      /\ M[Len(L) + 1] = e
  BY <1>1, Grown
<1>3. BooksTyped(M, U, P)
  BY <1>1, <1>2 DEF BooksTyped
<1>4. Within(M, U, P)
  <2>1. \A k \in DOMAIN P : P[k] \in PeriodRow
    BY <1>1 DEF BooksTyped
  <2>2. \A k \in DOMAIN P : P[k].through \in Int
    BY <2>1 DEF PeriodRow
  <2>3. U.cursor # NoFigure => U.cursor \in Int
    BY <1>1 DEF BooksTyped, UserRow
  <2> QED BY <1>1, <1>2, <2>2, <2>3 DEF Within
<1>5. Tiled(M, U, P)
  BY <1>1, TiledGrows
<1>6. TakenByTax(M, P)
  <2>1. \A k \in DOMAIN P : P[k].collected > 0 =>
          P[k].entry \in 1..Len(M) /\ M[P[k].entry] = L[P[k].entry]
    BY <1>1, <1>2 DEF TakenByTax
  <2> QED BY <1>1, <2>1 DEF TakenByTax
<1>7. Debits(M, P)
  <2>1. Entries(M, "tax") = Entries(L, "tax")
    BY <1>2 DEF Entries
  <2>2. ASSUME NEW i \in Entries(L, "tax") PROVE Amount(M, 1..i) >= 0
    <3> DEFINE ids == 1..i
    <3>1. ids \subseteq 1..Len(L)
      BY <1>2 DEF Entries
    <3>2. Amount(L, ids) >= 0
      BY <1>1 DEF Debits
    <3> HIDE DEF ids
    <3>3. Amount(M, ids) = Amount(L, ids)
      BY <1>1, <3>1, AmountStands
    <3> QED BY <3>2, <3>3 DEF ids
  <2> QED BY <1>1, <2>1, <2>2 DEF Debits
<1> QED BY <1>3, <1>4, <1>5, <1>6, <1>7 DEF Books

\* A period whose span and figures of usage stay what they are.
LEMMA Rewritten ==
    ASSUME NEW L, NEW U, NEW P, BooksTyped(L, U, P), Tiled(L, U, P), Within(L, U, P),
           NEW k \in DOMAIN P, NEW row \in PeriodRow,
           row.from = P[k].from, row.through = P[k].through, row.usage = P[k].usage,
           row.exempt = P[k].exempt,
           NEW Q, Q = [P EXCEPT ![k] = row]
    PROVE  /\ Q \in Seq(PeriodRow) /\ DOMAIN Q = DOMAIN P /\ Q[k] = row
           /\ \A j \in DOMAIN P : j # k => Q[j] = P[j]
           /\ Tiled(L, U, Q) /\ Within(L, U, Q)
<1>1. P \in Seq(PeriodRow)
  BY DEF BooksTyped
<1>2. /\ Q \in Seq(PeriodRow) /\ DOMAIN Q = DOMAIN P /\ Q[k] = row
      /\ \A j \in DOMAIN P : j # k => Q[j] = P[j]
  BY <1>1
<1>3. \A j \in DOMAIN P : /\ Q[j].from = P[j].from /\ Q[j].through = P[j].through
                          /\ Q[j].usage = P[j].usage /\ Q[j].exempt = P[j].exempt
  BY <1>2
<1>4. End(U, Q) = End(U, P)
  <2>1. {Q[j].through : j \in DOMAIN Q} = {P[j].through : j \in DOMAIN P}
    BY <1>2, <1>3
  <2> QED BY <2>1 DEF End
<1>5. /\ [j \in DOMAIN Q |-> Q[j].usage] = [j \in DOMAIN P |-> P[j].usage]
      /\ [j \in DOMAIN Q |-> Q[j].exempt] = [j \in DOMAIN P |-> P[j].exempt]
  BY <1>2, <1>3
<1>6. Tiled(L, U, Q)
  <2> SUFFICES ASSUME U.cursor # NoFigure
               PROVE  /\ SumFunction([j \in DOMAIN Q |-> Q[j].usage])
                           = -Amount(L, Span(L, U.cursor, End(U, Q)))
                      /\ \A j \in DOMAIN Q :
                           Q[j].usage = -Amount(L, Span(L, Q[j].from, Q[j].through))
                      /\ U.granted = U.exempt
                           + SumFunction([j \in DOMAIN Q |-> Q[j].exempt])
    BY DEF Tiled
  <2>1. SumFunction([j \in DOMAIN Q |-> Q[j].usage])
          = -Amount(L, Span(L, U.cursor, End(U, Q)))
    BY <1>4, <1>5 DEF Tiled
  <2>2. \A j \in DOMAIN Q :
          Q[j].usage = -Amount(L, Span(L, Q[j].from, Q[j].through))
    <3> SUFFICES ASSUME NEW j \in DOMAIN Q
                 PROVE  Q[j].usage = -Amount(L, Span(L, Q[j].from, Q[j].through))
      OBVIOUS
    <3>1. j \in DOMAIN P
      BY <1>2
    <3>2. P[j].usage = -Amount(L, Span(L, P[j].from, P[j].through))
      BY <3>1 DEF Tiled
    <3> QED BY <1>3, <3>1, <3>2
  <2>3. U.granted = U.exempt + SumFunction([j \in DOMAIN Q |-> Q[j].exempt])
    BY <1>5 DEF Tiled
  <2> QED BY <2>1, <2>2, <2>3
<1>7. Within(L, U, Q)
  <2>1. P # <<>>
    BY <1>1
  <2> QED BY <1>2, <1>3, <2>1 DEF Within
<1> QED BY <1>2, <1>6, <1>7

\* A figure is frozen, a filing noted, or a tax absorbed whole.
LEMMA BooksRewrite ==
    ASSUME NEW L, NEW U, NEW P, Books(L, U, P),
           NEW k \in DOMAIN P, NEW row \in PeriodRow,
           row.from = P[k].from, row.through = P[k].through, row.usage = P[k].usage,
           row.exempt = P[k].exempt, row.debited => row.tax # NoFigure,
           row.collected > 0 <=> P[k].collected > 0,
           row.collected > 0 =>
              row.debited /\ row.collected = P[k].collected /\ row.entry = P[k].entry,
           NEW Q, Q = [P EXCEPT ![k] = row]
    PROVE  Books(L, U, Q)
<1>1. BooksTyped(L, U, P) /\ Within(L, U, P) /\ Tiled(L, U, P) /\ TakenByTax(L, P) /\ Debits(L, P)
  BY DEF Books
<1>2. /\ Q \in Seq(PeriodRow) /\ DOMAIN Q = DOMAIN P /\ Q[k] = row
      /\ \A j \in DOMAIN P : j # k => Q[j] = P[j]
      /\ Tiled(L, U, Q) /\ Within(L, U, Q)
  BY <1>1, Rewritten
<1>3. BooksTyped(L, U, Q)
  BY <1>1, <1>2 DEF BooksTyped
<1>4. TakenByTax(L, Q)
  BY <1>1, <1>2 DEF TakenByTax
<1>5. TaxDebits(Q) = TaxDebits(P)
  BY <1>2 DEF TaxDebits
<1>6. Debits(L, Q)
  BY <1>1, <1>5 DEF Debits
<1> QED BY <1>2, <1>3, <1>4, <1>6 DEF Books

LEMMA FiguresType ==
    ASSUME NEW n \in Nat, NEW f, DOMAIN f = 1..n, \A i \in 1..n : f[i] \in Int
    PROVE  SumFunction(f) \in Int
<1> DEFINE S == 1..n
<1>1. SumFunction(f) = SumFunctionOnSet(f, S)
  BY DEF SumFunction
<1>2. IsFiniteSet(S)
  <2>1. n \in Int /\ 1 \in Int
    OBVIOUS
  <2> QED BY <2>1, FS_Interval
<1>3. \A i \in S : f[i] \in Int
  OBVIOUS
<1> HIDE DEF S
<1> QED BY <1>1, <1>2, <1>3, SumType

\* One more figure in a row of figures.
LEMMA FigureAdds ==
    ASSUME NEW n \in Nat, NEW m, m = n + 1, NEW f, DOMAIN f = 1..n,
           NEW g, DOMAIN g = 1..m,
           \A i \in 1..n : f[i] \in Int /\ g[i] = f[i], g[m] \in Int
    PROVE  SumFunction(g) = g[m] + SumFunction(f)
<1> DEFINE S == 1..n
           T == 1..m
<1>1. SumFunction(g) = SumFunctionOnSet(g, T) /\ SumFunction(f) = SumFunctionOnSet(f, S)
  BY DEF SumFunction
<1>2. T = S \cup {m} /\ m \notin S
  OBVIOUS
<1>3. IsFiniteSet(S)
  <2>1. n \in Int /\ 1 \in Int
    OBVIOUS
  <2> QED BY <2>1, FS_Interval
<1>4. \A i \in S : f[i] \in Int /\ g[i] = f[i]
  OBVIOUS
<1> HIDE DEF S, T
<1>5. SumFunctionOnSet(g, T) = g[m] + SumFunctionOnSet(g, S)
  BY <1>2, <1>3, <1>4, SumAdd
<1>6. SumFunctionOnSet(g, S) = SumFunctionOnSet(f, S)
  BY <1>3, <1>4, SumSame
<1> QED BY <1>1, <1>5, <1>6

\* The balance after one more entry.
LEMMA AmountAdds ==
    ASSUME NEW L \in Seq(EntryRow), NEW e \in EntryRow, NEW M, M = Append(L, e)
    PROVE  Amount(M, 1..(Len(L) + 1)) = e.amount + Amount(L, 1..Len(L))
<1> DEFINE n == Len(L)
           m == n + 1
           f == [i \in 1..n |-> L[i].amount]
           g == [i \in 1..m |-> M[i].amount]
<1>1. n \in Nat /\ (\A i \in 1..n : M[i] = L[i]) /\ M[m] = e
  BY Grown
<1>2. \A i \in 1..n : L[i] \in EntryRow
  OBVIOUS
<1>3. \A i \in 1..n : f[i] \in Int /\ g[i] = f[i]
  BY <1>1, <1>2 DEF EntryRow
<1>4. g[m] = e.amount /\ g[m] \in Int
  BY <1>1 DEF EntryRow
<1>5. DOMAIN f = 1..n /\ DOMAIN g = 1..m
  OBVIOUS
<1>6. Amount(M, 1..m) = SumFunction(g) /\ Amount(L, 1..n) = SumFunction(f)
  BY DEF Amount
<1>7. m = n + 1
  OBVIOUS
<1> HIDE DEF f, g, n, m
<1>8. SumFunction(g) = g[m] + SumFunction(f)
  BY <1>1, <1>3, <1>4, <1>5, <1>7, FigureAdds
<1> QED BY <1>4, <1>6, <1>8 DEF m, n

LEMMA OneMoreEach ==
    ASSUME NEW S, IsFiniteSet(S), NEW x, x \notin S, NEW T, T = S \cup {x}
    PROVE  IsFiniteSet(T) /\ Cardinality(T) = Cardinality(S) + 1
BY FS_AddElement

\* The debit of a tax, with its entry, or of nothing at all.
LEMMA BooksCollect ==
    ASSUME NEW L, NEW U, NEW P, Books(L, U, P),
           NEW k \in DOMAIN P, NEW row \in PeriodRow,
           row.from = P[k].from, row.through = P[k].through, row.usage = P[k].usage,
           row.exempt = P[k].exempt, ~P[k].debited, row.debited, row.tax # NoFigure,
           row.collected > 0,
           row.entry = Len(L) + 1,
           NEW e \in EntryRow, e.type = "tax", e.amount = -row.collected,
           row.collected <= Amount(L, 1..Len(L)),
           NEW M, M = Append(L, e),
           NEW Q, Q = [P EXCEPT ![k] = row]
    PROVE  Books(M, U, Q)
<1>1. /\ BooksTyped(L, U, P) /\ Within(L, U, P) /\ Tiled(L, U, P) /\ TakenByTax(L, P)
      /\ Debits(L, P) /\ L \in Seq(EntryRow) /\ P \in Seq(PeriodRow)
  BY DEF Books, BooksTyped
<1>2. /\ Q \in Seq(PeriodRow) /\ DOMAIN Q = DOMAIN P /\ Q[k] = row
      /\ \A j \in DOMAIN P : j # k => Q[j] = P[j]
      /\ Tiled(L, U, Q) /\ Within(L, U, Q)
  BY <1>1, Rewritten
<1>3. /\ M \in Seq(EntryRow) /\ Len(L) \in Nat /\ Len(M) = Len(L) + 1
      /\ DOMAIN L = 1..Len(L) /\ DOMAIN M = 1..(Len(L) + 1)
      /\ \A i \in 1..Len(L) : M[i] = L[i]
      /\ M[Len(L) + 1] = e
  BY <1>1, Grown
<1>4. BooksTyped(L, U, Q) /\ BooksTyped(M, U, Q)
  BY <1>1, <1>2, <1>3 DEF BooksTyped
<1>5. Tiled(M, U, Q)
  BY <1>2, <1>4, TiledGrows
<1>6. Within(M, U, Q)
  <2>1. \A j \in DOMAIN Q : Q[j] \in PeriodRow
    BY <1>2
  <2>2. \A j \in DOMAIN Q : Q[j].through \in Int
    BY <2>1 DEF PeriodRow
  <2>3. U.cursor # NoFigure => U.cursor \in Int
    BY <1>1 DEF BooksTyped, UserRow
  <2> QED BY <1>2, <1>3, <2>2, <2>3 DEF Within
<1>7. TakenByTax(M, Q)
  <2> SUFFICES ASSUME NEW j \in DOMAIN Q
               PROVE  /\ Q[j].debited => Q[j].tax # NoFigure
                      /\ Q[j].collected > 0 =>
                           /\ Q[j].debited /\ Q[j].entry \in 1..Len(M)
                           /\ M[Q[j].entry].amount = -Q[j].collected
    BY DEF TakenByTax
  <2>1. CASE j = k
    BY <1>2, <1>3, <2>1
  <2>2. CASE j # k
    <3>1. Q[j] = P[j] /\ j \in DOMAIN P
      BY <1>2, <2>2
    <3>2. P[j].collected > 0 => P[j].entry \in 1..Len(M) /\ M[P[j].entry] = L[P[j].entry]
      BY <1>1, <1>3, <3>1 DEF TakenByTax
    <3> QED BY <1>1, <3>1, <3>2 DEF TakenByTax
  <2> QED BY <2>1, <2>2
<1>8. Debits(M, Q)
  <2> DEFINE n == Len(L) + 1
  <2>1. Entries(M, "tax") = Entries(L, "tax") \cup {n} /\ n \notin Entries(L, "tax")
    BY <1>3 DEF Entries
  <2>2. TaxDebits(Q) = TaxDebits(P) \cup {k} /\ k \notin TaxDebits(P)
    BY <1>1, <1>2 DEF TaxDebits, TakenByTax
  <2>3. IsFiniteSet(Entries(L, "tax")) /\ IsFiniteSet(TaxDebits(P))
    <3>1. Len(P) \in Nat /\ DOMAIN P = 1..Len(P)
      BY <1>1
    <3>0. Len(L) \in Int /\ Len(P) \in Int /\ 1 \in Int
      BY <1>3, <3>1
    <3>1a. IsFiniteSet(1..Len(L))
      BY <3>0, FS_Interval
    <3>1b. IsFiniteSet(1..Len(P))
      BY <3>0, FS_Interval
    <3>2. IsFiniteSet(1..Len(L)) /\ IsFiniteSet(1..Len(P))
      BY <3>1a, <3>1b
    <3>3. Entries(L, "tax") \subseteq 1..Len(L) /\ TaxDebits(P) \subseteq 1..Len(P)
      BY <1>3, <3>1 DEF Entries, TaxDebits
    <3> QED BY <3>2, <3>3, FS_Subset
  <2>4. Cardinality(Entries(M, "tax")) = Cardinality(TaxDebits(Q))
    <3> DEFINE A == Entries(L, "tax")
               B == TaxDebits(P)
               C == Entries(M, "tax")
               D == TaxDebits(Q)
    <3> HIDE DEF A, B, C, D, n
    <3>1. Cardinality(C) = Cardinality(A) + 1
      BY <2>1, <2>3, OneMoreEach DEF A, C
    <3>2. Cardinality(D) = Cardinality(B) + 1
      BY <2>2, <2>3, OneMoreEach DEF B, D
    <3>3. Cardinality(A) = Cardinality(B)
      BY <1>1 DEF A, B, Debits
    <3> QED BY <3>1, <3>2, <3>3 DEF C, D
  <2>5. ASSUME NEW i \in Entries(M, "tax") PROVE Amount(M, 1..i) >= 0
    <3>1. CASE i = n
      <4>1. Amount(M, 1..n) = e.amount + Amount(L, 1..Len(L))
        BY <1>1, AmountAdds
      <4>2. 1..Len(L) \subseteq 1..Len(L)
        OBVIOUS
      <4>3. Amount(L, 1..Len(L)) \in Int
        BY <1>1, <4>2, AmountType
      <4>4. e.amount \in Int /\ row.collected \in Int
        BY DEF EntryRow, PeriodRow
      <4> QED BY <3>1, <4>1, <4>3, <4>4
    <3>2. CASE i # n
      <4> DEFINE ids == 1..i
      <4>1. i \in Entries(L, "tax") /\ ids \subseteq 1..Len(L)
        BY <1>3, <2>1, <2>5, <3>2 DEF Entries
      <4>2. Amount(L, ids) >= 0
        BY <1>1, <4>1 DEF Debits
      <4> HIDE DEF ids
      <4>3. Amount(M, ids) = Amount(L, ids)
        BY <1>1, <4>1, AmountStands
      <4> QED BY <4>2, <4>3 DEF ids
    <3> QED BY <3>1, <3>2
  <2> QED BY <2>4, <2>5 DEF Debits
<1> QED BY <1>2, <1>4, <1>5, <1>6, <1>7, <1>8 DEF Books

\* What entries of two kinds add up to.
LEMMA AmountOver ==
    ASSUME NEW L \in Seq(EntryRow), NEW ids, ids \subseteq 1..Len(L),
           NEW f, \A i \in ids : f[i] = L[i].amount
    PROVE  Amount(L, ids) = SumFunctionOnSet(f, ids)
<1> DEFINE g == [i \in ids |-> L[i].amount]
<1>1. Amount(L, ids) = SumFunctionOnSet(g, ids)
  BY DEF Amount, SumFunction
<1>2. \A i \in ids : g[i] \in Int /\ f[i] = g[i]
  <2>1. \A i \in ids : L[i] \in EntryRow
    OBVIOUS
  <2> QED BY <2>1 DEF EntryRow
<1>3. IsFiniteSet(ids)
  BY AmountType
<1> HIDE DEF g
<1>4. SumFunctionOnSet(f, ids) = SumFunctionOnSet(g, ids)
  BY <1>2, <1>3, SumSame
<1> QED BY <1>1, <1>4

LEMMA AmountJoins ==
    ASSUME NEW L \in Seq(EntryRow), NEW A, A \subseteq 1..Len(L),
           NEW B, B \subseteq 1..Len(L), A \cap B = {}, NEW C, C = A \cup B
    PROVE  Amount(L, C) = Amount(L, A) + Amount(L, B)
<1> DEFINE R == 1..Len(L)
           f == [i \in R |-> L[i].amount]
<1>1. IsFiniteSet(R)
  <2>1. R \subseteq 1..Len(L)
    OBVIOUS
  <2> QED BY <2>1, AmountType
<1>2. /\ \A i \in R : f[i] = L[i].amount /\ f[i] \in Int
      /\ A \in SUBSET R /\ B \in SUBSET R /\ C \in SUBSET R
  <2>1. \A i \in R : L[i] \in EntryRow
    OBVIOUS
  <2> QED BY <2>1 DEF EntryRow
<1>3. R \subseteq 1..Len(L)
  OBVIOUS
<1> HIDE DEF R, f
<1>4. /\ Amount(L, A) = SumFunctionOnSet(f, A)
      /\ Amount(L, B) = SumFunctionOnSet(f, B)
      /\ Amount(L, C) = SumFunctionOnSet(f, C)
  <2>1. C \subseteq 1..Len(L)
    OBVIOUS
  <2>2. (\A i \in A : f[i] = L[i].amount) /\ (\A i \in B : f[i] = L[i].amount)
        /\ (\A i \in C : f[i] = L[i].amount)
    BY <1>2
  <2> QED BY <2>1, <2>2, AmountOver
<1> DEFINE a == Padded(f, A, R)
           b == Padded(f, B, R)
           c == Padded(f, C, R)
<1>5. a \in [R -> Int] /\ b \in [R -> Int] /\ \A x \in R : c[x] = a[x] + b[x]
  <2>1. \A x \in R : f[x] \in Int
    BY <1>2
  <2>2. a \in [R -> Int] /\ b \in [R -> Int]
    BY <2>1 DEF Padded
  <2>3. ASSUME NEW x \in R PROVE c[x] = a[x] + b[x]
    <3>1. /\ a[x] = IF x \in A THEN f[x] ELSE 0
          /\ b[x] = IF x \in B THEN f[x] ELSE 0
          /\ c[x] = IF x \in C THEN f[x] ELSE 0
      BY DEF Padded
    <3>2. f[x] \in Int /\ (x \in C <=> x \in A \/ x \in B) /\ ~(x \in A /\ x \in B)
      BY <2>1
    <3> HIDE DEF a, b, c
    <3> QED BY <3>1, <3>2
  <2> QED BY <2>2, <2>3
<1>6. /\ SumFunctionOnSet(f, A) = SumFunctionOnSet(a, R)
      /\ SumFunctionOnSet(f, B) = SumFunctionOnSet(b, R)
      /\ SumFunctionOnSet(f, C) = SumFunctionOnSet(c, R)
  <2>1. (\A x \in A : f[x] \in Int) /\ (\A x \in B : f[x] \in Int)
        /\ (\A x \in C : f[x] \in Int)
    BY <1>2
  <2> QED BY <1>1, <1>2, <2>1, SumPadded
<1> HIDE DEF a, b, c
<1>7. SumFunctionOnSet(c, R) = SumFunctionOnSet(a, R) + SumFunctionOnSet(b, R)
  BY <1>1, <1>5, SumPlus
<1> QED BY <1>4, <1>6, <1>7

\* The usage no period covers yet.
Unswept(L, U, P) == {i \in Entries(L, "usage") : i > End(U, P)}

\* A period over all of it.
LEMMA BooksOpen ==
    ASSUME NEW L, NEW U, NEW P, Books(L, U, P), U.cursor # NoFigure,
           Unswept(L, U, P) # {},
           NEW row \in PeriodRow, row.from = End(U, P),
           row.through = Max(Unswept(L, U, P)),
           row.usage = -Amount(L, Unswept(L, U, P)),
           ~row.debited, row.collected = 0,
           NEW V \in UserRow, V.cursor = U.cursor, V.granted = U.granted,
           V.exempt = U.exempt - row.exempt,
           NEW Q, Q = Append(P, row)
    PROVE  Books(L, V, Q)
<1> DEFINE F == Unswept(L, U, P)
           from == End(U, P)
           through == Max(F)
           n == Len(P)
<1>1. /\ BooksTyped(L, U, P) /\ Within(L, U, P) /\ Tiled(L, U, P) /\ TakenByTax(L, P)
      /\ Debits(L, P) /\ L \in Seq(EntryRow) /\ P \in Seq(PeriodRow) /\ U \in UserRow
  BY DEF Books, BooksTyped
<1>2. /\ Q \in Seq(PeriodRow) /\ n \in Nat /\ DOMAIN P = 1..n /\ DOMAIN Q = 1..(n + 1)
      /\ (\A j \in 1..n : Q[j] = P[j]) /\ Q[n + 1] = row
  BY <1>1
<1>3. /\ from \in Int /\ from <= Len(L) /\ U.cursor <= from /\ U.cursor \in Int
      /\ \A k \in DOMAIN P : P[k].through <= from
  BY <1>1, EndIs
<1>4. Len(L) \in Nat /\ DOMAIN L = 1..Len(L) /\ F \subseteq 1..Len(L) /\ F # {}
  BY <1>1 DEF Unswept, Entries
<1>5. through \in F /\ through \in Int /\ \A y \in F : y <= through
  <2> HIDE DEF F
  <2>1. IsFiniteSet(F)
    BY <1>1, <1>4, AmountType
  <2>2. F \subseteq Int
    BY <1>4
  <2> QED BY <1>4, <2>1, <2>2, MaxIs
<1>6. through > from /\ through <= Len(L)
  BY <1>4, <1>5 DEF Unswept
<1>7. \A k \in 1..n : P[k] \in PeriodRow /\ P[k].through \in Int
  <2>1. \A k \in 1..n : P[k] \in PeriodRow
    BY <1>1, <1>2
  <2> QED BY <2>1 DEF PeriodRow
<1>8. BooksTyped(L, V, Q)
  BY <1>1, <1>2 DEF BooksTyped
<1>9. Within(L, V, Q)
  <2>1. \A k \in DOMAIN Q : Q[k].through <= Len(L)
    <3> SUFFICES ASSUME NEW k \in 1..(n + 1) PROVE Q[k].through <= Len(L)
      BY <1>2
    <3>1. CASE k = n + 1
      BY <1>2, <1>6, <3>1
    <3>2. CASE k # n + 1
      <4>1. k \in 1..n
        BY <1>2, <3>2
      <4> QED BY <1>1, <1>2, <4>1 DEF Within
    <3> QED BY <3>1, <3>2
  <2>2. V.cursor # NoFigure /\ V.cursor <= Len(L)
    BY <1>1 DEF Within
  <2> QED BY <2>1, <2>2 DEF Within
<1>10. End(V, Q) = through
  <2> DEFINE S == {V.cursor} \cup {Q[k].through : k \in DOMAIN Q}
  <2>1. through \in S
    BY <1>2
  <2>2. S \subseteq Int /\ \A y \in S : y <= through
    <3> SUFFICES ASSUME NEW y \in S PROVE y \in Int /\ y <= through
      OBVIOUS
    <3>1. CASE y = V.cursor
      BY <1>3, <1>5, <1>6, <3>1
    <3>2. CASE y # V.cursor
      <4>1. PICK k \in 1..(n + 1) : y = Q[k].through
        BY <1>2, <3>2
      <4>2. CASE k = n + 1
        BY <1>2, <1>5, <4>1, <4>2
      <4>3. CASE k # n + 1
        <5>1. k \in 1..n
          BY <1>2, <4>3
        <5>2. y = P[k].through /\ y \in Int
          BY <1>2, <1>7, <4>1, <5>1
        <5> QED BY <1>2, <1>3, <1>5, <1>6, <5>1, <5>2
      <4> QED BY <4>2, <4>3
    <3> QED BY <3>1, <3>2
  <2> HIDE DEF S
  <2>3. \A x \in S : (\A y \in S : x >= y) => x = through
    BY <2>1, <2>2, <1>5
  <2>4. \A y \in S : through >= y
    BY <2>2, <1>5
  <2>5. Max(S) = through
    <3>1. \E x \in S : \A y \in S : x >= y
      BY <2>1, <2>4
    <3>2. Max(S) \in S /\ \A y \in S : Max(S) >= y
      BY <3>1 DEF Max
    <3> QED BY <2>3, <3>2
  <2> QED BY <2>5 DEF End, S
<1>11. Span(L, from, through) = F
  BY <1>3, <1>4, <1>5 DEF Span, Unswept, Entries
<1>12. /\ Span(L, U.cursor, through) = Span(L, U.cursor, from) \cup F
       /\ Span(L, U.cursor, from) \cap F = {}
       /\ Span(L, U.cursor, from) \subseteq 1..Len(L)
  <2>1. \A i \in Entries(L, "usage") : i \in Int /\ i \in 1..Len(L)
    BY <1>4 DEF Entries
  <2>2. \A i \in Entries(L, "usage") : i \in F <=> i > from
    BY DEF Unswept
  <2>3. F \subseteq Entries(L, "usage")
    BY DEF Unswept
  <2>4. \A i \in Entries(L, "usage") :
          i > U.cursor /\ i <= through
            <=> (i > U.cursor /\ i <= from) \/ i \in F
    <3> HIDE DEF F
    <3> QED BY <1>3, <1>5, <1>6, <2>1, <2>2
  <2>5. \A i \in Entries(L, "usage") : ~(i <= from /\ i \in F)
    <3> HIDE DEF F
    <3> QED BY <1>3, <2>1, <2>2
  <2> HIDE DEF F, from, through
  <2> QED BY <2>1, <2>3, <2>4, <2>5 DEF Span
<1>13. Amount(L, Span(L, U.cursor, through))
         = Amount(L, Span(L, U.cursor, from)) + Amount(L, F)
  <2> DEFINE A == Span(L, U.cursor, from)
             C == Span(L, U.cursor, through)
  <2> HIDE DEF A, C, F
  <2>1. A \subseteq 1..Len(L) /\ A \cap F = {} /\ C = A \cup F
    BY <1>12 DEF A, C
  <2>2. Amount(L, C) = Amount(L, A) + Amount(L, F)
    BY <1>1, <1>4, <2>1, AmountJoins
  <2> QED BY <2>2 DEF A, C
<1>14. /\ SumFunction([k \in DOMAIN Q |-> Q[k].usage])
            = row.usage + SumFunction([k \in DOMAIN P |-> P[k].usage])
       /\ SumFunction([k \in DOMAIN P |-> P[k].usage]) \in Int
  <2> DEFINE f == [k \in DOMAIN P |-> P[k].usage]
             g == [k \in DOMAIN Q |-> Q[k].usage]
             m == n + 1
  <2>1. n \in Nat /\ m = n + 1 /\ DOMAIN f = 1..n /\ DOMAIN g = 1..m
    BY <1>2
  <2>2. \A i \in 1..n : f[i] \in Int /\ g[i] = f[i]
    <3>1. \A i \in 1..n : P[i].usage \in Int
      BY <1>7 DEF PeriodRow
    <3>2. \A i \in 1..n : i \in DOMAIN P /\ i \in DOMAIN Q /\ Q[i] = P[i]
      BY <1>2
    <3> QED BY <3>1, <3>2
  <2>3. g[m] = row.usage /\ g[m] \in Int
    BY <1>2 DEF PeriodRow
  <2> HIDE DEF f, g, m, n
  <2>4. SumFunction(g) = g[m] + SumFunction(f)
    BY <2>1, <2>2, <2>3, FigureAdds
  <2>5. SumFunction(f) \in Int
    BY <2>1, <2>2, FiguresType
  <2> QED BY <2>3, <2>4, <2>5 DEF f, g
<1>15. /\ SumFunction([k \in DOMAIN Q |-> Q[k].exempt])
            = row.exempt + SumFunction([k \in DOMAIN P |-> P[k].exempt])
       /\ SumFunction([k \in DOMAIN P |-> P[k].exempt]) \in Int
  <2> DEFINE f == [k \in DOMAIN P |-> P[k].exempt]
             g == [k \in DOMAIN Q |-> Q[k].exempt]
             m == n + 1
  <2>1. n \in Nat /\ m = n + 1 /\ DOMAIN f = 1..n /\ DOMAIN g = 1..m
    BY <1>2
  <2>2. \A i \in 1..n : f[i] \in Int /\ g[i] = f[i]
    <3>1. \A i \in 1..n : P[i].exempt \in Int
      BY <1>7 DEF PeriodRow
    <3>2. \A i \in 1..n : i \in DOMAIN P /\ i \in DOMAIN Q /\ Q[i] = P[i]
      BY <1>2
    <3> QED BY <3>1, <3>2
  <2>3. g[m] = row.exempt /\ g[m] \in Int
    BY <1>2 DEF PeriodRow
  <2> HIDE DEF f, g, m, n
  <2>4. SumFunction(g) = g[m] + SumFunction(f)
    BY <2>1, <2>2, <2>3, FigureAdds
  <2>5. SumFunction(f) \in Int
    BY <2>1, <2>2, FiguresType
  <2> QED BY <2>3, <2>4, <2>5 DEF f, g
<1>16. Tiled(L, V, Q)
  <2> SUFFICES /\ SumFunction([j \in DOMAIN Q |-> Q[j].usage])
                    = -Amount(L, Span(L, U.cursor, through))
               /\ \A j \in DOMAIN Q :
                    Q[j].usage = -Amount(L, Span(L, Q[j].from, Q[j].through))
               /\ V.granted = V.exempt
                    + SumFunction([j \in DOMAIN Q |-> Q[j].exempt])
    BY <1>10 DEF Tiled
  <2>1. SumFunction([j \in DOMAIN Q |-> Q[j].usage])
          = -Amount(L, Span(L, U.cursor, through))
    <3>1. SumFunction([k \in DOMAIN P |-> P[k].usage])
            = -Amount(L, Span(L, U.cursor, from))
      BY <1>1 DEF Tiled
    <3>2. Amount(L, Span(L, U.cursor, from)) \in Int /\ Amount(L, F) \in Int
      <4>1. Span(L, U.cursor, from) \subseteq 1..Len(L)
        BY <1>12
      <4> DEFINE A == Span(L, U.cursor, from)
      <4> HIDE DEF A, F
      <4> QED BY <1>1, <1>4, <4>1, AmountType DEF A
    <3>3. row.usage = -Amount(L, F)
      OBVIOUS
    <3> DEFINE p == SumFunction([k \in DOMAIN P |-> P[k].usage])
               q == SumFunction([j \in DOMAIN Q |-> Q[j].usage])
               x == Amount(L, Span(L, U.cursor, from))
               y == Amount(L, F)
               z == Amount(L, Span(L, U.cursor, through))
    <3>4. q = row.usage + p /\ p = -x /\ z = x + y /\ row.usage = -y
      BY <1>13, <1>14, <3>1, <3>3
    <3> HIDE DEF p, q, x, y, z
    <3>5. x \in Int /\ y \in Int
      BY <3>2 DEF x, y
    <3>6. q = -z
      BY <3>4, <3>5
    <3> QED BY <3>6 DEF q, z
  <2>2. \A j \in DOMAIN Q :
          Q[j].usage = -Amount(L, Span(L, Q[j].from, Q[j].through))
    <3> SUFFICES ASSUME NEW j \in 1..(n + 1)
                 PROVE  Q[j].usage = -Amount(L, Span(L, Q[j].from, Q[j].through))
      BY <1>2
    <3>1. CASE j = n + 1
      BY <1>2, <1>11, <3>1
    <3>2. CASE j # n + 1
      <4>1. j \in 1..n
        BY <1>2, <3>2
      <4>2. P[j].usage = -Amount(L, Span(L, P[j].from, P[j].through))
        BY <1>1, <1>2, <4>1 DEF Tiled
      <4> QED BY <1>2, <4>1, <4>2
    <3> QED BY <3>1, <3>2
  <2>3. V.granted = V.exempt + SumFunction([j \in DOMAIN Q |-> Q[j].exempt])
    <3>1. U.granted = U.exempt + SumFunction([k \in DOMAIN P |-> P[k].exempt])
      BY <1>1 DEF Tiled
    <3>2. U.exempt \in Int /\ row.exempt \in Int
      BY <1>1 DEF UserRow, PeriodRow
    <3> DEFINE p == SumFunction([k \in DOMAIN P |-> P[k].exempt])
               q == SumFunction([j \in DOMAIN Q |-> Q[j].exempt])
    <3>3. q = row.exempt + p /\ p \in Int /\ U.granted = U.exempt + p
      BY <1>15, <3>1
    <3> HIDE DEF p, q
    <3>4. V.granted = V.exempt + q
      BY <3>2, <3>3
    <3> QED BY <3>4 DEF q
  <2> QED BY <2>1, <2>2, <2>3
<1>17. TakenByTax(L, Q)
  <2> SUFFICES ASSUME NEW j \in 1..(n + 1)
               PROVE  /\ Q[j].debited => Q[j].tax # NoFigure
                      /\ Q[j].collected > 0 =>
                           /\ Q[j].debited /\ Q[j].entry \in 1..Len(L)
                           /\ L[Q[j].entry].amount = -Q[j].collected
    BY <1>2 DEF TakenByTax
  <2>1. CASE j = n + 1
    BY <1>2, <2>1
  <2>2. CASE j # n + 1
    <3>1. j \in 1..n
      BY <1>2, <2>2
    <3> QED BY <1>1, <1>2, <3>1 DEF TakenByTax
  <2> QED BY <2>1, <2>2
<1>18. TaxDebits(Q) = TaxDebits(P)
  <2>1. \A j \in 1..(n + 1) : j = n + 1 \/ j \in 1..n
    BY <1>2
  <2>2. ~(Q[n + 1].collected > 0)
    BY <1>2
  <2>3. 1..n \subseteq 1..(n + 1)
    BY <1>2
  <2> QED BY <1>2, <2>1, <2>2, <2>3 DEF TaxDebits
<1>19. Debits(L, Q)
  BY <1>1, <1>18 DEF Debits
<1> QED BY <1>8, <1>9, <1>16, <1>17, <1>19 DEF Books

\* A user's row before the tax knows it, and the books it opens.
LEMMA BooksEnroll ==
    ASSUME NEW L, NEW U, NEW P, Books(L, U, P), U.cursor = NoFigure,
           NEW V \in UserRow, V.cursor \in Nat, V.cursor <= Len(L),
           V.granted = V.exempt
    PROVE  Books(L, V, P)
<1>1. /\ BooksTyped(L, U, P) /\ Within(L, U, P) /\ TakenByTax(L, P)
      /\ Debits(L, P) /\ L \in Seq(EntryRow) /\ P = <<>>
  BY DEF Books, BooksTyped, Within
<1>2. BooksTyped(L, V, P)
  BY <1>1 DEF BooksTyped
<1>3. V.cursor # NoFigure
  BY TaxAssumption
<1>4. Within(L, V, P)
  BY <1>1, <1>3 DEF Within
<1>5. DOMAIN P = {}
  BY <1>1
<1>6. End(V, P) = V.cursor
  <2> DEFINE S == {V.cursor} \cup {P[k].through : k \in DOMAIN P}
  <2>1. S = {V.cursor} /\ V.cursor \in Int
    BY <1>5
  <2> HIDE DEF S
  <2>2. \E x \in S : \A y \in S : x >= y
    BY <2>1
  <2>3. Max(S) \in S
    BY <2>2 DEF Max
  <2> QED BY <2>1, <2>3 DEF End, S
<1>7. Amount(L, Span(L, V.cursor, End(V, P))) = 0
  <2>1. DOMAIN L = 1..Len(L) /\ Len(L) \in Nat
    BY <1>1
  <2>2. Span(L, V.cursor, End(V, P)) = {}
    BY <1>6, <2>1 DEF Span, Entries
  <2>3. Amount(L, {}) = SumFunctionOnSet([i \in {} |-> L[i].amount], {})
    BY DEF Amount, SumFunction
  <2> QED BY <2>2, <2>3, SumEmpty
<1>8. /\ SumFunction([k \in DOMAIN P |-> P[k].usage]) = 0
      /\ SumFunction([k \in DOMAIN P |-> P[k].exempt]) = 0
  BY <1>5, SumEmpty DEF SumFunction
<1>9. Tiled(L, V, P)
  <2>1. V.exempt \in Int
    BY DEF UserRow
  <2> QED BY <1>5, <1>7, <1>8, <2>1 DEF Tiled
<1> QED BY <1>1, <1>2, <1>4, <1>9 DEF Books

LEMMA BooksBegin ==
    ASSUME NEW e \in EntryRow, e.type # "tax", NEW U \in UserRow, U.cursor = NoFigure
    PROVE  Books(<<e>>, U, <<>>)
<1> DEFINE L == <<e>>
           P == << >>
<1>1. L \in Seq(EntryRow) /\ P \in Seq(PeriodRow) /\ DOMAIN P = {} /\ DOMAIN L = {1}
      /\ L[1] = e
  OBVIOUS
<1>2. BooksTyped(L, U, P) /\ Within(L, U, P) /\ Tiled(L, U, P) /\ TakenByTax(L, P)
  BY <1>1 DEF BooksTyped, Within, Tiled, TakenByTax
<1>3. Entries(L, "tax") = {} /\ TaxDebits(P) = {}
  BY <1>1 DEF Entries, TaxDebits
<1>4. Debits(L, P)
  BY <1>3 DEF Debits
<1> QED BY <1>2, <1>4 DEF Books

\* What concerns a user's address or exemption mark leaves its books alone.
LEMMA BooksElse ==
    ASSUME NEW L, NEW U, NEW P, Books(L, U, P), NEW V \in UserRow,
           V.cursor = U.cursor, V.granted = U.granted, V.exempt = U.exempt
    PROVE  Books(L, V, P)
<1>1. End(V, P) = End(U, P)
  BY DEF End
<1> QED BY <1>1 DEF Books, BooksTyped, Within, Tiled

-----------------------------------------------------------------------------
(* The sweeps.  What a listing said of a row may be stale, but not that a     *)
(* user was enrolled, that a ledger was so long or that a row was debited.    *)

Held(P, p) == p \in Ids /\ p[2] \in DOMAIN P[p[1]]

\* What a sweep may still rely on of what it listed.
SweepOk(s, L, U, P) ==
    /\ DOMAIN s = {"at", "todo", "item", "answer"}
    /\ s.answer \in Int \cup {NoFigure}
    /\ s.at = "enrolling" =>
         \A row \in s.todo : /\ row.user \in Spenders /\ row.cursor \in Nat
                             /\ row.cursor <= Len(L[row.user])
    /\ s.at = "opening" =>
         \A u \in s.todo : u \in Spenders /\ U[u].cursor # NoFigure
    /\ s.at = "recording" =>
         \A p \in s.todo : Held(P, p) /\ P[p[1]][p[2]].debited

FiledOk(t, P) ==
    LET p == t.reference
    IN  Held(P, p) /\ P[p[1]][p[2]].tax = t.tax /\ P[p[1]][p[2]].debited

TaxTyped ==
    /\ DOMAIN ledger = Spenders /\ DOMAIN users = Spenders /\ DOMAIN periods = Spenders
    /\ settling \in [Spenders -> Nat] /\ held \in [Spenders -> Nat]
    /\ DOMAIN sweep = TaxSweeps

TaxInv ==
    /\ TaxTyped
    /\ \A u \in Spenders : Books(ledger[u], users[u], periods[u])
    /\ \A w \in TaxSweeps : SweepOk(sweep[w], ledger, users, periods)
    /\ \A t \in filed : FiledOk(t, periods)

\* What no step undoes.
Lasting(L, U, P, M, V, Q) ==
    \A u \in Spenders :
        /\ Len(L[u]) <= Len(M[u])
        /\ U[u].cursor # NoFigure => V[u].cursor # NoFigure
        /\ DOMAIN P[u] \subseteq DOMAIN Q[u]
        /\ \A k \in DOMAIN P[u] :
             P[u][k].debited => Q[u][k].debited /\ Q[u][k].tax = P[u][k].tax

LEMMA Ident == \A p \in Ids : p[1] \in Spenders /\ p[2] \in Nat
BY TaxAssumption DEF Ids

LEMMA StillOk ==
    ASSUME NEW s, NEW L, NEW U, NEW P, NEW M, NEW V, NEW Q, SweepOk(s, L, U, P),
           \A u \in Spenders : Len(L[u]) \in Nat /\ Len(M[u]) \in Nat,
           Lasting(L, U, P, M, V, Q)
    PROVE  SweepOk(s, M, V, Q)
<1>1. s.at = "enrolling" => \A row \in s.todo : row.cursor <= Len(M[row.user])
  BY DEF SweepOk, Lasting
<1>2. s.at = "opening" => \A u \in s.todo : V[u].cursor # NoFigure
  BY DEF SweepOk, Lasting
<1>3. s.at = "recording" => \A p \in s.todo : Held(Q, p) /\ Q[p[1]][p[2]].debited
  BY Ident DEF SweepOk, Lasting, Held
<1> QED BY <1>1, <1>2, <1>3 DEF SweepOk

LEMMA StillFiled ==
    ASSUME NEW t, NEW L, NEW U, NEW P, NEW M, NEW V, NEW Q, FiledOk(t, P),
           Lasting(L, U, P, M, V, Q)
    PROVE  FiledOk(t, Q)
BY Ident DEF FiledOk, Lasting, Held

LEMMA TaxStarts == TaxInit => TaxInv
<1> SUFFICES ASSUME TaxInit PROVE TaxInv
  OBVIOUS
<1>1. TaxTyped
  BY DEF TaxInit, TaxTyped
<1>2. ASSUME NEW u \in Spenders PROVE Books(ledger[u], users[u], periods[u])
  <2> DEFINE e == [type |-> "deposit", amount |-> Opening]
  <2>1. e \in EntryRow /\ e.type # "tax"
    BY TaxAssumption DEF EntryRow
  <2>2. users[u] \in UserRow /\ users[u].cursor = NoFigure
    <3>1. PICK older \in BOOLEAN :
             users[u] = [older |-> older, cursor |-> NoFigure, granted |-> 0,
                         exempt |-> 0, address |-> FALSE]
      BY DEF TaxInit
    <3> QED BY <3>1 DEF UserRow
  <2>3. ledger[u] = <<e>> /\ periods[u] = <<>>
    BY DEF TaxInit
  <2> HIDE DEF e
  <2> QED BY <2>1, <2>2, <2>3, BooksBegin
<1>3. \A w \in TaxSweeps : SweepOk(sweep[w], ledger, users, periods)
  BY DEF TaxInit, Resting, SweepOk
<1>4. filed = {}
  BY DEF TaxInit
<1> QED BY <1>1, <1>2, <1>3, <1>4 DEF TaxInv

\* What a user's books say of their types.
LEMMA BooksSay ==
    ASSUME TaxInv, NEW u \in Spenders
    PROVE  /\ Books(ledger[u], users[u], periods[u])
           /\ ledger[u] \in Seq(EntryRow) /\ users[u] \in UserRow
           /\ periods[u] \in Seq(PeriodRow)
           /\ Len(ledger[u]) \in Nat
BY DEF TaxInv, Books, BooksTyped

\* A step that only moves a sweep on.
LEMMA SweepMoves ==
    ASSUME TaxInv, UNCHANGED <<ledger, held, settling, users, periods, filed>>,
           NEW w \in TaxSweeps, DOMAIN sweep' = TaxSweeps,
           \A v \in TaxSweeps : v # w => sweep'[v] = sweep[v],
           SweepOk(sweep'[w], ledger, users, periods)
    PROVE  TaxInv'
<1>1. TaxTyped'
  BY DEF TaxInv, TaxTyped
<1>2. \A v \in TaxSweeps : SweepOk(sweep'[v], ledger', users', periods')
  BY DEF TaxInv
<1>3. /\ \A u \in Spenders : Books(ledger'[u], users'[u], periods'[u])
      /\ \A t \in filed' : FiledOk(t, periods')
  BY DEF TaxInv
<1> QED BY <1>1, <1>2, <1>3 DEF TaxInv

\* A step of a user, or of a sweep at the books of one.
LEMMA BooksMove ==
    ASSUME TaxInv, TaxTyped', filed' = filed,
           \A u \in Spenders : Books(ledger'[u], users'[u], periods'[u]),
           Lasting(ledger, users, periods, ledger', users', periods'),
           \A v \in TaxSweeps : \/ sweep'[v] = sweep[v]
                                \/ SweepOk(sweep'[v], ledger, users, periods)
    PROVE  TaxInv'
<1>1. \A u \in Spenders : Len(ledger[u]) \in Nat /\ Len(ledger'[u]) \in Nat
  <2>1. \A u \in Spenders : ledger'[u] \in Seq(EntryRow)
    BY DEF Books, BooksTyped
  <2> QED BY <2>1, BooksSay
<1>2. ASSUME NEW v \in TaxSweeps PROVE SweepOk(sweep'[v], ledger', users', periods')
  <2>1. SweepOk(sweep'[v], ledger, users, periods)
    BY DEF TaxInv
  <2> QED BY <1>1, <2>1, StillOk
<1>3. \A t \in filed' : FiledOk(t, periods')
  BY StillFiled DEF TaxInv
<1> QED BY <1>2, <1>3 DEF TaxInv

LEMMA TurnIs ==
    ASSUME TaxInv, NEW w \in TaxSweeps, NEW step, NEW todo, Turn(w, step, todo)
    PROVE  /\ DOMAIN sweep' = TaxSweeps
           /\ sweep'[w] = [at |-> step, todo |-> todo, item |-> NoFigure, answer |-> NoFigure]
           /\ \A v \in TaxSweeps : v # w => sweep'[v] = sweep[v]
BY DEF Turn, TaxInv, TaxTyped

\* Nothing is left to do at a step that lists nothing.
LEMMA TurnsSafely ==
    ASSUME TaxInv, UNCHANGED <<ledger, held, settling, users, periods, filed>>,
           NEW w \in TaxSweeps, NEW step, NEW todo, Turn(w, step, todo),
           step = "enrolling" =>
              \A row \in todo : /\ row.user \in Spenders /\ row.cursor \in Nat
                                /\ row.cursor <= Len(ledger[row.user]),
           step = "opening" => \A u \in todo : u \in Spenders /\ users[u].cursor # NoFigure,
           step = "recording" =>
              \A p \in todo : Held(periods, p) /\ periods[p[1]][p[2]].debited
    PROVE  TaxInv'
<1>1. /\ DOMAIN sweep' = TaxSweeps
      /\ sweep'[w] = [at |-> step, todo |-> todo, item |-> NoFigure, answer |-> NoFigure]
      /\ \A v \in TaxSweeps : v # w => sweep'[v] = sweep[v]
  BY TurnIs
<1>2. SweepOk(sweep'[w], ledger, users, periods)
  BY <1>1 DEF SweepOk
<1> QED BY <1>1, <1>2, SweepMoves

LEMMA NextIs ==
    ASSUME TaxInv, NEW w \in TaxSweeps, NEW x, Next1(w, x)
    PROVE  /\ DOMAIN sweep' = TaxSweeps
           /\ SweepOk(sweep'[w], ledger, users, periods)
           /\ \A v \in TaxSweeps : v # w => sweep'[v] = sweep[v]
<1>1. DOMAIN sweep[w] = {"at", "todo", "item", "answer"} /\ DOMAIN sweep = TaxSweeps
      /\ SweepOk(sweep[w], ledger, users, periods)
  BY DEF TaxInv, SweepOk, TaxTyped
<1>2. /\ DOMAIN sweep' = TaxSweeps
      /\ DOMAIN sweep'[w] = {"at", "todo", "item", "answer"}
      /\ sweep'[w].at = sweep[w].at /\ sweep'[w].todo = sweep[w].todo \ {x}
      /\ sweep'[w].answer = NoFigure
      /\ \A v \in TaxSweeps : v # w => sweep'[v] = sweep[v]
  BY <1>1 DEF Next1
<1>3. SweepOk(sweep'[w], ledger, users, periods)
  BY <1>1, <1>2 DEF SweepOk
<1> QED BY <1>2, <1>3

-----------------------------------------------------------------------------
(* The steps of users.                                                        *)

\* A user's ledger takes an entry that is no debit of a tax.
LEMMA LedgerTakes ==
    ASSUME TaxInv, NEW u \in Spenders, NEW type \in {"deposit", "usage"},
           NEW amount \in Int, Append1(u, type, amount),
           users' = users, periods' = periods
    PROVE  /\ DOMAIN ledger' = Spenders
           /\ \A v \in Spenders : Books(ledger'[v], users'[v], periods'[v])
           /\ Lasting(ledger, users, periods, ledger', users', periods')
<1> DEFINE e == [type |-> type, amount |-> amount]
<1>1. DOMAIN ledger' = Spenders /\ ledger'[u] = Append(ledger[u], e)
      /\ \A v \in Spenders : v # u => ledger'[v] = ledger[v]
  BY DEF Append1, TaxInv, TaxTyped
<1>2. e \in EntryRow /\ e.type # "tax"
  BY DEF EntryRow
<1> HIDE DEF e
<1>3. ASSUME NEW v \in Spenders
      PROVE  Books(ledger'[v], users'[v], periods'[v])
  <2>1. CASE v = u
    <3>1. Books(ledger[u], users[u], periods[u])
      BY BooksSay
    <3>2. Books(ledger'[u], users[u], periods[u])
      BY <1>1, <1>2, <3>1, BooksGrow
    <3> QED BY <2>1, <3>2
  <2>2. CASE v # u
    BY <1>1, <2>2, BooksSay
  <2> QED BY <2>1, <2>2
<1>4. \A v \in Spenders : Len(ledger[v]) <= Len(ledger'[v])
  <2> SUFFICES ASSUME NEW v \in Spenders PROVE Len(ledger[v]) <= Len(ledger'[v])
    OBVIOUS
  <2>1. ledger[u] \in Seq(EntryRow) /\ Len(ledger[v]) \in Nat
    BY BooksSay
  <2>2. Len(ledger'[u]) = Len(ledger[u]) + 1
    BY <1>1, <1>2, <2>1
  <2> QED BY <1>1, <2>1, <2>2
<1>5. Lasting(ledger, users, periods, ledger', users', periods')
  BY <1>4 DEF Lasting
<1> QED BY <1>1, <1>3, <1>5

LEMMA UserSteps ==
    ASSUME TaxInv, NEW u \in Spenders
    PROVE  StoreAddress(u) \/ Deposit(u) \/ Admit(u) \/ SettleBegins(u)
             \/ SettleCommits(u) \/ SettleRefused(u) => TaxInv'
<1>0. /\ DOMAIN ledger = Spenders /\ DOMAIN users = Spenders /\ DOMAIN periods = Spenders
      /\ settling \in [Spenders -> Nat] /\ held \in [Spenders -> Nat]
      /\ DOMAIN sweep = TaxSweeps
  BY DEF TaxInv, TaxTyped
<1>00. \A v \in Spenders : Len(ledger[v]) \in Nat
  BY BooksSay
<1>1. ASSUME StoreAddress(u) PROVE TaxInv'
  <2>1. /\ DOMAIN users' = Spenders /\ users'[u] = [users[u] EXCEPT !.address = TRUE]
        /\ \A v \in Spenders : v # u => users'[v] = users[v]
        /\ UNCHANGED <<ledger, held, settling, periods, sweep, filed>>
    BY <1>0, <1>1 DEF StoreAddress
  <2>2. /\ users'[u] \in UserRow /\ users'[u].cursor = users[u].cursor
        /\ users'[u].granted = users[u].granted /\ users'[u].exempt = users[u].exempt
    <3>1. users[u] \in UserRow
      BY BooksSay
    <3> QED BY <2>1, <3>1 DEF UserRow
  <2>3. ASSUME NEW v \in Spenders
        PROVE  Books(ledger'[v], users'[v], periods'[v]) /\ users'[v].cursor = users[v].cursor
    <3>1. CASE v = u
      BY <2>1, <2>2, <3>1, BooksElse, BooksSay
    <3>2. CASE v # u
      BY <2>1, <3>2, BooksSay
    <3> QED BY <3>1, <3>2
  <2>4. Lasting(ledger, users, periods, ledger', users', periods')
    BY <1>00, <2>1, <2>3 DEF Lasting
  <2>5. TaxTyped'
    BY <1>0, <2>1 DEF TaxTyped
  <2> QED BY <2>1, <2>3, <2>4, <2>5, BooksMove
<1>2. ASSUME Deposit(u) PROVE TaxInv'
  <2>1. /\ Append1(u, "deposit", Topup) /\ Topup \in Int
        /\ UNCHANGED <<held, settling, users, periods, sweep, filed>>
    BY <1>2, TaxAssumption DEF Deposit
  <2>2. /\ DOMAIN ledger' = Spenders
        /\ \A v \in Spenders : Books(ledger'[v], users'[v], periods'[v])
        /\ Lasting(ledger, users, periods, ledger', users', periods')
    BY <2>1, LedgerTakes
  <2>3. TaxTyped'
    BY <1>0, <2>1, <2>2 DEF TaxTyped
  <2> QED BY <2>1, <2>2, <2>3, BooksMove
<1>3. ASSUME SettleCommits(u) PROVE TaxInv'
  <2>1. /\ Append1(u, "usage", -settling[u]) /\ -settling[u] \in Int
        /\ settling' = [settling EXCEPT ![u] = 0] /\ held' = [held EXCEPT ![u] = 0]
        /\ UNCHANGED <<users, periods, sweep, filed>>
    BY <1>0, <1>3 DEF SettleCommits
  <2>2. /\ DOMAIN ledger' = Spenders
        /\ \A v \in Spenders : Books(ledger'[v], users'[v], periods'[v])
        /\ Lasting(ledger, users, periods, ledger', users', periods')
    BY <2>1, LedgerTakes
  <2>3. TaxTyped'
    BY <1>0, <2>1, <2>2 DEF TaxTyped
  <2> QED BY <2>1, <2>2, <2>3, BooksMove
<1>4. ASSUME Admit(u) \/ SettleBegins(u) \/ SettleRefused(u) PROVE TaxInv'
  <2>1. UNCHANGED <<ledger, users, periods, sweep, filed>>
    BY <1>4 DEF Admit, SettleBegins, SettleRefused
  <2>2. settling' \in [Spenders -> Nat] /\ held' \in [Spenders -> Nat]
    <3>1. \A a \in Amounts : a \in Nat
      BY TaxAssumption
    <3> QED BY <1>0, <1>4, <3>1 DEF Admit, SettleBegins, SettleRefused
  <2>3. TaxTyped'
    BY <1>0, <2>1, <2>2 DEF TaxTyped
  <2>4. Lasting(ledger, users, periods, ledger', users', periods')
    BY <1>00, <2>1 DEF Lasting
  <2> QED BY <2>1, <2>3, <2>4, BooksMove, BooksSay
<1> QED BY <1>1, <1>2, <1>3, <1>4

-----------------------------------------------------------------------------
(* The steps of a sweep that touch nobody's books.                            *)

LEMMA ListingSteps ==
    ASSUME TaxInv, NEW w \in TaxSweeps
    PROVE  SweepBegins(w) \/ EnrollmentFails(w) \/ ListFresh(w) \/ ListUnpriced(w)
             \/ DryRunEnds(w) \/ ListUncollected(w) \/ ListUnrecorded(w)
             \/ SweepEnds(w) \/ SweepStops(w) => TaxInv'
<1>1. ASSUME SweepBegins(w) PROVE TaxInv'
  <2> DEFINE todo == {[user |-> u, cursor |-> Len(ledger[u])] :
                        u \in {v \in Spenders : ~Enrolled(v)}}
  <2>1. Turn(w, "enrolling", todo)
        /\ UNCHANGED <<ledger, held, settling, users, periods, filed>>
    BY <1>1 DEF SweepBegins
  <2>2. \A row \in todo : /\ row.user \in Spenders /\ row.cursor \in Nat
                          /\ row.cursor <= Len(ledger[row.user])
    <3>1. \A u \in Spenders : Len(ledger[u]) \in Nat /\ Len(ledger[u]) <= Len(ledger[u])
      <4>1. \A u \in Spenders : Len(ledger[u]) \in Nat
        BY BooksSay
      <4> QED BY <4>1
    <3> QED BY <3>1
  <2> HIDE DEF todo
  <2> QED BY <2>1, <2>2, TurnsSafely
<1>2. ASSUME EnrollmentFails(w) \/ DryRunEnds(w) \/ SweepEnds(w) \/ SweepStops(w)
      PROVE  TaxInv'
  <2>1. UNCHANGED <<ledger, held, settling, users, periods, filed>>
        /\ (Turn(w, "enrolled", {}) \/ Turn(w, "idle", {}))
    BY <1>2 DEF EnrollmentFails, DryRunEnds, SweepEnds, SweepStops
  <2>2. CASE Turn(w, "enrolled", {})
    BY <2>1, <2>2, TurnsSafely
  <2>3. CASE Turn(w, "idle", {})
    BY <2>1, <2>3, TurnsSafely
  <2> QED BY <2>1, <2>2, <2>3
<1>3. ASSUME ListFresh(w) PROVE TaxInv'
  <2>1. PICK todo \in {{u \in Spenders : Enrolled(u) /\ Fresh(u) # {}}, {}} :
          Turn(w, "opening", todo)
    BY <1>3 DEF ListFresh
  <2>2. UNCHANGED <<ledger, held, settling, users, periods, filed>>
    BY <1>3 DEF ListFresh
  <2>3. \A u \in todo : u \in Spenders /\ users[u].cursor # NoFigure
    BY DEF Enrolled
  <2> QED BY <2>1, <2>2, <2>3, TurnsSafely
<1>4. ASSUME NEW done, NEW step \in {"pricing", "collecting"}, NEW eligible,
             ListRows(w, done, step, eligible)
      PROVE  TaxInv'
  <2>1. PICK todo \in {eligible, {}} : Turn(w, step, todo)
    BY <1>4 DEF ListRows
  <2>2. UNCHANGED <<ledger, held, settling, users, periods, filed>>
    BY <1>4 DEF ListRows
  <2>3. step # "enrolling" /\ step # "opening" /\ step # "recording"
    OBVIOUS
  <2> QED BY <2>1, <2>2, <2>3, TurnsSafely
<1>5. ASSUME ListUnpriced(w) PROVE TaxInv'
  <2> DEFINE todo == {p \in Rows : Row(p).tax = NoFigure}
  <2>1. ListRows(w, "opening", "pricing", todo)
    BY <1>5 DEF ListUnpriced
  <2> HIDE DEF todo
  <2> QED BY <1>4, <2>1
<1>6. ASSUME ListUncollected(w) PROVE TaxInv'
  <2> DEFINE todo == {p \in Rows : Row(p).tax # NoFigure /\ ~Row(p).debited}
  <2>1. ListRows(w, "pricing", "collecting", todo)
    BY <1>6 DEF ListUncollected
  <2> HIDE DEF todo
  <2> QED BY <1>4, <2>1
<1>7. ASSUME ListUnrecorded(w) PROVE TaxInv'
  <2> DEFINE listed == {p \in Rows : Unrecorded(Row(p))}
  <2>1. ListRows(w, "collecting", "recording", listed)
    BY <1>7 DEF ListUnrecorded
  <2>2. \A p \in listed : Held(periods, p) /\ periods[p[1]][p[2]].debited
    BY DEF Rows, Row, Unrecorded, Held
  <2> HIDE DEF listed
  <2>3. PICK todo \in {listed, {}} : Turn(w, "recording", todo)
    BY <2>1 DEF ListRows
  <2>4. UNCHANGED <<ledger, held, settling, users, periods, filed>>
    BY <2>1 DEF ListRows
  <2>5. \A p \in todo : Held(periods, p) /\ periods[p[1]][p[2]].debited
    BY <2>2
  <2> QED BY <2>3, <2>4, <2>5, TurnsSafely
<1> QED BY <1>1, <1>2, <1>3, <1>5, <1>6, <1>7

LEMMA IdleSteps ==
    ASSUME TaxInv, NEW w \in TaxSweeps
    PROVE  ItemFails(w) \/ (\E p \in Rows : Calculate(w, p)) => TaxInv'
<1>1. ASSUME ItemFails(w) PROVE TaxInv'
  <2>1. PICK x \in sweep[w].todo : Next1(w, x)
    BY <1>1 DEF ItemFails
  <2>2. UNCHANGED <<ledger, held, settling, users, periods, filed>>
    BY <1>1 DEF ItemFails
  <2> QED BY <2>1, <2>2, NextIs, SweepMoves
<1>2. ASSUME NEW p \in Rows, Calculate(w, p) PROVE TaxInv'
  <2>1. PICK tax \in TaxFigures :
          sweep' = [sweep EXCEPT ![w].item = p, ![w].answer = tax]
    BY <1>2 DEF Calculate
  <2>2. UNCHANGED <<ledger, held, settling, users, periods, filed>>
    BY <1>2 DEF Calculate
  <2>3. DOMAIN sweep[w] = {"at", "todo", "item", "answer"} /\ DOMAIN sweep = TaxSweeps
        /\ SweepOk(sweep[w], ledger, users, periods)
    BY DEF TaxInv, SweepOk, TaxTyped
  <2>4. /\ DOMAIN sweep' = TaxSweeps
        /\ DOMAIN sweep'[w] = {"at", "todo", "item", "answer"}
        /\ sweep'[w].at = sweep[w].at /\ sweep'[w].todo = sweep[w].todo
        /\ sweep'[w].answer = tax
        /\ \A v \in TaxSweeps : v # w => sweep'[v] = sweep[v]
    BY <2>1, <2>3
  <2>5. tax \in Int
    BY TaxAssumption
  <2>6. SweepOk(sweep'[w], ledger, users, periods)
    BY <2>3, <2>4, <2>5 DEF SweepOk
  <2> QED BY <2>2, <2>4, <2>6, SweepMoves
<1> QED BY <1>1, <1>2

-----------------------------------------------------------------------------
(* The steps that open, price, debit and file.                                *)

LEMMA MaxOfTwo ==
    ASSUME NEW a \in Int, NEW b \in Int
    PROVE  /\ Max({a, b}) \in Int /\ Max({a, b}) \in {a, b}
           /\ Min({a, b}) \in Int /\ Min({a, b}) <= a /\ Min({a, b}) <= b
<1> DEFINE S == {a, b}
<1>1. (\E x \in S : \A y \in S : x >= y) /\ (\E x \in S : \A y \in S : x =< y)
  <2>1. CASE a <= b
    <3>1. (\A y \in S : b >= y) /\ (\A y \in S : a =< y)
      BY <2>1
    <3> QED BY <3>1
  <2>2. CASE b <= a
    <3>1. (\A y \in S : a >= y) /\ (\A y \in S : b =< y)
      BY <2>2
    <3> QED BY <3>1
  <2> QED BY <2>1, <2>2
<1>2. a \in S /\ b \in S /\ S \subseteq Int
  OBVIOUS
<1> HIDE DEF S
<1>3. Max(S) \in S
  BY <1>1 DEF Max
<1>4. Min(S) \in S /\ \A y \in S : Min(S) =< y
  BY <1>1 DEF Min
<1> QED BY <1>2, <1>3, <1>4 DEF S

LEMMA PositiveIs ==
    ASSUME NEW n \in Int
    PROVE  Positive(n) \in Int /\ (Positive(n) > 0 => Positive(n) = n)
<1>1. \A b \in Int : Max({n, b}) \in Int /\ Max({n, b}) \in {n, b}
  BY MaxOfTwo
<1>2. 0 \in Int
  OBVIOUS
<1>3. Max({n, 0}) \in Int /\ Max({n, 0}) \in {n, 0}
  BY <1>1, <1>2, Zenon
<1> QED BY <1>3 DEF Positive

LEMMA BalanceIs ==
    ASSUME TaxInv, NEW u \in Spenders
    PROVE  Balance(u) = Amount(ledger[u], 1..Len(ledger[u])) /\ Balance(u) \in Int
<1>1. Balance(u) = Amount(ledger[u], 1..Len(ledger[u]))
  BY DEF Balance, BalanceAt, Amount
<1> DEFINE L == ledger[u]
           ids == 1..Len(L)
<1>2. L \in Seq(EntryRow) /\ ids \subseteq 1..Len(L)
  BY BooksSay
<1> HIDE DEF L, ids
<1>3. Amount(L, ids) \in Int
  BY <1>2, AmountType
<1> QED BY <1>1, <1>3 DEF L, ids

LEMMA Enrolling ==
    ASSUME TaxInv, NEW w \in TaxSweeps, EnrollmentCommits(w)
    PROVE  TaxInv'
<1> DEFINE listed == sweep[w].todo
<1>1. /\ \A row \in listed : row.user \in Spenders /\ row.cursor \in Nat
                             /\ row.cursor <= Len(ledger[row.user])
      /\ DOMAIN users' = Spenders
      /\ UNCHANGED <<ledger, held, settling, periods, filed>>
      /\ Turn(w, "enrolled", {})
  BY DEF EnrollmentCommits, AtStep, TaxInv, SweepOk
<1>2. ASSUME NEW u \in Spenders
      PROVE  /\ Books(ledger[u], users'[u], periods[u])
             /\ users[u].cursor # NoFigure => users'[u].cursor # NoFigure
  <2>0. Books(ledger[u], users[u], periods[u]) /\ users[u] \in UserRow
    BY BooksSay
  <2>1. CASE \E row \in listed : row.user = u /\ ~Enrolled(u)
    <3> DEFINE row == CHOOSE x \in listed : x.user = u
               grant == IF users[u].older THEN Positive(Balance(u)) ELSE 0
               V == [users[u] EXCEPT !.cursor = row.cursor, !.granted = grant,
                                     !.exempt = grant]
    <3>1. row \in listed /\ row.user = u
      BY <2>1
    <3>2. row.cursor \in Nat /\ row.cursor <= Len(ledger[u])
      <4> HIDE DEF row, listed
      <4> QED BY <1>1, <3>1
    <3>3. grant \in Int
      BY BalanceIs, PositiveIs
    <3>4. users'[u] = V
      BY <2>1 DEF EnrollmentCommits
    <3> HIDE DEF row, grant, listed
    <3>5. V \in UserRow /\ V.cursor = row.cursor /\ V.granted = V.exempt
      BY <2>0, <3>2, <3>3 DEF UserRow
    <3>6. users[u].cursor = NoFigure
      BY <2>1 DEF Enrolled
    <3> HIDE DEF V
    <3>7. Books(ledger[u], V, periods[u])
      BY <2>0, <3>2, <3>5, <3>6, BooksEnroll
    <3> QED BY <3>4, <3>6, <3>7
  <2>2. CASE ~(\E row \in listed : row.user = u /\ ~Enrolled(u))
    <3>1. users'[u] = users[u]
      BY <2>2 DEF EnrollmentCommits
    <3> QED BY <2>0, <3>1
  <2> QED BY <2>1, <2>2
<1>3. /\ DOMAIN sweep' = TaxSweeps
      /\ \A v \in TaxSweeps : v # w => sweep'[v] = sweep[v]
      /\ SweepOk(sweep'[w], ledger, users, periods)
  <2>1. /\ DOMAIN sweep' = TaxSweeps
        /\ sweep'[w] = [at |-> "enrolled", todo |-> {}, item |-> NoFigure,
                        answer |-> NoFigure]
        /\ \A v \in TaxSweeps : v # w => sweep'[v] = sweep[v]
    BY <1>1, TurnIs
  <2> QED BY <2>1 DEF SweepOk
<1>4. TaxTyped'
  BY <1>1, <1>3 DEF TaxInv, TaxTyped
<1>5. Lasting(ledger, users, periods, ledger', users', periods')
  <2>1. \A u \in Spenders : Len(ledger[u]) \in Nat
    BY BooksSay
  <2> QED BY <1>1, <1>2, <2>1 DEF Lasting
<1> QED BY <1>1, <1>2, <1>3, <1>4, <1>5, BooksMove

LEMMA Opens ==
    ASSUME TaxInv, NEW w \in TaxSweeps, NEW u \in Spenders, OpenPeriod(w, u)
    PROVE  TaxInv'
<1>1. /\ UNCHANGED <<ledger, held, settling, filed>> /\ Next1(w, u)
      /\ users[u].cursor # NoFigure
  BY DEF OpenPeriod, AtStep, TaxInv, SweepOk
<1>2. /\ DOMAIN sweep' = TaxSweeps
      /\ SweepOk(sweep'[w], ledger, users, periods)
      /\ \A v \in TaxSweeps : v # w => sweep'[v] = sweep[v]
  BY <1>1, NextIs
<1>3. CASE Fresh(u) = {}
  <2>1. periods' = periods /\ users' = users
    BY <1>3 DEF OpenPeriod
  <2> QED BY <1>1, <1>2, <2>1, SweepMoves
<1>4. CASE Fresh(u) # {}
  <2> DEFINE L == ledger[u]
             U == users[u]
             P == periods[u]
             row == Period(u)
             V == [U EXCEPT !.exempt = @ - row.exempt]
             Q == Append(P, row)
  <2>1. /\ Books(L, U, P) /\ L \in Seq(EntryRow) /\ U \in UserRow
        /\ P \in Seq(PeriodRow) /\ BooksTyped(L, U, P) /\ Within(L, U, P)
    BY BooksSay DEF Books
  <2>2. periods' = [periods EXCEPT ![u] = Append(@, row)]
        /\ users' = [users EXCEPT ![u].exempt = @ - row.exempt]
    BY <1>4 DEF OpenPeriod, ExemptionUsed
  <2>3. DOMAIN users = Spenders /\ DOMAIN periods = Spenders
    BY DEF TaxInv, TaxTyped
  <2>4. /\ DOMAIN periods' = Spenders /\ DOMAIN users' = Spenders
        /\ periods'[u] = Q /\ users'[u] = V
        /\ \A v \in Spenders : v # u => periods'[v] = periods[v] /\ users'[v] = users[v]
    BY <2>2, <2>3
  <2>5. /\ Fresh(u) = Unswept(L, U, P) /\ Cursor(u) = End(U, P)
        /\ Spent(u, Fresh(u)) = -Amount(L, Unswept(L, U, P))
    <3>1. Cursor(u) = End(U, P)
      BY DEF Cursor, End
    <3>2. Fresh(u) = Unswept(L, U, P)
      BY <3>1 DEF Fresh, Unswept, Usages, Entries
    <3> QED BY <3>1, <3>2 DEF Spent, Amount
  <2>6. /\ End(U, P) \in Int /\ Max(Unswept(L, U, P)) \in Int
        /\ Amount(L, Unswept(L, U, P)) \in Int
    <3> DEFINE F == Unswept(L, U, P)
    <3>1. DOMAIN L = 1..Len(L)
      BY <2>1
    <3>2. F \subseteq 1..Len(L) /\ F # {}
      BY <1>4, <2>5, <3>1 DEF Unswept, Entries
    <3>3. F \subseteq Int
      BY <3>2
    <3> HIDE DEF F, L, U, P
    <3>4. Amount(L, F) \in Int /\ IsFiniteSet(F)
      BY <2>1, <3>2, AmountType
    <3>5. Max(F) \in Int
      BY <3>2, <3>3, <3>4, MaxIs
    <3>6. End(U, P) \in Int
      BY <1>1, <2>1, EndIs DEF U
    <3> QED BY <3>4, <3>5, <3>6 DEF F
  <2>7. /\ row \in PeriodRow /\ row.from = End(U, P)
        /\ row.through = Max(Unswept(L, U, P))
        /\ row.usage = -Amount(L, Unswept(L, U, P))
        /\ ~row.debited /\ row.collected = 0
    <3> DEFINE usage == Spent(u, Fresh(u))
               exempt == Min({users[u].exempt, usage})
    <3>1. usage \in Int /\ users[u].exempt \in Int
      BY <2>1, <2>5, <2>6 DEF UserRow
    <3>2. exempt \in Int
      <4> HIDE DEF usage
      <4> QED BY <3>1, MaxOfTwo
    <3>3. usage = -Amount(L, Unswept(L, U, P))
      BY <2>5
    <3>4. row = [from |-> Cursor(u), through |-> Max(Fresh(u)), usage |-> usage,
                 exempt |-> exempt, taxable |-> usage - exempt, tax |-> NoFigure,
                 debited |-> FALSE, collected |-> 0, entry |-> NoFigure,
                 recorded |-> FALSE]
      BY DEF Period
    <3> HIDE DEF usage, exempt, row, L, U, P
    <3>5. Cursor(u) \in Int /\ Max(Fresh(u)) \in Int
      BY <2>5, <2>6
    <3>6. row \in PeriodRow
      BY <3>1, <3>2, <3>4, <3>5 DEF PeriodRow
    <3> QED BY <2>5, <3>3, <3>4, <3>6
  <2>8. /\ V \in UserRow /\ V.cursor = U.cursor /\ V.granted = U.granted
        /\ V.exempt = U.exempt - row.exempt
    <3>1. row.exempt \in Int /\ U.exempt \in Int
      BY <2>1, <2>7 DEF UserRow, PeriodRow
    <3> HIDE DEF row, U
    <3> QED BY <2>1, <3>1 DEF UserRow
  <2>9. Q = Append(P, row) /\ Unswept(L, U, P) # {} /\ U.cursor # NoFigure
    BY <1>1, <1>4, <2>5
  <2>10. /\ DOMAIN P \subseteq DOMAIN Q /\ \A k \in DOMAIN P : Q[k] = P[k]
    <3> HIDE DEF row, P
    <3> QED BY <2>1, <2>7
  <2> HIDE DEF L, U, P, Q, V, row
  <2>11. Books(L, V, Q)
    BY <2>1, <2>7, <2>8, <2>9, BooksOpen
  <2>12. ASSUME NEW v \in Spenders
         PROVE  /\ Books(ledger'[v], users'[v], periods'[v])
                /\ users'[v].cursor = users[v].cursor
                /\ DOMAIN periods[v] \subseteq DOMAIN periods'[v]
                /\ \A k \in DOMAIN periods[v] : periods'[v][k] = periods[v][k]
    <3>1. CASE v = u
      <4>1. ledger'[v] = L /\ users'[v] = V /\ periods'[v] = Q
            /\ users[v] = U /\ periods[v] = P
        BY <1>1, <2>4, <3>1 DEF L, U, P
      <4> QED BY <2>8, <2>10, <2>11, <4>1
    <3>2. CASE v # u
      BY <1>1, <2>4, <3>2, BooksSay
    <3> QED BY <3>1, <3>2
  <2>13. Lasting(ledger, users, periods, ledger', users', periods')
    <3>1. \A v \in Spenders : Len(ledger[v]) \in Nat
      BY BooksSay
    <3> QED BY <1>1, <2>12, <3>1 DEF Lasting
  <2>14. TaxTyped'
    BY <1>1, <1>2, <2>4 DEF TaxInv, TaxTyped
  <2> QED BY <1>1, <1>2, <2>12, <2>13, <2>14, BooksMove
<1> QED BY <1>3, <1>4

LEMMA RowIs ==
    ASSUME TaxInv, NEW p \in Rows
    PROVE  /\ p[1] \in Spenders /\ p[2] \in DOMAIN periods[p[1]]
           /\ Row(p) = periods[p[1]][p[2]] /\ Row(p) \in PeriodRow
           /\ Held(periods, p)
           /\ (Row(p).debited => Row(p).tax # NoFigure)
           /\ (Row(p).collected > 0 => Row(p).debited)
<1>1. p[1] \in Spenders /\ p[2] \in DOMAIN periods[p[1]] /\ p \in Ids
  BY Ident DEF Rows
<1>2. Row(p) = periods[p[1]][p[2]]
  BY DEF Row
<1>3. periods[p[1]] \in Seq(PeriodRow) /\ Books(ledger[p[1]], users[p[1]], periods[p[1]])
  BY <1>1, BooksSay
<1>4. Row(p) \in PeriodRow
  BY <1>1, <1>2, <1>3
<1>5. TakenByTax(ledger[p[1]], periods[p[1]])
  BY <1>3 DEF Books
<1> QED BY <1>1, <1>2, <1>4, <1>5 DEF TakenByTax, Held

LEMMA WriteIs ==
    ASSUME TaxInv, NEW p \in Rows, NEW row, Write(p, row)
    PROVE  /\ DOMAIN periods' = Spenders
           /\ periods'[p[1]] = [periods[p[1]] EXCEPT ![p[2]] = row]
           /\ \A v \in Spenders : v # p[1] => periods'[v] = periods[v]
BY RowIs DEF Write, TaxInv, TaxTyped

\* A row is rewritten within what its debit allows.
LEMMA Writes ==
    ASSUME TaxInv, NEW p \in Rows, NEW row \in PeriodRow, Write(p, row),
           ledger' = ledger, users' = users,
           row.from = Row(p).from, row.through = Row(p).through,
           row.usage = Row(p).usage, row.exempt = Row(p).exempt,
           row.debited => row.tax # NoFigure,
           row.collected > 0 <=> Row(p).collected > 0,
           row.collected > 0 =>
              row.debited /\ row.collected = Row(p).collected /\ row.entry = Row(p).entry,
           Row(p).debited => row.debited /\ row.tax = Row(p).tax
    PROVE  /\ DOMAIN periods' = Spenders
           /\ \A v \in Spenders : Books(ledger'[v], users'[v], periods'[v])
           /\ Lasting(ledger, users, periods, ledger', users', periods')
<1> DEFINE u == p[1]
           k == p[2]
           P == periods[u]
           Q == [P EXCEPT ![k] = row]
<1>1. u \in Spenders /\ k \in DOMAIN P /\ Row(p) = P[k] /\ P \in Seq(PeriodRow)
      /\ Books(ledger[u], users[u], P)
  BY RowIs, BooksSay
<1>2. /\ DOMAIN periods' = Spenders /\ periods'[u] = Q
      /\ \A v \in Spenders : v # u => periods'[v] = periods[v]
  BY WriteIs
<1>3. DOMAIN Q = DOMAIN P /\ Q[k] = row /\ \A j \in DOMAIN P : j # k => Q[j] = P[j]
  BY <1>1
<1>4. Q = [P EXCEPT ![k] = row]
  OBVIOUS
<1> HIDE DEF u, k, P, Q
<1>5. Books(ledger[u], users[u], Q)
  BY <1>1, <1>4, BooksRewrite
<1>6. ASSUME NEW v \in Spenders
      PROVE  /\ Books(ledger'[v], users'[v], periods'[v])
             /\ DOMAIN periods[v] \subseteq DOMAIN periods'[v]
             /\ \A j \in DOMAIN periods[v] : periods[v][j].debited =>
                   periods'[v][j].debited /\ periods'[v][j].tax = periods[v][j].tax
  <2>1. CASE v = u
    <3>1. \A j \in DOMAIN P : P[j].debited => Q[j].debited /\ Q[j].tax = P[j].tax
      BY <1>1, <1>3
    <3> QED BY <1>2, <1>3, <1>5, <2>1, <3>1 DEF P
  <2>2. CASE v # u
    BY <1>2, <2>2, BooksSay
  <2> QED BY <2>1, <2>2
<1>7. \A v \in Spenders : Len(ledger[v]) \in Nat
  BY BooksSay
<1>8. Lasting(ledger, users, periods, ledger', users', periods')
  BY <1>6, <1>7 DEF Lasting
<1> QED BY <1>2, <1>6, <1>8

LEMMA Freezes ==
    ASSUME TaxInv, NEW w \in TaxSweeps, NEW p \in Rows
    PROVE  FreezeZero(w, p) \/ FreezeFigure(w, p) \/ StampRecorded(w, p) => TaxInv'
<1>1. ASSUME FreezeZero(w, p) \/ FreezeFigure(w, p) PROVE TaxInv'
  <2>1. PICK tax \in Int \cup {NoFigure} : Frozen(p, tax)
    <3>1. SweepOk(sweep[w], ledger, users, periods) /\ 0 \in Int
      BY DEF TaxInv
    <3> QED BY <1>1, <3>1 DEF FreezeZero, FreezeFigure, SweepOk
  <2>2. Next1(w, p) /\ UNCHANGED <<ledger, held, settling, users, filed>>
    BY <1>1 DEF FreezeZero, FreezeFigure
  <2>3. /\ DOMAIN sweep' = TaxSweeps
        /\ SweepOk(sweep'[w], ledger, users, periods)
        /\ \A v \in TaxSweeps : v # w => sweep'[v] = sweep[v]
    BY <2>2, NextIs
  <2>4. CASE Row(p).tax # NoFigure
    <3>1. periods' = periods
      BY <2>1, <2>4 DEF Frozen
    <3> QED BY <2>2, <2>3, <3>1, SweepMoves
  <2>5. CASE Row(p).tax = NoFigure
    <3> DEFINE row == [Row(p) EXCEPT !.tax = tax]
    <3>1. Write(p, row)
      BY <2>1, <2>5 DEF Frozen
    <3>2. Row(p) \in PeriodRow /\ ~Row(p).debited /\ ~(Row(p).collected > 0)
      BY <2>5, RowIs
    <3>3. /\ row \in PeriodRow /\ row.from = Row(p).from /\ row.through = Row(p).through
          /\ row.usage = Row(p).usage /\ row.exempt = Row(p).exempt
          /\ row.debited = Row(p).debited /\ row.collected = Row(p).collected
      BY <2>1, <3>2 DEF PeriodRow
    <3> HIDE DEF row
    <3>4. /\ DOMAIN periods' = Spenders
          /\ \A v \in Spenders : Books(ledger'[v], users'[v], periods'[v])
          /\ Lasting(ledger, users, periods, ledger', users', periods')
      BY <2>2, <3>1, <3>2, <3>3, Writes
    <3>5. TaxTyped'
      BY <2>2, <2>3, <3>4 DEF TaxInv, TaxTyped
    <3> QED BY <2>2, <2>3, <3>4, <3>5, BooksMove
  <2> QED BY <2>4, <2>5
<1>2. ASSUME StampRecorded(w, p) PROVE TaxInv'
  <2> DEFINE row == [Row(p) EXCEPT !.recorded = TRUE]
  <2>1. Write(p, row) /\ Next1(w, p)
        /\ UNCHANGED <<ledger, held, settling, users, filed>>
    BY <1>2 DEF StampRecorded
  <2>2. Row(p) \in PeriodRow /\ (Row(p).debited => Row(p).tax # NoFigure)
        /\ (Row(p).collected > 0 => Row(p).debited)
    BY RowIs
  <2>3. /\ row \in PeriodRow /\ row.from = Row(p).from /\ row.through = Row(p).through
        /\ row.usage = Row(p).usage /\ row.exempt = Row(p).exempt
        /\ row.debited = Row(p).debited /\ row.collected = Row(p).collected
        /\ row.tax = Row(p).tax /\ row.entry = Row(p).entry
    BY <2>2 DEF PeriodRow
  <2>4. /\ DOMAIN sweep' = TaxSweeps
        /\ SweepOk(sweep'[w], ledger, users, periods)
        /\ \A v \in TaxSweeps : v # w => sweep'[v] = sweep[v]
    BY <2>1, NextIs
  <2> HIDE DEF row
  <2>5. /\ DOMAIN periods' = Spenders
        /\ \A v \in Spenders : Books(ledger'[v], users'[v], periods'[v])
        /\ Lasting(ledger, users, periods, ledger', users', periods')
    BY <2>1, <2>2, <2>3, Writes
  <2>6. TaxTyped'
    BY <2>1, <2>4, <2>5 DEF TaxInv, TaxTyped
  <2> QED BY <2>1, <2>4, <2>5, <2>6, BooksMove
<1> QED BY <1>1, <1>2

LEMMA Collects ==
    ASSUME TaxInv, NEW w \in TaxSweeps, NEW p \in Rows, CollectPeriod(w, p)
    PROVE  TaxInv'
<1> DEFINE u == p[1]
           k == p[2]
           take == Min({Row(p).tax, Positive(Balance(u))})
           row == [Row(p) EXCEPT
                      !.debited = TRUE, !.collected = take,
                      !.entry = IF take > 0 THEN Len(ledger[u]) + 1 ELSE NoFigure]
<1>1. Next1(w, p) /\ UNCHANGED <<held, settling, users, filed>>
  BY DEF CollectPeriod
<1>2. /\ DOMAIN sweep' = TaxSweeps
      /\ SweepOk(sweep'[w], ledger, users, periods)
      /\ \A v \in TaxSweeps : v # w => sweep'[v] = sweep[v]
  BY <1>1, NextIs
<1>3. CASE ~StillUncollected(p)
  <2>1. ledger' = ledger /\ periods' = periods
    BY <1>3 DEF CollectPeriod
  <2> QED BY <1>1, <1>2, <2>1, SweepMoves
<1>4. CASE StillUncollected(p)
  <2>1. /\ Write(p, row)
        /\ IF take > 0 THEN Append1(u, "tax", -take) ELSE ledger' = ledger
    BY <1>4 DEF CollectPeriod
  <2>2. /\ Row(p) \in PeriodRow /\ Row(p).tax # NoFigure /\ ~Row(p).debited
        /\ ~(Row(p).collected > 0) /\ u \in Spenders /\ k \in DOMAIN periods[u]
        /\ Row(p) = periods[u][k]
    BY <1>4, RowIs DEF StillUncollected
  <2>3. Balance(u) \in Int /\ Balance(u) = Amount(ledger[u], 1..Len(ledger[u]))
        /\ Len(ledger[u]) \in Nat
    BY <2>2, BalanceIs, BooksSay
  <2>4. take \in Int /\ (take > 0 => take <= Balance(u))
    <3> DEFINE t == Row(p).tax
               b == Positive(Balance(u))
    <3>1. t \in Int
      BY <2>2 DEF PeriodRow
    <3>2. b \in Int /\ (b > 0 => b = Balance(u))
      BY <2>3, PositiveIs
    <3>3. take = Min({t, b})
      OBVIOUS
    <3> HIDE DEF t, b, take
    <3>4. take \in Int /\ take <= b
      BY <3>1, <3>2, <3>3, MaxOfTwo
    <3> QED BY <2>3, <3>2, <3>4
  <2>5. row = [Row(p) EXCEPT
                 !.debited = TRUE, !.collected = take,
                 !.entry = IF take > 0 THEN Len(ledger[u]) + 1 ELSE NoFigure]
    OBVIOUS
  <2> HIDE DEF take, row
  <2>6. /\ row \in PeriodRow /\ row.from = Row(p).from /\ row.through = Row(p).through
        /\ row.usage = Row(p).usage /\ row.exempt = Row(p).exempt
        /\ row.debited /\ row.collected = take /\ row.tax = Row(p).tax
        /\ (take > 0 => row.entry = Len(ledger[u]) + 1)
    <3>1. (IF take > 0 THEN Len(ledger[u]) + 1 ELSE NoFigure) \in Int \cup {NoFigure}
      BY <2>3
    <3> QED BY <2>2, <2>4, <2>5, <3>1 DEF PeriodRow
  <2>7. CASE ~(take > 0)
    <3>1. ledger' = ledger /\ users' = users
      BY <1>1, <2>1, <2>7
    <3>2. /\ DOMAIN periods' = Spenders
          /\ \A v \in Spenders : Books(ledger'[v], users'[v], periods'[v])
          /\ Lasting(ledger, users, periods, ledger', users', periods')
      BY <2>1, <2>2, <2>6, <2>7, <3>1, Writes
    <3>3. TaxTyped'
      BY <1>1, <1>2, <3>1, <3>2 DEF TaxInv, TaxTyped
    <3> QED BY <1>1, <1>2, <3>2, <3>3, BooksMove
  <2>8. CASE take > 0
    <3> DEFINE L == ledger[u]
               P == periods[u]
               e == [type |-> "tax", amount |-> -take]
               M == Append(L, e)
               Q == [P EXCEPT ![k] = row]
    <3>1. /\ DOMAIN ledger' = Spenders /\ ledger'[u] = M
          /\ \A v \in Spenders : v # u => ledger'[v] = ledger[v]
      BY <2>1, <2>2, <2>8 DEF Append1, TaxInv, TaxTyped
    <3>2. /\ DOMAIN periods' = Spenders /\ periods'[u] = Q
          /\ \A v \in Spenders : v # u => periods'[v] = periods[v]
      BY <2>1, WriteIs
    <3>3. e \in EntryRow /\ e.type = "tax" /\ e.amount = -row.collected
      BY <2>4, <2>6 DEF EntryRow
    <3>4. Books(L, users[u], P) /\ L \in Seq(EntryRow) /\ P \in Seq(PeriodRow)
      BY <2>2, BooksSay
    <3>5. /\ k \in DOMAIN P /\ Row(p) = P[k] /\ take <= Amount(L, 1..Len(L))
          /\ row.entry = Len(L) + 1
      BY <2>2, <2>3, <2>4, <2>6, <2>8
    <3>6. M = Append(L, e) /\ Q = [P EXCEPT ![k] = row]
      OBVIOUS
    <3>7. Len(L) <= Len(M)
      <4> HIDE DEF L, e
      <4>1. Len(M) = Len(L) + 1 /\ Len(L) \in Nat
        BY <3>3, <3>4
      <4> QED BY <4>1
    <3>8. DOMAIN Q = DOMAIN P /\ \A j \in DOMAIN P : j # k => Q[j] = P[j]
      OBVIOUS
    <3> HIDE DEF L, P, e, M, Q, k
    <3>9. Books(M, users[u], Q)
      <4>1. /\ row.from = P[k].from /\ row.through = P[k].through
            /\ row.usage = P[k].usage /\ row.exempt = P[k].exempt
            /\ ~P[k].debited /\ row.debited /\ row.tax # NoFigure
            /\ row.collected > 0 /\ row.collected <= Amount(L, 1..Len(L))
        BY <2>2, <2>6, <2>8, <3>5
      <4> QED BY <2>6, <3>3, <3>4, <3>5, <3>6, <4>1, BooksCollect
    <3>10. ASSUME NEW v \in Spenders
           PROVE  /\ Books(ledger'[v], users'[v], periods'[v])
                  /\ Len(ledger[v]) <= Len(ledger'[v])
                  /\ DOMAIN periods[v] \subseteq DOMAIN periods'[v]
                  /\ \A j \in DOMAIN periods[v] : periods[v][j].debited =>
                        periods'[v][j].debited /\ periods'[v][j].tax = periods[v][j].tax
      <4>1. CASE v = u
        <5>1. \A j \in DOMAIN P : P[j].debited => Q[j].debited /\ Q[j].tax = P[j].tax
          BY <2>2, <3>5, <3>8
        <5>2. /\ ledger'[v] = M /\ ledger[v] = L /\ periods'[v] = Q /\ periods[v] = P
              /\ users'[v] = users[u]
          BY <1>1, <3>1, <3>2, <4>1 DEF L, P
        <5> QED BY <3>7, <3>8, <3>9, <5>1, <5>2
      <4>2. CASE v # u
        <5>1. ledger'[v] = ledger[v] /\ periods'[v] = periods[v] /\ users'[v] = users[v]
          BY <1>1, <3>1, <3>2, <4>2
        <5>2. Len(ledger[v]) \in Nat /\ Books(ledger[v], users[v], periods[v])
          BY BooksSay
        <5> QED BY <5>1, <5>2
      <4> QED BY <4>1, <4>2
    <3>11. Lasting(ledger, users, periods, ledger', users', periods')
      BY <1>1, <3>10 DEF Lasting
    <3>12. TaxTyped'
      BY <1>1, <1>2, <3>1, <3>2 DEF TaxInv, TaxTyped
    <3> QED BY <1>1, <1>2, <3>10, <3>11, <3>12, BooksMove
  <2> QED BY <2>7, <2>8
<1> QED BY <1>3, <1>4

LEMMA Files ==
    ASSUME TaxInv, NEW w \in TaxSweeps, NEW p \in Rows, File(w, p)
    PROVE  TaxInv'
<1>1. /\ AtStep(w, "recording") /\ p \in sweep[w].todo
      /\ filed' = Filing(p, Row(p).tax)
      /\ sweep' = [sweep EXCEPT ![w].item = p]
      /\ UNCHANGED <<ledger, held, settling, users, periods>>
  BY DEF File
<1>2. SweepOk(sweep[w], ledger, users, periods) /\ DOMAIN sweep = TaxSweeps
  BY DEF TaxInv, TaxTyped
<1>3. Held(periods, p) /\ periods[p[1]][p[2]].debited
  BY <1>1, <1>2 DEF SweepOk, AtStep
<1>4. /\ DOMAIN sweep' = TaxSweeps
      /\ DOMAIN sweep'[w] = {"at", "todo", "item", "answer"}
      /\ sweep'[w].at = sweep[w].at /\ sweep'[w].todo = sweep[w].todo
      /\ sweep'[w].answer = sweep[w].answer
      /\ \A v \in TaxSweeps : v # w => sweep'[v] = sweep[v]
  BY <1>1, <1>2 DEF SweepOk
<1>5. SweepOk(sweep'[w], ledger, users, periods)
  BY <1>2, <1>4 DEF SweepOk
<1>6. ASSUME NEW t \in filed' PROVE FiledOk(t, periods)
  <2>1. CASE t \in filed
    BY <2>1 DEF TaxInv
  <2>2. CASE t \notin filed
    <3>1. t = [reference |-> p, tax |-> Row(p).tax]
      BY <1>1, <2>2 DEF Filing
    <3>2. t.reference = p /\ t.tax = periods[p[1]][p[2]].tax
      BY <3>1, RowIs
    <3> QED BY <1>3, <3>2 DEF FiledOk
  <2> QED BY <2>1, <2>2
<1>7. TaxTyped'
  BY <1>1, <1>4 DEF TaxInv, TaxTyped
<1>8. /\ \A u \in Spenders : Books(ledger'[u], users'[u], periods'[u])
      /\ \A v \in TaxSweeps : SweepOk(sweep'[v], ledger', users', periods')
  BY <1>1, <1>4, <1>5 DEF TaxInv
<1>9. \A t \in filed' : FiledOk(t, periods')
  BY <1>1, <1>6
<1> QED BY <1>7, <1>8, <1>9 DEF TaxInv

\* Every step keeps every user's books, and what the sweeps rely on, in order.
THEOREM TaxInvariant == TaxSpec => []TaxInv
<1>1. TaxInit => TaxInv
  BY TaxStarts
<1>2. TaxInv /\ [TaxNext]_taxVars => TaxInv'
  <2> SUFFICES ASSUME TaxInv, [TaxNext]_taxVars PROVE TaxInv'
    OBVIOUS
  <2>1. ASSUME NEW u \in Spenders,
               StoreAddress(u) \/ Deposit(u) \/ Admit(u) \/ SettleBegins(u)
                 \/ SettleCommits(u) \/ SettleRefused(u)
        PROVE  TaxInv'
    BY <2>1, UserSteps
  <2>2. ASSUME NEW w \in TaxSweeps, EnrollmentFails(w) \/ SweepStops(w) PROVE TaxInv'
    BY <2>2, ListingSteps
  <2>3. ASSUME NEW w \in TaxSweeps, ItemFails(w) PROVE TaxInv'
    BY <2>3, IdleSteps
  <2>4. ASSUME NEW w \in TaxSweeps, Pass(w) PROVE TaxInv'
    <3>1. ASSUME NEW p \in Rows, PerPeriod(w, p) PROVE TaxInv'
      <4>1. CASE Calculate(w, p)
        BY <4>1, IdleSteps
      <4>2. CASE FreezeZero(w, p) \/ FreezeFigure(w, p) \/ StampRecorded(w, p)
        BY <4>2, Freezes
      <4>3. CASE CollectPeriod(w, p)
        BY <4>3, Collects
      <4>4. CASE File(w, p)
        BY <4>4, Files
      <4> QED BY <3>1, <4>1, <4>2, <4>3, <4>4 DEF PerPeriod
    <3>2. ASSUME NEW u \in Spenders, OpenPeriod(w, u) PROVE TaxInv'
      BY <3>2, Opens
    <3>3. ASSUME EnrollmentCommits(w) PROVE TaxInv'
      BY <3>3, Enrolling
    <3>4. ASSUME SweepBegins(w) \/ ListFresh(w) \/ ListUnpriced(w) \/ DryRunEnds(w)
                   \/ ListUncollected(w) \/ ListUnrecorded(w) \/ SweepEnds(w)
          PROVE  TaxInv'
      BY <3>4, ListingSteps
    <3> QED BY <2>4, <3>1, <3>2, <3>3, <3>4 DEF Pass
  <2>5. CASE UNCHANGED taxVars
    <3>1. UNCHANGED <<ledger, held, settling, users, periods, sweep, filed>>
      BY <2>5 DEF taxVars
    <3> QED BY <3>1 DEF TaxInv, TaxTyped
  <2> QED BY <2>1, <2>2, <2>3, <2>4, <2>5 DEF TaxNext
<1> QED BY <1>1, <1>2, PTL DEF TaxSpec

\* Spent credit is taxed once, debited once and filed as it was priced, for any
\* spenders, sweeps, amounts and figures (open_period_for, collect_period,
\* record_periods).
THEOREM SpendingIsTaxedOnce == TaxSpec => []TaxAccounted
<1>1. TaxInv => TaxAccounted
  <2> SUFFICES ASSUME TaxInv PROVE TaxAccounted
    OBVIOUS
  <2>1. ASSUME NEW u \in Spenders
        PROVE  /\ Tiled(ledger[u], users[u], periods[u])
               /\ TakenByTax(ledger[u], periods[u])
               /\ Debits(ledger[u], periods[u])
    BY BooksSay DEF Books
  <2>2. TaxedOnce
    <3> SUFFICES ASSUME NEW u \in Spenders, users[u].cursor # NoFigure
                 PROVE  LET swept == {i \in Usages(u) : i > users[u].cursor /\ i <= Cursor(u)}
                            P == DOMAIN periods[u]
                        IN  /\ SumFunction([k \in P |-> periods[u][k].usage])
                                 = Spent(u, swept)
                            /\ \A k \in P : periods[u][k].usage =
                                 Spent(u, {i \in Usages(u) : i > periods[u][k].from
                                                     /\ i <= periods[u][k].through})
                            /\ users[u].granted = users[u].exempt
                                 + SumFunction([k \in P |-> periods[u][k].exempt])
      BY DEF TaxedOnce, Enrolled
    <3>1. Cursor(u) = End(users[u], periods[u])
      BY DEF Cursor, End
    <3>2. \A a, b : {i \in Usages(u) : i > a /\ i <= b} = Span(ledger[u], a, b)
      BY DEF Usages, Span, Entries
    <3>3. \A ids : Spent(u, ids) = -Amount(ledger[u], ids)
      BY DEF Spent, Amount
    <3> DEFINE P == DOMAIN periods[u]
               swept == {i \in Usages(u) : i > users[u].cursor /\ i <= Cursor(u)}
    <3>4. SumFunction([k \in P |-> periods[u][k].usage]) = Spent(u, swept)
      <4>1. swept = Span(ledger[u], users[u].cursor, End(users[u], periods[u]))
        BY <3>1, <3>2
      <4>2. Spent(u, swept) = -Amount(ledger[u], swept)
        BY <3>3
      <4> HIDE DEF swept
      <4> QED BY <2>1, <4>1, <4>2 DEF Tiled
    <3>5. ASSUME NEW k \in P
          PROVE  periods[u][k].usage =
                   Spent(u, {i \in Usages(u) : i > periods[u][k].from
                                       /\ i <= periods[u][k].through})
      <4> DEFINE span == {i \in Usages(u) : i > periods[u][k].from
                                    /\ i <= periods[u][k].through}
      <4>1. span = Span(ledger[u], periods[u][k].from, periods[u][k].through)
        BY <3>2
      <4>2. Spent(u, span) = -Amount(ledger[u], span)
        BY <3>3
      <4> HIDE DEF span
      <4>3. periods[u][k].usage = Spent(u, span)
        BY <2>1, <4>1, <4>2 DEF Tiled
      <4> QED BY <4>3 DEF span
    <3>6. users[u].granted = users[u].exempt
            + SumFunction([k \in P |-> periods[u][k].exempt])
      BY <2>1 DEF Tiled
    <3> HIDE DEF swept
    <3> QED BY <3>4, <3>5, <3>6 DEF swept
  <2>3. DebitedOnce
    <3>1. \A u, i : BalanceAt(u, i) = Amount(ledger[u], 1..i)
      BY DEF BalanceAt, Amount
    <3> QED BY <2>1, <3>1 DEF DebitedOnce, TakenByTax, Debits, Entries, TaxDebits
  <2>4. FiledAsPriced
    BY DEF TaxInv, FiledOk, FiledAsPriced, Row
  <2> QED BY <2>2, <2>3, <2>4 DEF TaxAccounted
<1> QED BY <1>1, TaxInvariant, PTL
===============================================================================
