-------------------------- MODULE SettlementProofs --------------------------
(***************************************************************************)
(* Proofs about Settlement for every set of requests and users, every      *)
(* bound and every combination of its flags, late requests and reversals   *)
(* included unless a theorem rules them out.  The invariants the runs      *)
(* check are not inductive: a settle reads cost and reserved, so the proof *)
(* also needs that nobody can replay a request before its cost is fixed    *)
(* (Fixed) and that a request that was never admitted has no row           *)
(* (NewHasNoRow).  Then: that Settlement implements Charge; and, where no  *)
(* request outlives its reservation (OnTime), that the sweep never takes a *)
(* dispatched request and that what is promised is funded.                 *)
(***************************************************************************)
EXTENDS Settlement, Sums, TLAPS

\* The cost and the reservation of r no longer change.
Past(r) == pc[r] \notin {"new", "refused", "walking"}

\* Whoever can bill r, and whatever records that r was billed or owes, comes
\* after r's cost was fixed.
Fixed ==
    \A r \in Requests :
        (r \in events \/ rows[r].intent \/ r \in batch \/ r \in collecting)
            => Past(r)

NewHasNoRow ==
    \A r \in Requests : rows[r].present => pc[r] \notin {"new", "refused"}

IInv == /\ TypeOK
        /\ ChargedOnce
        /\ NoRowBesideItsEvent
        /\ Fixed
        /\ NewHasNoRow

USE DEF Row, Steps, Money

-----------------------------------------------------------------------------
(* The operators the actions are built from.                               *)

\* The sweep and the failure stamp return rows, and NoRow is one.
LEMMA RowOperators ==
    /\ NoRow \in Row /\ FreshRow \in Row
    /\ \A row \in Row : Swept(row) \in Row /\ Stamped(row) \in Row
<1>1. NoRow \in Row
  BY BoundsAssumption DEF NoRow
<1>2. FreshRow \in Row
  BY <1>1 DEF FreshRow
<1>3. ASSUME NEW row \in Row PROVE Swept(row) \in Row
  BY <1>1, <1>3 DEF Swept
<1>4. ASSUME NEW row \in Row PROVE Stamped(row) \in Row
  <2>1. row.attempts \in 0..MaxSettleAttempts
    BY <1>4
  <2>2. Lesser(row.attempts + 1, MaxSettleAttempts) \in 0..MaxSettleAttempts
    BY <2>1, BoundsAssumption DEF Lesser
  <2>3. ASSUME NEW n \in 0..MaxSettleAttempts, NEW b \in BOOLEAN
        PROVE  [row EXCEPT !.attempts = n, !.quarantined = b] \in Row
    BY <1>4
  <2> QED BY <1>4, <2>2, <2>3 DEF Stamped
<1> QED BY <1>1, <1>2, <1>3, <1>4

\* One column of one row may be overwritten: the table keeps its type.
LEMMA EditedRow ==
    ASSUME NEW row \in Row, NEW b \in BOOLEAN
    PROVE  /\ [row EXCEPT !.expired = b] \in Row
           /\ [row EXCEPT !.dispatched = b] \in Row
           /\ [row EXCEPT !.intent = b] \in Row
           /\ [row EXCEPT !.quarantined = b] \in Row
<1>1. [row EXCEPT !.expired = b] \in Row
  OBVIOUS
<1>2. [row EXCEPT !.dispatched = b] \in Row
  OBVIOUS
<1>3. [row EXCEPT !.intent = b] \in Row
  OBVIOUS
<1>4. [row EXCEPT !.quarantined = b] \in Row
  OBVIOUS
<1> QED BY <1>1, <1>2, <1>3, <1>4

LEMMA EditedTable ==
    ASSUME TypeOK, NEW r \in Requests, NEW b \in BOOLEAN,
           \/ rows' = [rows EXCEPT ![r].expired = b]
           \/ rows' = [rows EXCEPT ![r].dispatched = b]
           \/ rows' = [rows EXCEPT ![r].intent = b]
    PROVE  rows' \in [Requests -> Row]
<1> USE DEF TypeOK
<1>1. rows \in [Requests -> Row] /\ rows[r] \in Row
  OBVIOUS
<1>2. PICK row \in Row : rows' = [rows EXCEPT ![r] = row]
  <2> HIDE DEF Row
  <2> QED BY <1>1, EditedRow
<1> HIDE DEF Row
<1> QED BY <1>1, <1>2

\* The debit is a natural number, whichever of cost and reservation binds.
LEMMA DebitIsNat ==
    ASSUME TypeOK, NEW r \in Requests
    PROVE  Debit(r) \in Nat
  BY BoundsAssumption DEF TypeOK, Debit, Lesser

\* The sweep only ever removes a row without evidence of a debt or dispatch.
LEMMA SweptKeepsEvidence ==
    ASSUME NEW row \in Row
    PROVE  /\ Swept(row).intent => row.intent
           /\ Swept(row).present => row.present
           /\ row.present /\ (row.intent \/ row.dispatched
                              \/ row.released # "no")
                => /\ Swept(row).present
                   /\ Swept(row).released = row.released
  BY DEF Swept, NoRow

\* A stamp changes neither whether a row is there, owes or is released.
LEMMA StampedKeeps ==
    ASSUME NEW row \in Row
    PROVE  /\ Stamped(row).intent = row.intent
           /\ Stamped(row).present = row.present
           /\ Stamped(row).released = row.released
  BY DEF Stamped

-----------------------------------------------------------------------------
(* Steps that bill nobody, and steps that may bill one request.            *)

\* Neither billed nor re-priced: the charge invariants carry over whenever no
\* row appears.
LEMMA UnbilledStep ==
    ASSUME IInv,
           UNCHANGED <<events, charged, cost, reserved>>,
           \A q \in Requests : rows'[q].present => rows[q].present
    PROVE  ChargedOnce' /\ NoRowBesideItsEvent'
<1> USE DEF IInv
<1>1. ChargedOnce'
  BY DEF ChargedOnce, Debit
<1>2. NoRowBesideItsEvent'
  BY DEF NoRowBesideItsEvent, TypeOK
<1> QED BY <1>1, <1>2

\* The database part of a settle transaction, whatever its outcome.
Transaction(r) == \/ SettleCommits(r)
                  \/ SettleFindsDecided(r)
                  \/ UNCHANGED <<rows, events, charged, balance>>

\* One settle of a request whose cost is fixed keeps the charge invariants,
\* adds no row and no debt, and bills nobody else.
LEMMA SettleStep ==
    ASSUME IInv, NEW r \in Requests, Past(r), Transaction(r),
           UNCHANGED <<cost, reserved>>
    PROVE  /\ rows' \in [Requests -> Row]
           /\ events' \subseteq Requests
           /\ charged' \in [Requests -> Nat]
           /\ balance' \in [Users -> Int]
           /\ ChargedOnce' /\ NoRowBesideItsEvent'
           /\ \A q \in Requests : /\ rows'[q].present => rows[q].present
                                  /\ rows'[q].intent => rows[q].intent
                                  /\ q \in events' => q = r \/ q \in events
<1> USE DEF IInv
<1>1. Debit(r) \in Nat
  BY DebitIsNat
<1>2. NoRow \in Row /\ ~NoRow.present /\ ~NoRow.intent
  BY RowOperators DEF NoRow
<1>3. CASE SettleCommits(r)
  <2>1. /\ rows' \in [Requests -> Row]
        /\ events' \subseteq Requests
        /\ charged' \in [Requests -> Nat]
        /\ balance' \in [Users -> Int]
    <3>1. rows' \in [Requests -> Row]
      BY <1>2, <1>3 DEF SettleCommits, TypeOK
    <3>2. events' \subseteq Requests
      BY <1>3 DEF SettleCommits, TypeOK
    <3>3. charged' \in [Requests -> Nat]
      BY <1>1, <1>3 DEF SettleCommits, TypeOK
    <3>4. balance' \in [Users -> Int]
      <4>1. /\ balance \in [Users -> Int]
            /\ balance' = [balance EXCEPT ![Owner[r]] = @ - Debit(r)]
        BY <1>3 DEF SettleCommits, TypeOK
      <4>2. Owner[r] \in Users
        BY OwnerAssumption
      <4>3. balance[Owner[r]] - Debit(r) \in Int
        BY <1>1, <4>1, <4>2
      <4> QED BY <4>1, <4>2, <4>3
    <3> QED BY <3>1, <3>2, <3>3, <3>4
  <2>2. ChargedOnce'
    <3>1. charged[r] = 0
      BY <1>3 DEF SettleCommits, ChargedOnce
    <3>2. \A q \in Requests : Debit(q)' = Debit(q)
      BY DEF Debit
    <3> QED BY <1>1, <1>3, <3>1, <3>2 DEF SettleCommits, ChargedOnce, TypeOK
  <2>3. NoRowBesideItsEvent'
    BY <1>2, <1>3 DEF SettleCommits, NoRowBesideItsEvent, TypeOK
  <2> QED BY <1>2, <1>3, <2>1, <2>2, <2>3 DEF SettleCommits, TypeOK
<1>4. CASE SettleFindsDecided(r)
  <2>1. \A q \in Requests : rows'[q] \in {rows[q], NoRow}
    BY <1>4 DEF SettleFindsDecided, TypeOK
  <2>2. rows' \in [Requests -> Row]
    BY <1>2, <1>4 DEF SettleFindsDecided, TypeOK
  <2>3. UNCHANGED <<events, charged, balance>>
    BY <1>4 DEF SettleFindsDecided
  <2>4. ChargedOnce' /\ NoRowBesideItsEvent'
    BY <1>2, <2>1, <2>3, UnbilledStep
  <2> QED BY <1>2, <2>1, <2>2, <2>3, <2>4 DEF TypeOK
<1>5. CASE UNCHANGED <<rows, events, charged, balance>>
  <2>1. ChargedOnce' /\ NoRowBesideItsEvent'
    BY <1>5, UnbilledStep
  <2>2. rows' = rows /\ events' = events
    BY <1>5
  <2>3. charged' = charged /\ balance' = balance
    BY <1>5
  <2>4. TypeOK
    OBVIOUS
  <2> QED BY <2>1, <2>2, <2>3, <2>4 DEF TypeOK
<1> QED BY <1>3, <1>4, <1>5 DEF Transaction

-----------------------------------------------------------------------------
(* The invariant is inductive.                                             *)

\* Every reachable first state satisfies the invariant.
LEMMA InitIInv == Init => IInv
<1> SUFFICES ASSUME Init PROVE IInv
  OBVIOUS
<1>1. NoRow \in Row /\ ~NoRow.present /\ ~NoRow.intent
  BY RowOperators DEF NoRow
<1>2. TypeOK
  BY <1>1, BoundsAssumption DEF Init, TypeOK
<1>3. ChargedOnce /\ NoRowBesideItsEvent
  BY DEF Init, ChargedOnce, NoRowBesideItsEvent
<1>4. Fixed /\ NewHasNoRow
  BY <1>1 DEF Init, Fixed, NewHasNoRow
<1> QED BY <1>2, <1>3, <1>4 DEF IInv

\* What every action but Admit and Complete has in common: it bills nobody,
\* keeps the prices, adds no row and no debt before its request is Past, and
\* never takes a request back.
LEMMA QuietStep ==
    ASSUME IInv, TypeOK',
           UNCHANGED <<events, charged, cost, reserved>>,
           \A q \in Requests :
              /\ rows'[q].present => rows[q].present
              /\ rows'[q].intent => rows[q].intent \/ Past(q)
              /\ Past(q) => Past(q)'
              /\ q \in batch' => q \in batch \/ rows[q].intent
              /\ q \in collecting' => q \in collecting \/ rows[q].intent
              /\ pc'[q] \in {"new", "refused"} => pc[q] \in {"new", "refused"}
    PROVE  IInv'
<1>1. ChargedOnce' /\ NoRowBesideItsEvent'
  BY UnbilledStep
<1>2. \A q \in Requests : Past(q) => Past(q)'
  OBVIOUS
<1>3. Fixed'
  <2> SUFFICES ASSUME NEW q \in Requests,
                      (\/ q \in events \/ rows[q].intent
                       \/ q \in batch \/ q \in collecting)'
               PROVE  Past(q)'
    BY DEF Fixed
  <2>1. Past(q)
    BY DEF IInv, Fixed
  <2> QED BY <1>2, <2>1
<1>4. NewHasNoRow'
  BY DEF IInv, NewHasNoRow
<1> QED BY <1>1, <1>3, <1>4 DEF IInv

\* The same for the steps that run a settle transaction: the request's own
\* settle, a replay of the recovery pass and an operator's collection.
LEMMA BillingStep ==
    ASSUME IInv, NEW r \in Requests, Past(r), Transaction(r),
           UNCHANGED <<cost, reserved, marker, foreign>>,
           pc' \in [Requests -> Steps],
           tries' \in [Requests -> 0..SettlementAttempts],
           batch' \subseteq batch, stamping' \subseteq Requests,
           collecting' \subseteq collecting,
           \A q \in Requests :
              /\ Past(q) => Past(q)'
              /\ pc'[q] \in {"new", "refused"} => pc[q] \in {"new", "refused"}
    PROVE  IInv'
<1>1. /\ rows' \in [Requests -> Row]
      /\ events' \subseteq Requests
      /\ charged' \in [Requests -> Nat]
      /\ balance' \in [Users -> Int]
  BY SettleStep
<1>2. ChargedOnce' /\ NoRowBesideItsEvent'
  BY SettleStep
<1>3. \A q \in Requests : /\ rows'[q].present => rows[q].present
                          /\ rows'[q].intent => rows[q].intent
                          /\ q \in events' => q = r \/ q \in events
  BY SettleStep
<1>4. TypeOK'
  BY <1>1 DEF IInv, TypeOK
<1>5. Fixed'
  <2> SUFFICES ASSUME NEW q \in Requests,
                      (\/ q \in events \/ rows[q].intent
                       \/ q \in batch \/ q \in collecting)'
               PROVE  Past(q)'
    BY DEF Fixed
  <2>1. Past(q)
    BY <1>3 DEF IInv, Fixed
  <2> QED BY <2>1
<1>6. NewHasNoRow'
  BY <1>3 DEF IInv, NewHasNoRow
<1> QED BY <1>2, <1>4, <1>5, <1>6 DEF IInv

\* A request is admitted: its row is new, and everybody else's is swept.
LEMMA AdmitStep == ASSUME IInv, NEW r \in Requests, Admit(r) PROVE IInv'
<1> USE DEF IInv
<1>1. /\ rows' = [q \in Requests |-> IF q = r THEN FreshRow ELSE Swept(rows[q])]
      /\ reserved' \in [Requests -> Money]
      /\ \A q \in Requests \ {r} : reserved'[q] = reserved[q]
      /\ pc[r] = "new" /\ pc' = [pc EXCEPT ![r] = "walking"]
  BY DEF Admit, TypeOK
<1>2. UNCHANGED <<events, charged, balance, tries, cost, marker, batch,
                  stamping, collecting, foreign>>
  BY DEF Admit
<1>3. FreshRow \in Row /\ ~FreshRow.intent
  BY RowOperators DEF FreshRow, NoRow
<1>4. \A q \in Requests : Swept(rows[q]) \in Row
  BY RowOperators DEF TypeOK
<1>5. TypeOK'
  BY <1>1, <1>2, <1>3, <1>4 DEF TypeOK
<1>6. r \notin events
  BY <1>1 DEF Fixed, Past
<1>7. ChargedOnce'
  <2>1. \A q \in events : Debit(q)' = Debit(q)
    BY <1>1, <1>2, <1>6 DEF Debit, TypeOK
  <2> QED BY <1>2, <2>1 DEF ChargedOnce
<1>8. \A q \in Requests \ {r} : /\ rows'[q].present => rows[q].present
                                /\ rows'[q].intent => rows[q].intent
  BY <1>1, SweptKeepsEvidence DEF TypeOK
<1>9. NoRowBesideItsEvent'
  BY <1>2, <1>6, <1>8 DEF NoRowBesideItsEvent, TypeOK
<1>10. Fixed'
  BY <1>1, <1>2, <1>3, <1>8 DEF Fixed, Past, TypeOK
<1>11. NewHasNoRow'
  BY <1>1, <1>8 DEF NewHasNoRow, TypeOK
<1> QED BY <1>5, <1>7, <1>9, <1>10, <1>11

\* A request's cost is fixed: nothing had been billed at another price.
LEMMA CompleteStep == ASSUME IInv, NEW r \in Requests, Complete(r) PROVE IInv'
<1> USE DEF IInv
<1>1. /\ pc[r] = "walking" /\ pc' = [pc EXCEPT ![r] = "recording"]
      /\ cost' \in [Requests -> Money]
      /\ \A q \in Requests \ {r} : cost'[q] = cost[q]
  BY DEF Complete, TypeOK
<1>2. UNCHANGED <<rows, events, charged, balance, tries, reserved, marker,
                  batch, stamping, collecting, foreign>>
  BY DEF Complete
<1>3. TypeOK'
  BY <1>1, <1>2 DEF TypeOK
<1>4. r \notin events
  BY <1>1 DEF Fixed, Past
<1>5. ChargedOnce'
  <2>1. \A q \in events : Debit(q)' = Debit(q)
    BY <1>1, <1>2, <1>4 DEF Debit, TypeOK
  <2> QED BY <1>2, <2>1 DEF ChargedOnce
<1>6. NoRowBesideItsEvent'
  BY <1>2 DEF NoRowBesideItsEvent
<1>7. Fixed' /\ NewHasNoRow'
  BY <1>1, <1>2 DEF Fixed, Past, NewHasNoRow, TypeOK
<1> QED BY <1>3, <1>5, <1>6, <1>7

\* Every other step of a request's own task, and its row's expiry.
LEMMA RequestStep == ASSUME IInv, NEW r \in Requests, RequestNext(r) PROVE IInv'
<1> USE DEF Past
<1>0. TypeOK
  BY DEF IInv
<1>1. CASE Admit(r)
  BY <1>1, AdmitStep
<1>2. CASE Refuse(r)
  <2>1. TypeOK'
    BY <1>0, <1>2 DEF Refuse, TypeOK
  <2> QED BY <1>0, <1>2, <2>1, QuietStep DEF Refuse, TypeOK
<1>3. CASE Expire(r)
  <2>0. rows' \in [Requests -> Row]
    BY <1>0, <1>3, EditedTable DEF Expire
  <2>1. TypeOK'
    BY <1>0, <1>3, <2>0 DEF Expire, TypeOK
  <2> QED BY <1>0, <1>3, <2>1, QuietStep DEF Expire, TypeOK
<1>4. CASE Dispatch(r)
  <2>1. TypeOK'
    BY <1>0, <1>4 DEF Dispatch, TypeOK
  <2> QED BY <1>0, <1>4, <2>1, QuietStep DEF Dispatch, TypeOK
<1>5. CASE MarkerLands(r)
  <2>0. rows[r].present \in BOOLEAN
    BY <1>0 DEF TypeOK
  <2>2. rows' \in [Requests -> Row]
    BY <1>0, <1>5, <2>0, EditedTable DEF MarkerLands
  <2>3. marker' \in [Requests -> {"unfired", "inflight", "written", "lost"}]
    BY <1>0, <1>5 DEF MarkerLands, TypeOK
  <2>1. TypeOK'
    BY <1>0, <1>5, <2>2, <2>3 DEF MarkerLands, TypeOK
  <2> QED BY <1>0, <1>5, <2>1, QuietStep DEF MarkerLands, TypeOK
<1>6. CASE MarkerLost(r)
  <2>1. TypeOK'
    BY <1>0, <1>6 DEF MarkerLost, TypeOK
  <2> QED BY <1>0, <1>6, <2>1, QuietStep DEF MarkerLost, TypeOK
<1>7. CASE Complete(r)
  BY <1>7, CompleteStep
<1>8. CASE Abandon(r)
  <2>1. TypeOK'
    BY <1>0, <1>8, BoundsAssumption DEF Abandon, EndTask, TypeOK
  <2> QED BY <1>0, <1>8, <2>1, QuietStep DEF Abandon, EndTask, Running, TypeOK
<1>9. CASE PersistIntent(r)
  <2>0. rows[r].present \in BOOLEAN
    BY <1>0 DEF TypeOK
  <2>2. rows' \in [Requests -> Row]
    BY <1>0, <1>9, <2>0, EditedTable DEF PersistIntent, IntentStored
  <2>3. /\ pc' \in [Requests -> Steps]
        /\ tries' \in [Requests -> 0..SettlementAttempts]
    BY <1>0, <1>9, BoundsAssumption DEF PersistIntent, StartSettling, TypeOK
  <2>1. TypeOK'
    BY <1>0, <1>9, <2>2, <2>3 DEF PersistIntent, TypeOK
  <2> QED BY <1>0, <1>9, <2>1, QuietStep
          DEF PersistIntent, IntentStored, StartSettling, TypeOK
<1>10. CASE PersistFails(r)
  <2>1. rows' \in [Requests -> Row]
    <3>1. rows[r].present \in BOOLEAN
      BY <1>0 DEF TypeOK
    <3>2. CASE IntentStored(r)
      BY <1>0, <3>1, <3>2, EditedTable DEF IntentStored
    <3>3. CASE UNCHANGED rows
      BY <1>0, <3>3 DEF TypeOK
    <3> QED BY <1>10, <3>2, <3>3 DEF PersistFails
  <2>2. /\ pc' \in [Requests -> Steps]
        /\ tries' \in [Requests -> 0..SettlementAttempts]
        /\ \A q \in Requests : q # r => pc'[q] = pc[q]
        /\ pc'[r] \in {"recording", "settling"}
    <3>1. CASE StartSettling(r)
      BY <1>0, <1>10, <3>1, BoundsAssumption
         DEF PersistFails, StartSettling, TypeOK
    <3>2. CASE /\ tries[r] + 1 < SettlementAttempts /\ UNCHANGED pc
               /\ tries' = [tries EXCEPT ![r] = @ + 1]
      <4>1. tries[r] + 1 \in 0..SettlementAttempts
        BY <1>0, <3>2, BoundsAssumption DEF TypeOK
      <4> QED BY <1>0, <1>10, <3>2, <4>1 DEF PersistFails, TypeOK
    <3> QED BY <1>10, <3>1, <3>2 DEF PersistFails
  <2>3. UNCHANGED <<events, charged, balance, reserved, cost, marker, batch,
                    stamping, collecting, foreign>>
    BY <1>10 DEF PersistFails
  <2>4. TypeOK'
    BY <1>0, <2>1, <2>2, <2>3 DEF TypeOK
  <2>5. \A q \in Requests : /\ rows'[q].present => rows[q].present
                            /\ rows'[q].intent => rows[q].intent \/ q = r
    BY <1>0, <1>10 DEF PersistFails, IntentStored, TypeOK
  <2>6. pc[r] = "recording"
    BY <1>10 DEF PersistFails
  <2> QED BY <1>0, <2>2, <2>3, <2>4, <2>5, <2>6, QuietStep
<1>11. CASE SettleReturns(r)
  <2>1. Transaction(r) /\ Past(r)
    BY <1>11 DEF SettleReturns, Transaction
  <2> QED BY <1>0, <1>11, <2>1, BillingStep, BoundsAssumption
          DEF SettleReturns, EndTask, TypeOK
<1>12. CASE SettleFails(r)
  <2>1. Transaction(r) /\ Past(r)
    BY <1>12 DEF SettleFails, SettleRefused, Transaction
  <2>2. /\ pc' \in [Requests -> Steps]
        /\ \A q \in Requests : q # r => pc'[q] = pc[q]
        /\ pc'[r] \in {"stampRetry", "stampFinal"}
    BY <1>0, <1>12 DEF SettleFails, TypeOK
  <2>3. UNCHANGED <<tries, reserved, cost, marker, batch, stamping, collecting,
                       foreign>>
    BY <1>12 DEF SettleFails
  <2> QED BY <1>0, <2>1, <2>2, <2>3, BillingStep DEF TypeOK
<1>13. CASE StampFailure(r)
  <2>1. rows' \in [Requests -> Row]
    BY <1>0, <1>13, RowOperators DEF StampFailure, TypeOK
  <2>2. /\ pc' \in [Requests -> Steps]
        /\ tries' \in [Requests -> 0..SettlementAttempts]
        /\ \A q \in Requests : q # r => pc'[q] = pc[q]
        /\ pc'[r] \in {"settling", "failed"}
    <3>1. CASE EndTask(r, "failed")
      BY <1>0, <1>13, <3>1, BoundsAssumption DEF EndTask, TypeOK
    <3>2. CASE /\ tries[r] + 1 < SettlementAttempts
               /\ tries' = [tries EXCEPT ![r] = @ + 1]
               /\ pc' = [pc EXCEPT ![r] = "settling"]
      <4>1. tries[r] + 1 \in 0..SettlementAttempts
        BY <1>0, <3>2, BoundsAssumption DEF TypeOK
      <4> QED BY <1>0, <3>2, <4>1 DEF TypeOK
    <3> QED BY <1>13, <3>1, <3>2 DEF StampFailure
  <2>3. UNCHANGED <<events, charged, balance, reserved, cost, marker, batch,
                    stamping, collecting, foreign>>
    BY <1>13 DEF StampFailure
  <2>4. TypeOK'
    BY <1>0, <2>1, <2>2, <2>3 DEF TypeOK
  <2>5. \A q \in Requests : /\ rows'[q].present => rows[q].present
                            /\ rows'[q].intent => rows[q].intent
    BY <1>0, <1>13, StampedKeeps DEF StampFailure, TypeOK
  <2>6. pc[r] \in {"stampRetry", "stampFinal"}
    BY <1>13 DEF StampFailure
  <2> QED BY <1>0, <2>2, <2>3, <2>4, <2>5, <2>6, QuietStep
<1> QED BY <1>1, <1>2, <1>3, <1>4, <1>5, <1>6, <1>7, <1>8, <1>9, <1>10, <1>11,
           <1>12, <1>13 DEF RequestNext

\* The recovery pass.
LEMMA RecoveryStep == ASSUME IInv, RecoveryNext PROVE IInv'
<1> USE DEF Past
<1>0. TypeOK
  BY DEF IInv
<1>1. CASE RecoverySelects
  <2>1. TypeOK'
    BY <1>0, <1>1 DEF RecoverySelects, TypeOK
  <2> QED BY <1>0, <1>1, <2>1, QuietStep DEF RecoverySelects, Owed, TypeOK
<1>2. CASE RecoveryStops
  <2>1. TypeOK'
    BY <1>0, <1>2 DEF RecoveryStops, TypeOK
  <2> QED BY <1>0, <1>2, <2>1, QuietStep DEF RecoveryStops, TypeOK
<1>3. ASSUME NEW r \in Requests, RecoveryParks(r) PROVE IInv'
  <2>1. TypeOK'
    <3>1. [rows[r] EXCEPT !.quarantined = @ \/ rows[r].intent] \in Row
      <4>1. rows[r] \in Row
        BY <1>0 DEF TypeOK
      <4>2. (rows[r].quarantined \/ rows[r].intent) \in BOOLEAN
        OBVIOUS
      <4> QED BY <4>1, <4>2, EditedRow
    <3>2. rows' \in [Requests -> Row]
      BY <1>0, <1>3, <3>1 DEF RecoveryParks, TypeOK
    <3> QED BY <1>0, <1>3, <3>2 DEF RecoveryParks, TypeOK
  <2> QED BY <1>0, <1>3, <2>1, QuietStep DEF RecoveryParks, TypeOK
<1>4. ASSUME NEW r \in Requests, RecoveryReplays(r) PROVE IInv'
  <2>1. Transaction(r)
    BY <1>4 DEF RecoveryReplays, SettleRefused, Transaction
  <2>2. Past(r)
    BY <1>4 DEF RecoveryReplays, IInv, Fixed
  <2>3. /\ batch' \subseteq batch /\ stamping' \subseteq Requests
        /\ UNCHANGED <<pc, tries, reserved, cost, marker, collecting, foreign>>
    BY <1>0, <1>4 DEF RecoveryReplays, TypeOK
  <2> QED BY <1>0, <1>4, <2>1, <2>2, <2>3, BillingStep DEF TypeOK
<1>5. ASSUME NEW r \in Requests, RecoveryStamps(r) PROVE IInv'
  <2>1. TypeOK'
    BY <1>0, <1>5, RowOperators DEF RecoveryStamps, TypeOK
  <2>2. \A q \in Requests : /\ rows'[q].present => rows[q].present
                            /\ rows'[q].intent => rows[q].intent
    BY <1>0, <1>5, StampedKeeps DEF RecoveryStamps, TypeOK
  <2> QED BY <1>0, <1>5, <2>1, <2>2, QuietStep DEF RecoveryStamps, TypeOK
<1>6. ASSUME NEW r \in Requests, RecoveryStampLost(r) PROVE IInv'
  <2>1. TypeOK'
    BY <1>0, <1>6 DEF RecoveryStampLost, TypeOK
  <2> QED BY <1>0, <1>6, <2>1, QuietStep DEF RecoveryStampLost, TypeOK
<1> QED BY <1>1, <1>2, <1>3, <1>4, <1>5, <1>6 DEF RecoveryNext

\* The operator's commands.
LEMMA OperatorStep == ASSUME IInv, OperatorNext PROVE IInv'
<1> USE DEF Past
<1>0. TypeOK
  BY DEF IInv
<1>1. ASSUME NEW r \in Requests, CollectReads(r) PROVE IInv'
  <2>1. TypeOK'
    BY <1>0, <1>1 DEF CollectReads, TypeOK
  <2> QED BY <1>0, <1>1, <2>1, QuietStep DEF CollectReads, TypeOK
<1>2. ASSUME NEW r \in Requests, CollectReplays(r) PROVE IInv'
  <2>1. Transaction(r)
    BY <1>2 DEF CollectReplays, Transaction
  <2>2. Past(r)
    BY <1>2 DEF CollectReplays, IInv, Fixed
  <2>3. /\ collecting' \subseteq collecting
        /\ UNCHANGED <<pc, tries, reserved, cost, marker, batch, stamping,
                        foreign>>
    BY <1>0, <1>2 DEF CollectReplays, TypeOK
  <2> QED BY <1>0, <1>2, <2>1, <2>2, <2>3, BillingStep DEF TypeOK
<1>3. ASSUME NEW r \in Requests, NEW forgive \in BOOLEAN, Release(r, forgive)
      PROVE  IInv'
  <2>1. TypeOK'
    BY <1>0, <1>3 DEF Release, TypeOK
  <2> QED BY <1>0, <1>3, <2>1, QuietStep DEF Release, TypeOK
<1> QED BY <1>1, <1>2, <1>3 DEF OperatorNext

\* Every step of the specification keeps the invariant.
LEMMA NextIInv == IInv /\ [Next]_vars => IInv'
<1> SUFFICES ASSUME IInv, [Next]_vars PROVE IInv'
  OBVIOUS
<1> USE DEF Past
<1>0. TypeOK
  BY DEF IInv
<1>1. ASSUME NEW r \in Requests, RequestNext(r) PROVE IInv'
  BY <1>1, RequestStep
<1>2. CASE RecoveryNext
  BY <1>2, RecoveryStep
<1>3. CASE OperatorNext
  BY <1>3, OperatorStep
<1>4. ASSUME NEW u \in Users, Purchase(u) \/ Reverse(u) PROVE IInv'
  <2>1. TypeOK'
    BY <1>0, <1>4 DEF Purchase, Reverse, TypeOK
  <2>2. UNCHANGED <<rows, events, charged, pc, tries, reserved, cost, marker,
                    batch, stamping, collecting, foreign>>
    BY <1>4 DEF Purchase, Reverse
  <2> QED BY <1>0, <2>1, <2>2, QuietStep DEF TypeOK
<1>5. CASE UNCHANGED vars
  <2>1. TypeOK'
    BY <1>0, <1>5 DEF vars, TypeOK
  <2> QED BY <1>0, <1>5, <2>1, QuietStep DEF vars, TypeOK
<1> QED BY <1>1, <1>2, <1>3, <1>4, <1>5 DEF Next

-----------------------------------------------------------------------------
(* The theorems.                                                           *)

\* The strengthened invariant holds in every reachable state.
THEOREM Invariant == Spec => []IInv
  BY InitIInv, NextIInv, PTL DEF Spec

\* Every variable keeps its type.
THEOREM TypeCorrect == Spec => []TypeOK
<1>1. IInv => TypeOK
  BY DEF IInv
<1> QED BY Invariant, <1>1, PTL

\* Whatever retries, replays and ambiguous commits do, a request's ledger
\* entries sum to one clamped debit once it has an event, to nothing before.
THEOREM BilledExactlyOnce == Spec => []ChargedOnce
<1>1. IInv => ChargedOnce
  BY DEF IInv
<1> QED BY Invariant, <1>1, PTL

\* A reservation and its request's event never exist together, so nothing
\* can consume a reservation that was already billed.
THEOREM ConsumedByItsEvent == Spec => []NoRowBesideItsEvent
<1>1. IInv => NoRowBesideItsEvent
  BY DEF IInv
<1> QED BY Invariant, <1>1, PTL

-----------------------------------------------------------------------------
(* What a single step may do to a row that says something happened.        *)

\* q's row, if it carries evidence or a release, is kept with its release, or
\* it leaves because q was billed.
Kept(q) ==
    (rows[q].present /\ (\/ rows[q].intent \/ rows[q].dispatched
                         \/ rows[q].released # "no"))
        => \/ /\ rows'[q].present
              /\ rows[q].released # "no" => rows'[q].released = rows[q].released
           \/ q \in events' /\ rows[q].released = "no"

\* A settle transaction removes only rows it bills.
LEMMA TransactionKeeps ==
    ASSUME IInv, NEW r \in Requests, Transaction(r), NEW q \in Requests
    PROVE  Kept(q)
<1>0. TypeOK
  BY DEF IInv
<1>1. CASE SettleCommits(r)
  BY <1>0, <1>1 DEF SettleCommits, Released, Kept, TypeOK
<1>2. CASE SettleFindsDecided(r)
  <2>1. r \in events => ~rows[r].present
    BY DEF IInv, NoRowBesideItsEvent
  <2> QED BY <1>0, <1>2, <2>1 DEF SettleFindsDecided, Released, Kept, TypeOK
<1>3. CASE UNCHANGED <<rows, events, charged, balance>>
  BY <1>3 DEF Kept
<1> QED BY <1>1, <1>2, <1>3 DEF Transaction

\* So does every other step, the sweep at an admission included.
LEMMA StepKeeps ==
    ASSUME IInv, [Next]_vars, NEW q \in Requests
    PROVE  Kept(q)
<1>0. TypeOK
  BY DEF IInv
<1>1. CASE UNCHANGED rows
  BY <1>1 DEF Kept
<1>2. ASSUME NEW r \in Requests, RequestNext(r) PROVE Kept(q)
  <2>1. CASE Admit(r)
    <3>1. ~rows[r].present
      BY <2>1 DEF Admit, IInv, NewHasNoRow
    <3>2. q # r => rows'[q] = Swept(rows[q])
      BY <2>1 DEF Admit
    <3>3. q # r => Kept(q)
      BY <1>0, <3>2, SweptKeepsEvidence DEF Kept, TypeOK
    <3> QED BY <3>1, <3>3 DEF Kept
  <2>2. CASE Expire(r)
    BY <1>0, <2>2 DEF Expire, Kept, TypeOK
  <2>3. CASE MarkerLands(r)
    BY <1>0, <2>3 DEF MarkerLands, Kept, TypeOK
  <2>4. CASE PersistIntent(r) \/ PersistFails(r)
    BY <1>0, <2>4 DEF PersistIntent, PersistFails, IntentStored, Kept, TypeOK
  <2>5. CASE SettleReturns(r) \/ SettleFails(r)
    <3>1. Transaction(r)
      BY <2>5 DEF SettleReturns, SettleFails, SettleRefused, Transaction
    <3> QED BY <3>1, TransactionKeeps
  <2>6. CASE StampFailure(r)
    BY <1>0, <2>6, StampedKeeps DEF StampFailure, Kept, TypeOK
  <2>7. CASE \/ Refuse(r) \/ Dispatch(r) \/ MarkerLost(r)
             \/ Complete(r) \/ Abandon(r)
    BY <1>1, <2>7 DEF Refuse, Dispatch, MarkerLost, Complete, Abandon
  <2> QED BY <1>2, <2>1, <2>2, <2>3, <2>4, <2>5, <2>6, <2>7 DEF RequestNext
<1>3. CASE RecoveryNext
  <2>1. ASSUME NEW r \in Requests, RecoveryReplays(r) PROVE Kept(q)
    <3>1. Transaction(r)
      BY <2>1 DEF RecoveryReplays, SettleRefused, Transaction
    <3> QED BY <3>1, TransactionKeeps
  <2>2. ASSUME NEW r \in Requests, RecoveryStamps(r) PROVE Kept(q)
    BY <1>0, <2>2, StampedKeeps DEF RecoveryStamps, Kept, TypeOK
  <2>3. ASSUME NEW r \in Requests, RecoveryParks(r) PROVE Kept(q)
    BY <1>0, <2>3 DEF RecoveryParks, Kept, TypeOK
  <2>4. ASSUME NEW r \in Requests, RecoveryStampLost(r) PROVE Kept(q)
    BY <1>1, <2>4 DEF RecoveryStampLost
  <2>5. CASE RecoverySelects \/ RecoveryStops
    BY <1>1, <2>5 DEF RecoverySelects, RecoveryStops
  <2> QED BY <1>3, <2>1, <2>2, <2>3, <2>4, <2>5 DEF RecoveryNext
<1>4. CASE OperatorNext
  <2>1. ASSUME NEW r \in Requests, CollectReplays(r) PROVE Kept(q)
    <3>1. Transaction(r)
      BY <2>1 DEF CollectReplays, Transaction
    <3> QED BY <3>1, TransactionKeeps
  <2>2. ASSUME NEW r \in Requests, NEW forgive \in BOOLEAN, Release(r, forgive)
        PROVE  Kept(q)
    BY <1>0, <2>2 DEF Release, Kept, TypeOK
  <2>3. ASSUME NEW r \in Requests, CollectReads(r) PROVE Kept(q)
    BY <1>1, <2>3 DEF CollectReads
  <2> QED BY <1>4, <2>1, <2>2, <2>3 DEF OperatorNext
<1>5. ASSUME NEW u \in Users, Purchase(u) \/ Reverse(u) PROVE Kept(q)
  BY <1>1, <1>5 DEF Purchase, Reverse
<1>6. CASE UNCHANGED vars
  BY <1>1, <1>6 DEF vars
<1> QED BY <1>2, <1>3, <1>4, <1>5, <1>6 DEF Next

\* A row carrying a debt or a dispatch leaves the table only by being billed.
THEOREM EvidenceOutlivesEverything == Spec => EvidenceLeavesOnlyBilled
<1>1. IInv /\ [Next]_vars
        => [\A r \in Requests :
              (rows[r].present /\ (rows[r].intent \/ rows[r].dispatched)
                  /\ ~rows'[r].present) => r \in events']_vars
  BY StepKeeps DEF Kept
<1> QED BY Invariant, <1>1, PTL DEF Spec, EvidenceLeavesOnlyBilled

\* A released reservation stays, stays released, and is never billed.
THEOREM ForgivenessIsFinal == Spec => ReleaseIsFinal
<1>1. IInv /\ IInv' /\ [Next]_vars
        => [\A r \in Requests :
              Released(r) => /\ rows'[r].present
                             /\ rows'[r].released = rows[r].released
                             /\ r \notin events']_vars
  BY StepKeeps DEF Kept, Released, IInv, NoRowBesideItsEvent
<1> QED BY Invariant, <1>1, PTL DEF Spec, ReleaseIsFinal

-----------------------------------------------------------------------------
(* What a parked or released row proves, and what a request may report.    *)

\* A row that is gone says nothing, a parked one has evidence, a released one
\* is parked.
Honest(row) ==
    /\ ~row.present => /\ ~row.intent /\ ~row.quarantined
                      /\ row.released = "no"
    /\ row.quarantined => row.intent \/ row.dispatched
    /\ row.released # "no" => row.quarantined

RowsHonest == \A r \in Requests : Honest(rows[r])

\* The operators that write whole rows keep a row honest.
LEMMA HonestOperators ==
    /\ Honest(NoRow) /\ Honest(FreshRow)
    /\ \A row \in Row : Honest(row) => Honest(Swept(row)) /\ Honest(Stamped(row))
<1>1. Honest(NoRow) /\ Honest(FreshRow)
  BY DEF Honest, NoRow, FreshRow
<1>2. ASSUME NEW row \in Row, Honest(row) PROVE Honest(Swept(row))
  BY <1>1, <1>2 DEF Honest, Swept
<1>3. ASSUME NEW row \in Row, Honest(row) PROVE Honest(Stamped(row))
  <2>1. CASE ~row.present
    BY <1>3, <2>1 DEF Stamped
  <2>2. CASE row.present /\ row.intent
    BY <1>3, <2>2 DEF Stamped, Honest
  <2>3. CASE row.present /\ ~row.intent
    BY <1>3, <2>3 DEF Stamped, Honest
  <2> QED BY <1>3, <2>1, <2>2, <2>3
<1> QED BY <1>1, <1>2, <1>3

\* A settle transaction only ever removes a row.
LEMMA TransactionHonest ==
    ASSUME TypeOK, RowsHonest, NEW r \in Requests, Transaction(r)
    PROVE  RowsHonest'
<1>1. \A q \in Requests : rows'[q] \in {rows[q], NoRow}
  BY DEF Transaction, SettleCommits, SettleFindsDecided, TypeOK
<1> QED BY <1>1, HonestOperators DEF RowsHonest

\* No statement trips the CHECKs: each keeps every row honest.
LEMMA RowsHonestStep == TypeOK /\ RowsHonest /\ [Next]_vars => RowsHonest'
<1> SUFFICES ASSUME TypeOK, RowsHonest, [Next]_vars PROVE RowsHonest'
  OBVIOUS
<1>0. CASE UNCHANGED rows
  BY <1>0 DEF RowsHonest
<1>1. ASSUME NEW r \in Requests, RequestNext(r) PROVE RowsHonest'
  <2>1. CASE Admit(r)
    <3>1. rows' = [q \in Requests |-> IF q = r THEN FreshRow
                                               ELSE Swept(rows[q])]
      BY <2>1 DEF Admit
    <3>2. \A q \in Requests : Honest(Swept(rows[q]))
      BY HonestOperators DEF RowsHonest, TypeOK
    <3> QED BY <3>1, <3>2, HonestOperators DEF RowsHonest
  <2>2. CASE Expire(r)
    BY <2>2 DEF Expire, RowsHonest, Honest, TypeOK
  <2>3. CASE MarkerLands(r)
    BY <2>3 DEF MarkerLands, RowsHonest, Honest, TypeOK
  <2>4. CASE PersistIntent(r) \/ PersistFails(r)
    <3>1. CASE IntentStored(r)
      BY <3>1 DEF IntentStored, RowsHonest, Honest, TypeOK
    <3> QED BY <1>0, <2>4, <3>1 DEF PersistIntent, PersistFails
  <2>5. CASE SettleReturns(r) \/ SettleFails(r)
    <3>1. Transaction(r)
      BY <2>5 DEF SettleReturns, SettleFails, SettleRefused, Transaction
    <3> QED BY <3>1, TransactionHonest
  <2>6. CASE StampFailure(r)
    BY <1>0, <2>6, HonestOperators DEF StampFailure, RowsHonest, TypeOK
  <2>7. CASE \/ Refuse(r) \/ Dispatch(r) \/ MarkerLost(r)
             \/ Complete(r) \/ Abandon(r)
    BY <1>0, <2>7 DEF Refuse, Dispatch, MarkerLost, Complete, Abandon
  <2> QED BY <1>1, <2>1, <2>2, <2>3, <2>4, <2>5, <2>6, <2>7 DEF RequestNext
<1>2. CASE RecoveryNext
  <2>1. ASSUME NEW r \in Requests, RecoveryReplays(r) PROVE RowsHonest'
    <3>1. Transaction(r)
      BY <2>1 DEF RecoveryReplays, SettleRefused, Transaction
    <3> QED BY <3>1, TransactionHonest
  <2>2. ASSUME NEW r \in Requests, RecoveryStamps(r) PROVE RowsHonest'
    BY <2>2, HonestOperators DEF RecoveryStamps, RowsHonest, TypeOK
  <2>3. ASSUME NEW r \in Requests, RecoveryParks(r) PROVE RowsHonest'
    BY <2>3 DEF RecoveryParks, RowsHonest, Honest, TypeOK
  <2>4. ASSUME NEW r \in Requests, RecoveryStampLost(r) PROVE RowsHonest'
    BY <1>0, <2>4 DEF RecoveryStampLost
  <2>5. CASE RecoverySelects \/ RecoveryStops
    BY <1>0, <2>5 DEF RecoverySelects, RecoveryStops
  <2> QED BY <1>2, <2>1, <2>2, <2>3, <2>4, <2>5 DEF RecoveryNext
<1>3. CASE OperatorNext
  <2>1. ASSUME NEW r \in Requests, CollectReplays(r) PROVE RowsHonest'
    <3>1. Transaction(r)
      BY <2>1 DEF CollectReplays, Transaction
    <3> QED BY <3>1, TransactionHonest
  <2>2. ASSUME NEW r \in Requests, NEW forgive \in BOOLEAN, Release(r, forgive)
        PROVE  RowsHonest'
    BY <2>2 DEF Release, RowsHonest, Honest, TypeOK
  <2>3. ASSUME NEW r \in Requests, CollectReads(r) PROVE RowsHonest'
    BY <1>0, <2>3 DEF CollectReads
  <2> QED BY <1>3, <2>1, <2>2, <2>3 DEF OperatorNext
<1>4. ASSUME NEW u \in Users, Purchase(u) \/ Reverse(u) PROVE RowsHonest'
  BY <1>0, <1>4 DEF Purchase, Reverse
<1>5. CASE UNCHANGED vars
  BY <1>0, <1>5 DEF vars
<1> QED BY <1>1, <1>2, <1>3, <1>4, <1>5 DEF Next

\* A quarantined row has evidence of a dispatch or a debt and a released row
\* is quarantined: no statement trips the CHECKs of migrations 0014 and 0015.
THEOREM ParkedRowsHaveEvidence == Spec => []ParkedWithEvidence
<1>1. Init => RowsHonest
  BY HonestOperators DEF Init, RowsHonest
<1>2. Spec => []RowsHonest
  BY <1>1, RowsHonestStep, TypeCorrect, PTL DEF Spec
<1>3. RowsHonest => ParkedWithEvidence
  BY DEF RowsHonest, Honest, ParkedWithEvidence, Released
<1> QED BY <1>2, <1>3, PTL

\* Events are never deleted.
LEMMA EventsStay ==
    ASSUME [Next]_vars, NEW q \in events
    PROVE  q \in events'
<1>0. CASE UNCHANGED events
  BY <1>0
<1>1. ASSUME NEW r \in Requests, Transaction(r) PROVE q \in events'
  BY <1>1 DEF Transaction, SettleCommits, SettleFindsDecided
<1>2. ASSUME NEW r \in Requests, RequestNext(r) PROVE q \in events'
  <2>1. CASE SettleReturns(r) \/ SettleFails(r)
    BY <1>1, <2>1 DEF SettleReturns, SettleFails, SettleRefused, Transaction
  <2>2. CASE ~(SettleReturns(r) \/ SettleFails(r))
    BY <1>0, <1>2, <2>2 DEF RequestNext, Admit, Refuse, Expire, Dispatch,
       MarkerLands, MarkerLost, Complete, Abandon, PersistIntent,
       PersistFails, StampFailure
  <2> QED BY <2>1, <2>2
<1>3. CASE RecoveryNext
  <2>1. ASSUME NEW r \in Requests, RecoveryReplays(r) PROVE q \in events'
    BY <1>1, <2>1 DEF RecoveryReplays, SettleRefused, Transaction
  <2> QED BY <1>0, <1>3, <2>1 DEF RecoveryNext, RecoverySelects, RecoveryStops,
         RecoveryParks, RecoveryStamps, RecoveryStampLost
<1>4. CASE OperatorNext
  <2>1. ASSUME NEW r \in Requests, CollectReplays(r) PROVE q \in events'
    BY <1>1, <2>1 DEF CollectReplays, Transaction
  <2> QED BY <1>0, <1>4, <2>1 DEF OperatorNext, CollectReads, Release
<1>5. ASSUME NEW u \in Users, Purchase(u) \/ Reverse(u) PROVE q \in events'
  BY <1>0, <1>5 DEF Purchase, Reverse
<1>6. CASE UNCHANGED vars
  BY <1>0, <1>6 DEF vars
<1> QED BY <1>2, <1>3, <1>4, <1>5, <1>6 DEF Next

\* Only a settle that found or made a decision lets a request report success.
LEMMA OnlySettleReports ==
    ASSUME TypeOK, [Next]_vars, NEW q \in Requests, pc'[q] = "settled"
    PROVE  \/ pc[q] = "settled"
           \/ SettleCommits(q) \/ SettleFindsDecided(q)
<1>0. CASE UNCHANGED pc
  BY <1>0
<1>1. ASSUME NEW r \in Requests, RequestNext(r), r # q
      PROVE  pc'[q] = pc[q]
  BY <1>1 DEF TypeOK, RequestNext, Admit, Refuse, Expire, Dispatch,
     MarkerLands, MarkerLost, Complete, Abandon, PersistIntent, PersistFails,
     SettleReturns, SettleFails, StampFailure, EndTask, StartSettling
<1>2. CASE RequestNext(q)
  <2>1. CASE SettleReturns(q)
    BY <2>1 DEF SettleReturns
  <2>2. CASE ~SettleReturns(q)
    BY <1>2, <2>2 DEF TypeOK, RequestNext, Admit, Refuse, Expire, Dispatch,
       MarkerLands, MarkerLost, Complete, Abandon, PersistIntent, PersistFails,
       SettleFails, StampFailure, EndTask, StartSettling
  <2> QED BY <2>1, <2>2
<1>3. CASE RecoveryNext
  BY <1>0, <1>3 DEF RecoveryNext, RecoverySelects, RecoveryStops,
     RecoveryParks, RecoveryReplays, RecoveryStamps, RecoveryStampLost
<1>4. CASE OperatorNext
  BY <1>0, <1>4 DEF OperatorNext, CollectReads, CollectReplays, Release
<1>5. ASSUME NEW u \in Users, Purchase(u) \/ Reverse(u) PROVE UNCHANGED pc
  BY <1>5 DEF Purchase, Reverse
<1>6. CASE UNCHANGED vars
  BY <1>0, <1>6 DEF vars
<1> QED BY <1>0, <1>1, <1>2, <1>3, <1>4, <1>5, <1>6 DEF Next

\* A request that reports its record settled was billed, or an operator had
\* given its debt up, and neither is ever undone.
THEOREM ReportedMeansResolved == Spec => []OkMeansResolved
<1>1. Init => OkMeansResolved
  BY DEF Init, OkMeansResolved
<1>2. IInv /\ IInv' /\ OkMeansResolved /\ [Next]_vars => OkMeansResolved'
  <2> SUFFICES ASSUME IInv, IInv', OkMeansResolved, [Next]_vars,
                      NEW q \in Requests, pc'[q] = "settled"
               PROVE  q \in events' \/ Released(q)'
    BY DEF OkMeansResolved
  <2>0. TypeOK
    BY DEF IInv
  <2>1. Released(q) => Released(q)'
    BY StepKeeps DEF Kept, Released, IInv, NoRowBesideItsEvent
  <2>2. CASE pc[q] = "settled"
    BY <2>1, <2>2, EventsStay DEF OkMeansResolved
  <2>3. CASE SettleCommits(q)
    BY <2>3 DEF SettleCommits
  <2>4. CASE SettleFindsDecided(q)
    BY <2>1, <2>4, EventsStay DEF SettleFindsDecided
  <2> QED BY <2>0, <2>2, <2>3, <2>4, OnlySettleReports
<1> QED BY <1>1, <1>2, Invariant, PTL DEF Spec

-----------------------------------------------------------------------------
(* Settlement implements Charge.                                           *)

\* An account is a function of a request's row, event and task.
LEMMA AccountStep ==
    ASSUME NEW q \in Requests,
           (q \in events') = (q \in events), rows'[q] = rows[q],
           (pc'[q] \in {"new", "refused"}) = (pc[q] \in {"new", "refused"})
    PROVE  Account(q)' = Account(q)
  BY DEF Account, Released

\* A row that changes without appearing, vanishing or being released leaves
\* its account alone.
LEMMA SameStanding ==
    ASSUME NEW q \in Requests,
           (q \in events') = (q \in events),
           rows'[q].present = rows[q].present,
           rows'[q].released = rows[q].released,
           (pc'[q] \in {"new", "refused"}) = (pc[q] \in {"new", "refused"})
    PROVE  Account(q)' = Account(q)
  BY DEF Account, Released

\* A settle transaction bills its request or changes no account.
LEMMA TransactionRefines ==
    ASSUME IInv, NEW r \in Requests, Past(r), Transaction(r),
           UNCHANGED <<cost, reserved>>,
           \A q \in Requests : (pc'[q] \in {"new", "refused"})
                                  = (pc[q] \in {"new", "refused"})
    PROVE  [Charges!Next]_(Charges!chargeVars)
<1>0. TypeOK /\ ~NoRow.present /\ NoRow.released = "no"
  BY DEF IInv, NoRow
<1>1. CASE SettleCommits(r)
  <2>1. Account(r) = "held"
    BY <1>1 DEF SettleCommits, Account
  <2>2. Account(r)' = "billed"
    BY <1>1 DEF SettleCommits, Account
  <2>3. \A q \in Requests : q # r => Account(q)' = Account(q)
    <3> SUFFICES ASSUME NEW q \in Requests, q # r
                 PROVE  Account(q)' = Account(q)
      OBVIOUS
    <3>1. rows'[q] = rows[q] /\ (q \in events') = (q \in events)
      BY <1>0, <1>1 DEF SettleCommits, TypeOK
    <3> QED BY <3>1, AccountStep
  <2>4. AccountOf' = [AccountOf EXCEPT ![r] = "billed"]
    BY <2>2, <2>3 DEF AccountOf
  <2>5. Debit(r) \in 0..reserved[r]
    <3>1. cost[r] \in Nat /\ reserved[r] \in Nat
      BY <1>0, BoundsAssumption DEF TypeOK
    <3> QED BY <3>1 DEF Debit, Lesser
  <2>6. charged' = [charged EXCEPT ![r] = Debit(r)]
    <3>1. charged[r] = 0
      BY <1>1 DEF IInv, ChargedOnce, SettleCommits
    <3>2. Debit(r) \in Nat
      BY <1>0, DebitIsNat
    <3>3. charged' = [charged EXCEPT ![r] = charged[r] + Debit(r)]
      BY <1>1 DEF SettleCommits
    <3>4. charged[r] + Debit(r) = Debit(r)
      BY <3>1, <3>2
    <3> QED BY <3>3, <3>4
  <2>7. balance' = [balance EXCEPT ![Owner[r]] = @ - Debit(r)]
    BY <1>1 DEF SettleCommits
  <2>8. Charges!Bill(r)
    BY <2>1, <2>4, <2>5, <2>6, <2>7 DEF Charges!Bill, AccountOf
  <2> QED BY <2>8 DEF Charges!Next
<1>2. CASE SettleFindsDecided(r)
  <2>1. r \in events => ~rows[r].present
    BY DEF IInv, NoRowBesideItsEvent
  <2>2. UNCHANGED <<events, charged, balance>>
    BY <1>2 DEF SettleFindsDecided
  <2>3. \A q \in Requests : /\ rows'[q].present = rows[q].present
                            /\ Released(q)' = Released(q)
    <3>1. CASE Released(r)
      BY <1>2, <3>1 DEF SettleFindsDecided, Released
    <3>2. CASE ~Released(r)
      <4>1. rows' = [rows EXCEPT ![r] = NoRow] /\ r \in events
        BY <1>2, <3>2 DEF SettleFindsDecided
      <4>2. rows[r].present = FALSE /\ rows'[r].present = FALSE
        BY <1>0, <2>1, <4>1, BoundsAssumption DEF TypeOK
      <4>3. \A q \in Requests : q # r => rows'[q] = rows[q]
        BY <1>0, <4>1 DEF TypeOK
      <4> QED BY <4>2, <4>3 DEF Released
    <3> QED BY <3>1, <3>2
  <2>4. \A q \in Requests : Account(q)' = Account(q)
    BY <2>2, <2>3 DEF Account
  <2>5. AccountOf' = AccountOf
    BY <2>4 DEF AccountOf
  <2> QED BY <2>2, <2>5 DEF Charges!chargeVars
<1>3. CASE UNCHANGED <<rows, events, charged, balance>>
  <2>1. \A q \in Requests : Account(q)' = Account(q)
    BY <1>3, AccountStep
  <2>2. AccountOf' = AccountOf
    BY <2>1 DEF AccountOf
  <2> QED BY <1>3, <2>2 DEF Charges!chargeVars
<1> QED BY <1>1, <1>2, <1>3 DEF Transaction

\* What a step owes the abstract charge when it bills nobody and every row
\* keeps its standing.
LEMMA QuietRefines ==
    ASSUME UNCHANGED <<events, charged, reserved, balance>>,
           \A q \in Requests :
              /\ rows'[q].present = rows[q].present
              /\ rows'[q].released = rows[q].released
              /\ (pc'[q] \in {"new", "refused"}) = (pc[q] \in {"new", "refused"})
    PROVE  [Charges!Next]_(Charges!chargeVars)
<1>1. \A q \in Requests : Account(q)' = Account(q)
  BY SameStanding
<1>2. AccountOf' = AccountOf
  BY <1>1 DEF AccountOf
<1> QED BY <1>2 DEF Charges!chargeVars

\* An admission holds its reservation and lets the reclaimed ones go.
LEMMA AdmitRefines ==
    ASSUME IInv, NEW r \in Requests, Admit(r)
    PROVE  Charges!Hold(r)
<1> DEFINE idle == {q \in Requests : q # r /\ Account(q) = "held"
                                     /\ ~rows'[q].present}
<1>0. TypeOK
  BY DEF IInv
<1>1. /\ rows' = [q \in Requests |-> IF q = r THEN FreshRow ELSE Swept(rows[q])]
      /\ pc[r] = "new" /\ pc' = [pc EXCEPT ![r] = "walking"]
      /\ UNCHANGED <<events, charged, balance>>
  BY DEF Admit
<1>2. Account(r) = "none" /\ r \notin events
  <2>1. r \notin events /\ ~rows[r].present
    BY <1>1 DEF IInv, Fixed, Past, NewHasNoRow
  <2> QED BY <1>1, <2>1 DEF Account, Released
<1>3. Account(r)' = "held"
  BY <1>1, <1>2 DEF Account, Released, FreshRow, NoRow
<1>4. ASSUME NEW q \in Requests, q # r
      PROVE  Account(q)' = IF q \in idle THEN "void" ELSE Account(q)
  <2>1. rows'[q] = Swept(rows[q]) /\ rows[q] \in Row
    BY <1>0, <1>1, <1>4 DEF TypeOK
  <2>2. pc'[q] = pc[q]
    BY <1>0, <1>1, <1>4 DEF TypeOK
  <2>3. rows[q].present => pc[q] \notin {"new", "refused"}
    BY DEF IInv, NewHasNoRow
  <2>4. rows'[q].present => /\ rows[q].present
                            /\ rows'[q].released = rows[q].released
    BY <2>1 DEF Swept, NoRow
  <2>5. rows[q].present /\ rows[q].released # "no" => rows'[q].present
    BY <2>1, SweptKeepsEvidence
  <2> QED BY <1>1, <1>4, <2>2, <2>3, <2>4, <2>5 DEF Account, Released
<1>5. AccountOf' = [q \in Requests |-> IF q = r THEN "held"
                                       ELSE IF q \in idle THEN "void"
                                       ELSE AccountOf[q]]
  BY <1>3, <1>4 DEF AccountOf
<1>6. idle \in SUBSET {q \in Requests : AccountOf[q] = "held"}
  BY DEF AccountOf
<1>7. reserved'[r] \in Nat /\ reserved' = [reserved EXCEPT ![r] = reserved'[r]]
  BY <1>0, BoundsAssumption DEF Admit, TypeOK
<1> QED BY <1>1, <1>2, <1>5, <1>6, <1>7 DEF Charges!Hold, AccountOf

\* Every step of the specification is a step of the abstract charge, or none.
LEMMA StepRefines ==
    ASSUME IInv, [Next]_vars
    PROVE  [Charges!Next]_(Charges!chargeVars)
<1> USE DEF Past
<1>0. TypeOK
  BY DEF IInv
<1>1. ASSUME NEW r \in Requests, RequestNext(r)
      PROVE  [Charges!Next]_(Charges!chargeVars)
  <2>1. CASE Admit(r)
    BY <2>1, AdmitRefines DEF Charges!Next
  <2>2. CASE \/ Expire(r) \/ MarkerLands(r)
    <3>1. \A q \in Requests : /\ rows'[q].present = rows[q].present
                              /\ rows'[q].released = rows[q].released
      BY <1>0, <2>2 DEF Expire, MarkerLands, TypeOK
    <3> QED BY <2>2, <3>1, QuietRefines DEF Expire, MarkerLands
  <2>3. CASE \/ Refuse(r) \/ Dispatch(r) \/ MarkerLost(r)
             \/ Complete(r) \/ Abandon(r)
    <3>1. /\ UNCHANGED <<rows, events, charged, reserved, balance>>
          /\ \A q \in Requests : (pc'[q] \in {"new", "refused"})
                                    = (pc[q] \in {"new", "refused"})
      BY <1>0, <2>3 DEF Refuse, Dispatch, MarkerLost, Complete, Abandon,
                        EndTask, Running, TypeOK
    <3> QED BY <3>1, QuietRefines
  <2>4. CASE PersistIntent(r) \/ PersistFails(r)
    <3>1. /\ \A q \in Requests : /\ rows'[q].present = rows[q].present
                                 /\ rows'[q].released = rows[q].released
          /\ UNCHANGED <<events, charged, reserved, balance>>
      <4>1. CASE IntentStored(r)
        <5>1. \A q \in Requests : /\ rows'[q].present = rows[q].present
                                  /\ rows'[q].released = rows[q].released
          BY <1>0, <4>1 DEF IntentStored, TypeOK
        <5> QED BY <2>4, <5>1 DEF PersistIntent, PersistFails
      <4>2. CASE UNCHANGED rows
        BY <2>4, <4>2 DEF PersistIntent, PersistFails
      <4> QED BY <2>4, <4>1, <4>2 DEF PersistIntent, PersistFails
    <3>2. \A q \in Requests : (pc'[q] \in {"new", "refused"})
                                 = (pc[q] \in {"new", "refused"})
      BY <1>0, <2>4 DEF PersistIntent, PersistFails, StartSettling, TypeOK
    <3> QED BY <3>1, <3>2, QuietRefines
  <2>5. CASE SettleReturns(r)
    <3>1. Transaction(r) /\ Past(r) /\ UNCHANGED <<cost, reserved>>
      BY <2>5 DEF SettleReturns, Transaction
    <3>2. \A q \in Requests : (pc'[q] \in {"new", "refused"})
                                 = (pc[q] \in {"new", "refused"})
      BY <1>0, <2>5 DEF SettleReturns, EndTask, TypeOK
    <3> QED BY <3>1, <3>2, TransactionRefines
  <2>6. CASE SettleFails(r)
    <3>1. Transaction(r) /\ Past(r) /\ UNCHANGED <<cost, reserved>>
      BY <2>6 DEF SettleFails, SettleRefused, Transaction
    <3>2. \A q \in Requests : (pc'[q] \in {"new", "refused"})
                                 = (pc[q] \in {"new", "refused"})
      BY <1>0, <2>6 DEF SettleFails, TypeOK
    <3> QED BY <3>1, <3>2, TransactionRefines
  <2>7. CASE StampFailure(r)
    <3>1. /\ \A q \in Requests : /\ rows'[q].present = rows[q].present
                                 /\ rows'[q].released = rows[q].released
          /\ UNCHANGED <<events, charged, reserved, balance>>
      BY <1>0, <2>7, StampedKeeps DEF StampFailure, TypeOK
    <3>2. \A q \in Requests : (pc'[q] \in {"new", "refused"})
                                 = (pc[q] \in {"new", "refused"})
      BY <1>0, <2>7 DEF StampFailure, EndTask, TypeOK
    <3> QED BY <3>1, <3>2, QuietRefines
  <2> QED BY <1>1, <2>1, <2>2, <2>3, <2>4, <2>5, <2>6, <2>7 DEF RequestNext
<1>2. CASE RecoveryNext
  <2>1. ASSUME NEW r \in Requests, RecoveryReplays(r)
        PROVE  [Charges!Next]_(Charges!chargeVars)
    <3>1. Transaction(r) /\ UNCHANGED <<cost, reserved, pc>>
      BY <2>1 DEF RecoveryReplays, SettleRefused, Transaction
    <3>2. Past(r)
      BY <2>1 DEF RecoveryReplays, IInv, Fixed
    <3> QED BY <3>1, <3>2, TransactionRefines
  <2>2. ASSUME NEW r \in Requests, RecoveryStamps(r) \/ RecoveryParks(r)
        PROVE  [Charges!Next]_(Charges!chargeVars)
    <3>1. \A q \in Requests : /\ rows'[q].present = rows[q].present
                              /\ rows'[q].released = rows[q].released
      BY <1>0, <2>2, StampedKeeps DEF RecoveryStamps, RecoveryParks, TypeOK
    <3> QED BY <2>2, <3>1, QuietRefines DEF RecoveryStamps, RecoveryParks
  <2>3. ASSUME NEW r \in Requests, RecoveryStampLost(r)
        PROVE  [Charges!Next]_(Charges!chargeVars)
    BY <2>3, QuietRefines DEF RecoveryStampLost
  <2>4. CASE RecoverySelects \/ RecoveryStops
    BY <2>4, QuietRefines DEF RecoverySelects, RecoveryStops
  <2> QED BY <1>2, <2>1, <2>2, <2>3, <2>4 DEF RecoveryNext
<1>3. CASE OperatorNext
  <2>1. ASSUME NEW r \in Requests, CollectReplays(r)
        PROVE  [Charges!Next]_(Charges!chargeVars)
    <3>1. Transaction(r) /\ UNCHANGED <<cost, reserved, pc>>
      BY <2>1 DEF CollectReplays, Transaction
    <3>2. Past(r)
      BY <2>1 DEF CollectReplays, IInv, Fixed
    <3> QED BY <3>1, <3>2, TransactionRefines
  <2>2. ASSUME NEW r \in Requests, CollectReads(r)
        PROVE  [Charges!Next]_(Charges!chargeVars)
    BY <2>2, QuietRefines DEF CollectReads
  <2>3. ASSUME NEW r \in Requests, NEW forgive \in BOOLEAN, Release(r, forgive)
        PROVE  [Charges!Next]_(Charges!chargeVars)
    <3>1. r \notin events
      BY <2>3 DEF Release, IInv, NoRowBesideItsEvent
    <3>2. Account(r) = "held" /\ Account(r)' = "waived"
      BY <1>0, <2>3, <3>1 DEF Release, Account, Released, TypeOK
    <3>3. ASSUME NEW q \in Requests, q # r PROVE Account(q)' = Account(q)
      BY <1>0, <2>3, <3>3, AccountStep DEF Release, TypeOK
    <3>4. AccountOf' = [AccountOf EXCEPT ![r] = "waived"]
      BY <3>2, <3>3 DEF AccountOf
    <3>5. Charges!GiveUp(r)
      BY <2>3, <3>2, <3>4 DEF Charges!GiveUp, AccountOf, Release
    <3> QED BY <3>5 DEF Charges!Next
  <2> QED BY <1>3, <2>1, <2>2, <2>3 DEF OperatorNext
<1>4. ASSUME NEW u \in Users, Purchase(u) \/ Reverse(u)
      PROVE  [Charges!Next]_(Charges!chargeVars)
  <2>1. \A q \in Requests : Account(q)' = Account(q)
    BY <1>4, AccountStep DEF Purchase, Reverse
  <2>2. AccountOf' = AccountOf
    BY <2>1 DEF AccountOf
  <2>3. balance'[u] \in Int /\ balance' = [balance EXCEPT ![u] = balance'[u]]
    BY <1>0, <1>4 DEF Purchase, Reverse, TypeOK
  <2>4. Charges!Fund(u)
    BY <1>4, <2>2, <2>3 DEF Charges!Fund, Purchase, Reverse
  <2> QED BY <2>4 DEF Charges!Next
<1>5. CASE UNCHANGED vars
  BY <1>5, QuietRefines DEF vars
<1> QED BY <1>1, <1>2, <1>3, <1>4, <1>5 DEF Next

\* The outbox, its retries, its recovery and its operators together only ever
\* hold once, and then bill once, give up once or let go once.
THEOREM Refinement == Spec => ImplementsCharge
<1>1. Init => Charges!Init
  <2> SUFFICES ASSUME Init PROVE Charges!Init
    OBVIOUS
  <2>1. balance \in [Users -> Int]
    BY InitIInv DEF IInv, TypeOK
  <2>2. AccountOf = [r \in Requests |-> "none"]
    BY DEF Init, AccountOf, Account, Released, NoRow
  <2> QED BY <2>1, <2>2 DEF Init, Charges!Init
<1>2. IInv /\ [Next]_vars => [Charges!Next]_(Charges!chargeVars)
  BY StepRefines
<1> QED BY Invariant, <1>1, <1>2, PTL
        DEF Spec, ImplementsCharge, Charges!Spec

-----------------------------------------------------------------------------
(* Where no request outlives its reservation.  The sweep takes a row only  *)
(* when it is expired and bare; by then its request is over and the spawned *)
(* marker has been written, and shows on the row, or is lost.               *)

\* What r's row, task and marker say of each other when r finishes in time.
InTime(r) ==
    /\ rows[r].present /\ rows[r].expired
         => pc[r] \notin Running /\ marker[r] # "inflight"
    /\ rows[r].present /\ marker[r] = "written" => rows[r].dispatched
    /\ pc[r] \in {"new", "refused"} => marker[r] = "unfired"
    /\ ~rows[r].present /\ r \notin events /\ pc[r] \notin {"new", "refused"}
         => pc[r] \notin Running /\ marker[r] \in {"unfired", "lost"}
    /\ rows[r].present /\ (r \in batch \/ r \in collecting)
         => rows[r].intent

OnTime == \A r \in Requests : InTime(r)

\* A step that leaves q's row standing, starts nothing for it and lets it
\* expire only when its request is over.
LEMMA SameTime ==
    ASSUME NEW q \in Requests, InTime(q),
           rows'[q].present = rows[q].present,
           rows'[q].expired => \/ rows[q].expired
                               \/ pc[q] \notin Running /\ marker[q] # "inflight",
           rows[q].dispatched => rows'[q].dispatched,
           rows[q].intent => rows'[q].intent,
           marker'[q] = marker[q],
           q \in events => q \in events',
           pc'[q] \in Running => pc[q] \in Running,
           (pc'[q] \in {"new", "refused"}) = (pc[q] \in {"new", "refused"}),
           q \in batch' => q \in batch \/ rows[q].intent,
           q \in collecting' => q \in collecting \/ rows[q].intent
    PROVE  InTime(q)'
  BY DEF InTime

\* A row the sweep leaves keeps everything but its quarantine.
LEMMA SweptSameRow ==
    ASSUME NEW row \in Row, Swept(row).present
    PROVE  /\ row.present
           /\ Swept(row).expired = row.expired
           /\ Swept(row).dispatched = row.dispatched
           /\ Swept(row).intent = row.intent
           /\ Swept(row).released = row.released
<1>1. ~NoRow.present
  BY DEF NoRow
<1>2. Swept(row) = row \/ Swept(row) = [row EXCEPT !.quarantined = TRUE]
  BY <1>1 DEF Swept
<1> QED BY <1>2

\* A stamp touches nothing of a row but its failures and its quarantine.
LEMMA StampedSameRow ==
    ASSUME NEW row \in Row
    PROVE  /\ Stamped(row).present = row.present
           /\ Stamped(row).expired = row.expired
           /\ Stamped(row).dispatched = row.dispatched
           /\ Stamped(row).intent = row.intent
           /\ Stamped(row).released = row.released
  BY DEF Stamped

\* A settle transaction takes a row away only with its event.
LEMMA TransactionTime ==
    ASSUME TypeOK, NEW r \in Requests, Transaction(r), OnTime,
           UNCHANGED marker, batch' \subseteq batch,
           collecting' \subseteq collecting,
           \A q \in Requests :
              /\ pc'[q] \in Running => pc[q] \in Running
              /\ (pc'[q] \in {"new", "refused"}) = (pc[q] \in {"new", "refused"})
    PROVE  OnTime'
<1> SUFFICES ASSUME NEW q \in Requests PROVE InTime(q)'
  BY DEF OnTime
<1>1. InTime(q)
  BY DEF OnTime
<1>2. q \in events => q \in events'
  BY DEF Transaction, SettleCommits, SettleFindsDecided
<1>3. rows'[q] = rows[q] \/ (rows'[q] = NoRow /\ q \in events')
  BY DEF Transaction, SettleCommits, SettleFindsDecided, TypeOK
<1>4. CASE rows'[q] = rows[q]
  BY <1>1, <1>2, <1>4, SameTime
<1>5. CASE rows'[q] = NoRow /\ q \in events'
  <2>1. ~rows'[q].present
    BY <1>5 DEF NoRow
  <2> QED BY <1>1, <1>5, <2>1 DEF InTime
<1> QED BY <1>3, <1>4, <1>5

\* An admission: its own row is fresh, and what it sweeps was over.
LEMMA AdmitTime ==
    ASSUME IInv, OnTime, NEW r \in Requests, Admit(r)
    PROVE  OnTime'
<1> SUFFICES ASSUME NEW q \in Requests PROVE InTime(q)'
  BY DEF OnTime
<1>0. TypeOK /\ InTime(q)
  BY DEF IInv, OnTime
<1>1. /\ rows' = [p \in Requests |-> IF p = r THEN FreshRow ELSE Swept(rows[p])]
      /\ pc[r] = "new" /\ pc' = [pc EXCEPT ![r] = "walking"]
      /\ UNCHANGED <<events, marker, batch, collecting>>
  BY DEF Admit
<1>2. CASE q = r
  <2>1. rows'[q].present /\ ~rows'[q].expired /\ pc'[q] = "walking"
    BY <1>0, <1>1, <1>2 DEF FreshRow, NoRow, TypeOK
  <2>2. marker'[q] = "unfired"
    BY <1>0, <1>1, <1>2 DEF InTime
  <2>3. q \notin batch' /\ q \notin collecting'
    BY <1>1, <1>2 DEF IInv, Fixed, Past
  <2> QED BY <2>1, <2>2, <2>3 DEF InTime
<1>3. CASE q # r
  <2>1. rows'[q] = Swept(rows[q]) /\ rows[q] \in Row /\ pc'[q] = pc[q]
    BY <1>0, <1>1, <1>3 DEF TypeOK
  <2>2. CASE rows'[q].present
    <3>1. /\ rows[q].present
          /\ rows'[q].expired = rows[q].expired
          /\ rows'[q].dispatched = rows[q].dispatched
          /\ rows'[q].intent = rows[q].intent
      BY <2>1, <2>2, SweptSameRow
    <3> QED BY <1>0, <1>1, <2>1, <2>2, <3>1, SameTime
  <2>3. CASE ~rows'[q].present /\ rows[q].present
    <3>1. rows[q].expired /\ ~rows[q].dispatched
      BY <2>1, <2>3 DEF Swept
    <3>2. /\ pc[q] \notin Running
          /\ marker[q] # "inflight" /\ marker[q] # "written"
      BY <1>0, <2>3, <3>1 DEF InTime
    <3>3. marker[q] \in {"unfired", "inflight", "written", "lost"}
      BY <1>0 DEF TypeOK
    <3>4. pc[q] \in {"new", "refused"} => marker[q] = "unfired"
      BY <1>0 DEF InTime
    <3> QED BY <1>1, <2>1, <2>3, <3>2, <3>3, <3>4 DEF InTime
  <2>4. CASE ~rows'[q].present /\ ~rows[q].present
    BY <1>0, <1>1, <2>1, <2>4 DEF InTime
  <2> QED BY <2>2, <2>3, <2>4
<1> QED BY <1>2, <1>3

\* The steps of the marker.
LEMMA MarkerTime ==
    ASSUME IInv, OnTime, NEW r \in Requests,
           Dispatch(r) \/ MarkerLands(r) \/ MarkerLost(r)
    PROVE  OnTime'
<1> SUFFICES ASSUME NEW q \in Requests PROVE InTime(q)'
  BY DEF OnTime
<1>0. TypeOK /\ InTime(q)
  BY DEF IInv, OnTime
<1>1. UNCHANGED <<events, pc, batch, collecting>>
  BY DEF Dispatch, MarkerLands, MarkerLost
<1>2. q # r => rows'[q] = rows[q] /\ marker'[q] = marker[q]
  BY <1>0 DEF Dispatch, MarkerLands, MarkerLost, TypeOK
<1>3. CASE q # r
  BY <1>0, <1>1, <1>2, <1>3, SameTime
<1>4. CASE q = r /\ Dispatch(r)
  <2>1. rows'[q] = rows[q] /\ marker'[q] = "inflight" /\ pc[q] = "walking"
    BY <1>0, <1>4 DEF Dispatch, TypeOK
  <2> QED BY <1>0, <1>1, <2>1 DEF InTime, Running
<1>5. CASE q = r /\ MarkerLands(r)
  <2>1. /\ marker[q] = "inflight" /\ marker'[q] = "written"
        /\ rows'[q].present = rows[q].present
        /\ rows'[q].expired = rows[q].expired
        /\ rows'[q].intent = rows[q].intent
        /\ rows'[q].dispatched = rows[q].present
    BY <1>0, <1>5 DEF MarkerLands, TypeOK
  <2> QED BY <1>0, <1>1, <2>1 DEF InTime
<1>6. CASE q = r /\ MarkerLost(r)
  <2>1. /\ marker[q] = "inflight" /\ marker'[q] = "lost" /\ rows'[q] = rows[q]
    BY <1>0, <1>6 DEF MarkerLost, TypeOK
  <2> QED BY <1>0, <1>1, <2>1 DEF InTime
<1> QED BY <1>3, <1>4, <1>5, <1>6

\* Every step keeps it.
LEMMA OnTimeStep ==
    ASSUME ~LateRequests, IInv, OnTime, [Next]_vars
    PROVE  OnTime'
<1>0. TypeOK /\ \A q \in Requests : InTime(q) /\ rows[q] \in Row
  BY DEF IInv, OnTime, TypeOK
<1>1. ASSUME NEW r \in Requests, RequestNext(r) PROVE OnTime'
  <2>1. CASE Admit(r)
    BY <2>1, AdmitTime
  <2>2. CASE Dispatch(r) \/ MarkerLands(r) \/ MarkerLost(r)
    BY <2>2, MarkerTime
  <2>3. CASE Refuse(r) \/ Complete(r) \/ Abandon(r)
    <3>1. /\ UNCHANGED <<rows, events, marker, batch, collecting>>
          /\ \A q \in Requests :
                /\ pc'[q] \in Running => pc[q] \in Running
                /\ (pc'[q] \in {"new", "refused"})
                     = (pc[q] \in {"new", "refused"})
      BY <1>0, <2>3 DEF Refuse, Complete, Abandon, EndTask, Running, TypeOK
    <3> QED BY <1>0, <3>1, SameTime DEF OnTime
  <2>4. CASE Expire(r)
    <3>1. /\ UNCHANGED <<events, marker, batch, collecting, pc>>
          /\ \A q \in Requests :
                /\ rows'[q].present = rows[q].present
                /\ rows'[q].dispatched = rows[q].dispatched
                /\ rows'[q].intent = rows[q].intent
                /\ rows'[q].expired =>
                     \/ rows[q].expired
                     \/ pc[q] \notin Running /\ marker[q] # "inflight"
      BY <1>0, <2>4 DEF Expire, TypeOK
    <3> QED BY <1>0, <3>1, SameTime DEF OnTime
  <2>5. CASE PersistIntent(r) \/ PersistFails(r)
    <3>1. /\ UNCHANGED <<events, marker, batch, collecting>>
          /\ IntentStored(r) \/ UNCHANGED rows
      BY <2>5 DEF PersistIntent, PersistFails
    <3>2. \A q \in Requests : /\ pc'[q] \in Running => pc[q] \in Running
                              /\ (pc'[q] \in {"new", "refused"})
                                   = (pc[q] \in {"new", "refused"})
      BY <1>0, <2>5 DEF PersistIntent, PersistFails, StartSettling, Running,
                        TypeOK
    <3>3. \A q \in Requests : /\ rows'[q].present = rows[q].present
                              /\ rows'[q].expired = rows[q].expired
                              /\ rows'[q].dispatched = rows[q].dispatched
                              /\ rows[q].present =>
                                   (rows[q].intent => rows'[q].intent)
      BY <1>0, <3>1 DEF IntentStored, TypeOK
    <3>4. ASSUME NEW q \in Requests, rows[q].present PROVE InTime(q)'
      BY <1>0, <3>1, <3>2, <3>3, <3>4, SameTime
    <3>5. ASSUME NEW q \in Requests, ~rows[q].present PROVE InTime(q)'
      BY <1>0, <3>1, <3>2, <3>3, <3>5 DEF InTime
    <3> QED BY <3>4, <3>5 DEF OnTime
  <2>6. CASE SettleReturns(r) \/ SettleFails(r)
    <3>1. /\ Transaction(r) /\ UNCHANGED <<marker, batch, collecting>>
      BY <2>6 DEF SettleReturns, SettleFails, SettleRefused, Transaction
    <3>2. \A q \in Requests : /\ pc'[q] \in Running => pc[q] \in Running
                              /\ (pc'[q] \in {"new", "refused"})
                                   = (pc[q] \in {"new", "refused"})
      BY <1>0, <2>6 DEF SettleReturns, SettleFails, EndTask, Running, TypeOK
    <3> QED BY <1>0, <3>1, <3>2, TransactionTime
  <2>7. CASE StampFailure(r)
    <3>1. /\ UNCHANGED <<events, marker, batch, collecting>>
          /\ \A q \in Requests : rows'[q] \in {rows[q], Stamped(rows[q])}
      BY <1>0, <2>7 DEF StampFailure, TypeOK
    <3>2. \A q \in Requests : /\ pc'[q] \in Running => pc[q] \in Running
                              /\ (pc'[q] \in {"new", "refused"})
                                   = (pc[q] \in {"new", "refused"})
      BY <1>0, <2>7 DEF StampFailure, EndTask, Running, TypeOK
    <3>3. \A q \in Requests : /\ rows'[q].present = rows[q].present
                              /\ rows'[q].expired = rows[q].expired
                              /\ rows'[q].dispatched = rows[q].dispatched
                              /\ rows'[q].intent = rows[q].intent
      BY <1>0, <3>1, StampedSameRow
    <3> QED BY <1>0, <3>1, <3>2, <3>3, SameTime DEF OnTime
  <2> QED BY <1>1, <2>1, <2>2, <2>3, <2>4, <2>5, <2>6, <2>7 DEF RequestNext
<1>2. CASE RecoveryNext
  <2>1. ASSUME NEW r \in Requests, RecoveryReplays(r) PROVE OnTime'
    <3>1. /\ Transaction(r) /\ UNCHANGED <<pc, marker, collecting>>
          /\ batch' \subseteq batch
      BY <2>1 DEF RecoveryReplays, SettleRefused, Transaction
    <3> QED BY <1>0, <3>1, TransactionTime
  <2>2. ASSUME NEW r \in Requests,
               RecoveryStamps(r) \/ RecoveryParks(r) \/ RecoveryStampLost(r)
        PROVE  OnTime'
    <3>1. UNCHANGED <<events, pc, marker, collecting>> /\ batch' \subseteq batch
      BY <2>2 DEF RecoveryStamps, RecoveryParks, RecoveryStampLost
    <3>2. \A q \in Requests : /\ rows'[q].present = rows[q].present
                              /\ rows'[q].expired = rows[q].expired
                              /\ rows'[q].dispatched = rows[q].dispatched
                              /\ rows'[q].intent = rows[q].intent
      BY <1>0, <2>2, StampedSameRow
         DEF RecoveryStamps, RecoveryParks, RecoveryStampLost, TypeOK
    <3> QED BY <1>0, <3>1, <3>2, SameTime DEF OnTime
  <2>3. CASE RecoverySelects
    <3>1. /\ UNCHANGED <<rows, events, pc, marker, collecting>>
          /\ \A q \in Requests : q \in batch' => rows[q].intent
      BY <2>3 DEF RecoverySelects, Owed
    <3> QED BY <1>0, <3>1, SameTime DEF OnTime
  <2>4. CASE RecoveryStops
    BY <1>0, <2>4, SameTime DEF RecoveryStops, OnTime
  <2> QED BY <1>2, <2>1, <2>2, <2>3, <2>4 DEF RecoveryNext
<1>3. CASE OperatorNext
  <2>1. ASSUME NEW r \in Requests, CollectReplays(r) PROVE OnTime'
    <3>1. /\ Transaction(r) /\ UNCHANGED <<pc, marker, batch>>
          /\ collecting' \subseteq collecting
      BY <2>1 DEF CollectReplays, Transaction
    <3> QED BY <1>0, <3>1, TransactionTime
  <2>2. ASSUME NEW r \in Requests, NEW forgive \in BOOLEAN, Release(r, forgive)
        PROVE  OnTime'
    <3>1. UNCHANGED <<events, pc, marker, batch, collecting>>
      BY <2>2 DEF Release
    <3>2. \A q \in Requests : /\ rows'[q].present = rows[q].present
                              /\ rows'[q].expired = rows[q].expired
                              /\ rows'[q].dispatched = rows[q].dispatched
                              /\ rows'[q].intent = rows[q].intent
      BY <1>0, <2>2 DEF Release, TypeOK
    <3> QED BY <1>0, <3>1, <3>2, SameTime DEF OnTime
  <2>3. ASSUME NEW r \in Requests, CollectReads(r) PROVE OnTime'
    <3>1. /\ UNCHANGED <<rows, events, pc, marker, batch>>
          /\ \A q \in Requests : q \in collecting' =>
                                    q \in collecting \/ rows[q].intent
      BY <2>3 DEF CollectReads
    <3> QED BY <1>0, <3>1, SameTime DEF OnTime
  <2> QED BY <1>3, <2>1, <2>2, <2>3 DEF OperatorNext
<1>4. ASSUME NEW u \in Users, Purchase(u) \/ Reverse(u) PROVE OnTime'
  BY <1>0, <1>4, SameTime DEF Purchase, Reverse, OnTime
<1>5. CASE UNCHANGED vars
  BY <1>0, <1>5, SameTime DEF vars, OnTime
<1> QED BY <1>1, <1>2, <1>3, <1>4, <1>5 DEF Next

THEOREM OnTimeAlways == ASSUME ~LateRequests PROVE Spec => []OnTime
<1>1. Init => OnTime
  BY DEF Init, OnTime, InTime, NoRow
<1>2. IInv /\ OnTime /\ [Next]_vars => OnTime'
  BY OnTimeStep
<1> QED BY <1>1, <1>2, Invariant, PTL DEF Spec

\* A dispatched request leaves no trace only when the UPDATE that marks it was
\* itself lost.
THEOREM SweepSparesTheDispatched ==
    ASSUME ~LateRequests PROVE Spec => []LostOnlyWithItsMarker
<1>1. OnTime => LostOnlyWithItsMarker
  BY DEF OnTime, InTime, LostOnlyWithItsMarker
<1> QED BY <1>1, OnTimeAlways, PTL

-----------------------------------------------------------------------------
(* What is encumbered is there.                                            *)

\* A settle of r finds r's reservation among those that encumber its owner.
Settleable(r) == rows[r].present /\ ~Released(r) => Encumbers(rows[r])

\* Sums over the encumbering reservations of a finite set of requests.
LEMMA EncumberedType ==
    ASSUME IsFiniteSet(Requests), TypeOK, NEW u \in Users
    PROVE  /\ IsFiniteSet(Encumbering(u))
           /\ \A q \in Encumbering(u) : reserved[q] \in Nat
           /\ Encumbered(u) \in Nat
<1>1. Encumbering(u) \in SUBSET Requests
  BY DEF Encumbering
<1>2. IsFiniteSet(Encumbering(u))
  BY <1>1, FS_Subset
<1>3. \A q \in Encumbering(u) : reserved[q] \in Nat
  BY <1>1, BoundsAssumption DEF TypeOK
<1>4. Encumbered(u) \in Nat
  BY <1>2, <1>3, SumType DEF Encumbered
<1> QED BY <1>2, <1>3, <1>4

\* The same reservations, or fewer, at the same prices over no less money.
LEMMA FundedQuiet ==
    ASSUME IsFiniteSet(Requests), TypeOK, TypeOK', EncumbranceFunded,
           UNCHANGED reserved,
           \A q \in Requests : Encumbers(rows[q])' => Encumbers(rows[q]),
           \A u \in Users : balance[u] <= balance'[u]
    PROVE  EncumbranceFunded'
<1> SUFFICES ASSUME NEW u \in Users PROVE (Encumbered(u) <= balance[u])'
  BY DEF EncumbranceFunded
<1> DEFINE S == Encumbering(u)  T == Encumbering(u)'
<1>1. T \in SUBSET S
  BY DEF Encumbering
<1>2. Encumbered(u) = SumFunctionOnSet(reserved, S)
  BY DEF Encumbered
<1>3. Encumbered(u)' = SumFunctionOnSet(reserved, T)
  BY DEF Encumbered
<1>4. IsFiniteSet(S) /\ (\A q \in S : reserved[q] \in Nat)
      /\ Encumbered(u) \in Nat
  BY EncumberedType
<1> HIDE DEF S, T
<1>5. SumFunctionOnSet(reserved, T) <= SumFunctionOnSet(reserved, S)
  BY <1>1, <1>4, SumSubset
<1>6. SumFunctionOnSet(reserved, T) \in Nat
  <2>1. IsFiniteSet(T) /\ \A q \in T : reserved[q] \in Nat
    BY <1>1, <1>4, FS_Subset
  <2> QED BY <2>1, SumType
<1>7. balance[u] \in Int /\ balance'[u] \in Int /\ balance[u] <= balance'[u]
  BY DEF TypeOK
<1>8. Encumbered(u) <= balance[u]
  BY DEF EncumbranceFunded
<1> QED BY <1>2, <1>3, <1>4, <1>5, <1>6, <1>7, <1>8

\* A settle takes a reservation away and at most as much money.
LEMMA FundedSettle ==
    ASSUME IsFiniteSet(Requests), RequireCredits, IInv, IInv',
           EncumbranceFunded, NEW r \in Requests, Settleable(r),
           SettleCommits(r), UNCHANGED reserved
    PROVE  EncumbranceFunded'
<1>0. TypeOK /\ TypeOK'
  BY DEF IInv
<1>1. /\ rows' = [rows EXCEPT ![r] = NoRow]
      /\ balance' = [balance EXCEPT ![Owner[r]] = @ - Debit(r)]
      /\ Encumbers(rows[r])
  BY DEF SettleCommits, Settleable
<1>2. ~Encumbers(NoRow)
  BY DEF Encumbers, NoRow
<1>3. Owner[r] \in Users
  BY OwnerAssumption
<1> SUFFICES ASSUME NEW u \in Users PROVE (Encumbered(u) <= balance[u])'
  BY DEF EncumbranceFunded
<1> DEFINE S == Encumbering(u)  T == Encumbering(u)'
<1>4. T = S \ {r}
  BY <1>0, <1>1, <1>2 DEF Encumbering, TypeOK
<1>5. Encumbered(u) = SumFunctionOnSet(reserved, S)
  BY DEF Encumbered
<1>6. Encumbered(u)' = SumFunctionOnSet(reserved, T)
  BY DEF Encumbered
<1>7. IsFiniteSet(S) /\ (\A q \in S : reserved[q] \in Nat)
      /\ Encumbered(u) \in Nat
  BY <1>0, EncumberedType
<1>8. Encumbered(u) <= balance[u] /\ balance[u] \in Int
  BY <1>0 DEF EncumbranceFunded, TypeOK
<1>9. CASE u # Owner[r]
  <2>1. T = S
    BY <1>4, <1>9 DEF Encumbering
  <2>2. balance'[u] = balance[u]
    BY <1>0, <1>1, <1>3, <1>9 DEF TypeOK
  <2> HIDE DEF S, T
  <2> QED BY <1>5, <1>6, <1>8, <2>1, <2>2
<1>10. CASE u = Owner[r]
  <2>1. r \in S
    BY <1>1, <1>10 DEF Encumbering
  <2>2. Debit(r) \in Nat /\ Debit(r) <= reserved[r] /\ reserved[r] \in Nat
    <3>1. cost[r] \in Nat /\ reserved[r] \in Nat
      BY <1>0, BoundsAssumption DEF TypeOK
    <3> QED BY <3>1 DEF Debit, Lesser
  <2>3. balance'[u] = balance[u] - Debit(r)
    BY <1>0, <1>1, <1>3, <1>10 DEF TypeOK
  <2> HIDE DEF S, T
  <2>4. SumFunctionOnSet(reserved, S)
          = reserved[r] + SumFunctionOnSet(reserved, T)
    <3>1. \A q \in S : reserved[q] \in Int
      BY <1>7
    <3>2. SumFunctionOnSet(reserved, S)
            = reserved[r] + SumFunctionOnSet(reserved, S \ {r})
      BY <1>7, <2>1, <3>1, SumSplit
    <3> QED BY <1>4, <3>2
  <2>5. SumFunctionOnSet(reserved, T) \in Nat
    <3>1. T \in SUBSET S
      BY <1>4
    <3>2. IsFiniteSet(T) /\ \A q \in T : reserved[q] \in Nat
      BY <1>7, <3>1, FS_Subset
    <3> QED BY <3>2, SumType
  <2> QED BY <1>5, <1>6, <1>8, <2>2, <2>3, <2>4, <2>5
<1> QED BY <1>9, <1>10

\* The sweep takes nothing that encumbers.
LEMMA SweptEncumbers ==
    ASSUME NEW row \in Row
    PROVE  Encumbers(Swept(row)) <=> Encumbers(row)
<1>1. ~Encumbers(NoRow)
  BY DEF Encumbers, NoRow
<1>2. CASE Swept(row) = NoRow
  <2>1. row = NoRow \/ (row.present /\ row.expired /\ ~row.intent)
    BY <1>2 DEF Swept, NoRow
  <2> QED BY <1>1, <1>2, <2>1 DEF Encumbers
<1>3. CASE Swept(row) = row
  BY <1>3
<1>4. CASE Swept(row) = [row EXCEPT !.quarantined = TRUE]
  BY <1>4 DEF Encumbers
<1> QED BY <1>2, <1>3, <1>4 DEF Swept

\* An admission adds what the gate found room for.
LEMMA FundedAdmit ==
    ASSUME IsFiniteSet(Requests), RequireCredits, IInv, IInv',
           EncumbranceFunded, NEW r \in Requests, Admit(r)
    PROVE  EncumbranceFunded'
<1>0. TypeOK /\ TypeOK'
  BY DEF IInv
<1>1. /\ rows' = [q \in Requests |-> IF q = r THEN FreshRow ELSE Swept(rows[q])]
      /\ pc[r] = "new" /\ UNCHANGED balance
  BY DEF Admit
<1>2. PICK size \in Money :
         /\ balance[Owner[r]] - Encumbered(Owner[r]) >= size
         /\ reserved' = [reserved EXCEPT ![r] = size]
  BY DEF Admit
<1>3. ~rows[r].present
  BY <1>1 DEF IInv, NewHasNoRow
<1>4. Encumbers(FreshRow) /\ ~Encumbers(rows[r])
  BY <1>3 DEF Encumbers, FreshRow, NoRow
<1> SUFFICES ASSUME NEW u \in Users PROVE (Encumbered(u) <= balance[u])'
  BY DEF EncumbranceFunded
<1> DEFINE S == Encumbering(u)  T == Encumbering(u)'
<1>5. \A q \in Requests : Encumbers(rows[q])' <=> (q = r \/ Encumbers(rows[q]))
  BY <1>0, <1>1, <1>4, SweptEncumbers DEF TypeOK
<1>6. T = IF Owner[r] = u THEN S \cup {r} ELSE S
  BY <1>5 DEF Encumbering
<1>7. r \notin S
  BY <1>4 DEF Encumbering
<1>8. Encumbered(u) = SumFunctionOnSet(reserved, S)
  BY DEF Encumbered
<1>9. Encumbered(u)' = SumFunctionOnSet(reserved', T)
  BY DEF Encumbered
<1>10. IsFiniteSet(S) /\ (\A q \in S : reserved[q] \in Nat)
       /\ Encumbered(u) \in Nat
  BY <1>0, EncumberedType
<1>11. Encumbered(u) <= balance[u] /\ balance[u] \in Int
  BY <1>0 DEF EncumbranceFunded, TypeOK
<1>12. /\ reserved'[r] = size /\ size \in Nat
       /\ \A q \in S : reserved'[q] = reserved[q]
  BY <1>0, <1>2, <1>7, BoundsAssumption DEF Encumbering, TypeOK
<1> HIDE DEF S, T
<1>13. SumFunctionOnSet(reserved', S) = SumFunctionOnSet(reserved, S)
  <2> DEFINE f == reserved  h == reserved'
  <2>1. \A q \in S : f[q] \in Int /\ h[q] = f[q]
    BY <1>10, <1>12
  <2> HIDE DEF f, h
  <2>2. SumFunctionOnSet(h, S) = SumFunctionOnSet(f, S)
    BY <1>10, <2>1, SumSame
  <2> QED BY <2>2 DEF f, h
<1>14. CASE Owner[r] # u
  BY <1>1, <1>6, <1>8, <1>9, <1>11, <1>13, <1>14
<1>15. CASE Owner[r] = u
  <2>1. SumFunctionOnSet(reserved', T) = size + SumFunctionOnSet(reserved', S)
    <3> DEFINE h == reserved'
    <3>1. /\ \A q \in S : h[q] \in Int
          /\ h[r] = size /\ size \in Int /\ T = S \cup {r}
      BY <1>6, <1>10, <1>12, <1>15
    <3> HIDE DEF h
    <3>2. SumFunctionOnSet(h, T) = h[r] + SumFunctionOnSet(h, S)
      BY <1>7, <1>10, <3>1, SumAdd
    <3> QED BY <3>1, <3>2 DEF h
  <2>2. balance[u] - Encumbered(u) >= size
    BY <1>2, <1>15
  <2> QED BY <1>1, <1>8, <1>9, <1>10, <1>11, <1>12, <1>13, <2>1, <2>2
<1> QED BY <1>14, <1>15

\* A settle transaction, whoever runs it.
LEMMA FundedTransaction ==
    ASSUME IsFiniteSet(Requests), RequireCredits, IInv, IInv',
           EncumbranceFunded, NEW r \in Requests, Settleable(r),
           Transaction(r), UNCHANGED reserved
    PROVE  EncumbranceFunded'
<1>0. TypeOK /\ TypeOK' /\ ~Encumbers(NoRow)
  BY DEF IInv, Encumbers, NoRow
<1>1. CASE SettleCommits(r)
  BY <1>1, FundedSettle
<1>2. CASE ~SettleCommits(r)
  <2>1. UNCHANGED balance /\ rows' \in {rows, [rows EXCEPT ![r] = NoRow]}
    BY <1>2 DEF Transaction, SettleFindsDecided
  <2>2. \A q \in Requests : Encumbers(rows[q])' => Encumbers(rows[q])
    BY <1>0, <2>1 DEF TypeOK
  <2>3. \A u \in Users : balance[u] <= balance'[u]
    BY <1>0, <2>1 DEF TypeOK
  <2> QED BY <1>0, <2>2, <2>3, FundedQuiet
<1> QED BY <1>1, <1>2

\* Every step keeps it while no credit is taken back.
LEMMA FundedStep ==
    ASSUME IsFiniteSet(Requests), RequireCredits, IInv, IInv', OnTime,
           EncumbranceFunded, [PromptNext]_vars
    PROVE  EncumbranceFunded'
<1>0. /\ TypeOK /\ TypeOK'
      /\ \A q \in Requests : InTime(q) /\ rows[q] \in Row
  BY DEF IInv, OnTime, TypeOK
<1>1. ASSUME UNCHANGED <<reserved, balance>>,
             \A q \in Requests : Encumbers(rows'[q]) => Encumbers(rows[q])
      PROVE  EncumbranceFunded'
  BY <1>0, <1>1, FundedQuiet DEF TypeOK
<1>2. ASSUME NEW r \in Requests, r \in batch \/ r \in collecting
      PROVE  Settleable(r)
  BY <1>0, <1>2 DEF InTime, Settleable, Released, Encumbers, TypeOK
<1>3. ASSUME NEW r \in Requests, RequestNext(r) PROVE EncumbranceFunded'
  <2>1. CASE Admit(r)
    BY <2>1, FundedAdmit
  <2>2. CASE Refuse(r) \/ Dispatch(r) \/ MarkerLost(r) \/ Complete(r)
              \/ Abandon(r)
    BY <1>1, <2>2 DEF Refuse, Dispatch, MarkerLost, Complete, Abandon
  <2>3. CASE Expire(r) \/ MarkerLands(r)
    <3>1. \A q \in Requests :
            /\ rows'[q].present = rows[q].present
            /\ rows'[q].released = rows[q].released
            /\ rows'[q].intent = rows[q].intent
            /\ rows[q].expired => rows'[q].expired
      BY <1>0, <2>3 DEF Expire, MarkerLands, TypeOK
    <3>2. \A q \in Requests : rows'[q] \in Row
      BY <1>0 DEF TypeOK
    <3>3. \A q \in Requests : Encumbers(rows'[q]) => Encumbers(rows[q])
      BY <1>0, <3>1, <3>2 DEF Encumbers
    <3> QED BY <1>1, <2>3, <3>3 DEF Expire, MarkerLands
  <2>4. CASE PersistIntent(r) \/ PersistFails(r)
    <3>1. /\ pc[r] \in Running
          /\ IntentStored(r) \/ UNCHANGED rows
          /\ UNCHANGED <<reserved, balance>>
      BY <2>4 DEF PersistIntent, PersistFails, Running
    <3>2. rows[r].present => ~rows[r].expired
      BY <1>0, <3>1 DEF InTime
    <3>3. \A q \in Requests :
            /\ rows'[q].present = rows[q].present
            /\ rows'[q].released = rows[q].released
            /\ rows'[q].expired = rows[q].expired
            /\ q # r => rows'[q].intent = rows[q].intent
      BY <1>0, <3>1 DEF IntentStored, TypeOK
    <3>4. \A q \in Requests : Encumbers(rows'[q]) => Encumbers(rows[q])
      BY <3>2, <3>3 DEF Encumbers
    <3> QED BY <1>1, <3>1, <3>4
  <2>5. CASE SettleReturns(r) \/ SettleFails(r)
    <3>1. /\ pc[r] \in Running /\ Transaction(r) /\ UNCHANGED reserved
      BY <2>5 DEF SettleReturns, SettleFails, SettleRefused, Transaction,
                  Running
    <3>2. Settleable(r)
      BY <1>0, <3>1 DEF InTime, Settleable, Released, Encumbers
    <3> QED BY <3>1, <3>2, FundedTransaction
  <2>6. CASE StampFailure(r)
    <3>1. \A q \in Requests : rows'[q] \in {rows[q], Stamped(rows[q])}
      BY <1>0, <2>6 DEF StampFailure, TypeOK
    <3>2. \A q \in Requests : Encumbers(rows'[q]) => Encumbers(rows[q])
      BY <1>0, <3>1, StampedSameRow DEF Encumbers
    <3> QED BY <1>1, <2>6, <3>2 DEF StampFailure
  <2> QED BY <1>3, <2>1, <2>2, <2>3, <2>4, <2>5, <2>6 DEF RequestNext
<1>4. ASSUME NEW r \in Requests,
             RecoveryReplays(r) \/ RecoveryStamps(r) \/ RecoveryStampLost(r)
      PROVE  EncumbranceFunded'
  <2>1. CASE RecoveryReplays(r)
    <3>1. r \in batch /\ Transaction(r) /\ UNCHANGED reserved
      BY <2>1 DEF RecoveryReplays, SettleRefused, Transaction
    <3> QED BY <1>2, <3>1, FundedTransaction
  <2>2. CASE RecoveryStamps(r) \/ RecoveryStampLost(r)
    <3>1. \A q \in Requests : rows'[q] \in {rows[q], Stamped(rows[q])}
      BY <1>0, <2>2 DEF RecoveryStamps, RecoveryStampLost, TypeOK
    <3>2. \A q \in Requests : Encumbers(rows'[q]) => Encumbers(rows[q])
      BY <1>0, <3>1, StampedSameRow DEF Encumbers
    <3> QED BY <1>1, <2>2, <3>2 DEF RecoveryStamps, RecoveryStampLost
  <2> QED BY <1>4, <2>1, <2>2
<1>5. CASE RecoverySelects \/ RecoveryStops
  BY <1>1, <1>5 DEF RecoverySelects, RecoveryStops
<1>6. CASE OperatorNext
  <2>1. ASSUME NEW r \in Requests, CollectReplays(r) PROVE EncumbranceFunded'
    <3>1. r \in collecting /\ Transaction(r) /\ UNCHANGED reserved
      BY <2>1 DEF CollectReplays, Transaction
    <3> QED BY <1>2, <3>1, FundedTransaction
  <2>2. ASSUME NEW r \in Requests, CollectReads(r) PROVE EncumbranceFunded'
    BY <1>1, <2>2 DEF CollectReads
  <2>3. ASSUME NEW r \in Requests, NEW forgive \in BOOLEAN,
               Release(r, forgive)
        PROVE  EncumbranceFunded'
    <3>1. \A q \in Requests : q = r \/ rows'[q] = rows[q]
      BY <1>0, <2>3 DEF Release, TypeOK
    <3>2. rows'[r].released # "no"
      BY <1>0, <2>3 DEF Release, TypeOK
    <3>3. \A q \in Requests : Encumbers(rows'[q]) => Encumbers(rows[q])
      BY <3>1, <3>2 DEF Encumbers
    <3> QED BY <1>1, <2>3, <3>3 DEF Release
  <2> QED BY <1>6, <2>1, <2>2, <2>3 DEF OperatorNext
<1>7. ASSUME NEW u \in Users, Purchase(u) PROVE EncumbranceFunded'
  <2>1. \A w \in Users : balance[w] <= balance'[w]
    BY <1>0, <1>7 DEF Purchase, TypeOK
  <2> QED BY <1>0, <1>7, <2>1, FundedQuiet DEF Purchase
<1>8. CASE UNCHANGED vars
  BY <1>1, <1>8 DEF vars
<1> QED BY <1>3, <1>4, <1>5, <1>6, <1>7, <1>8 DEF PromptNext

\* Every step where no credit is taken back is a step of the whole.
LEMMA PromptIsNext == [PromptNext]_vars => [Next]_vars
  BY DEF PromptNext, Next, RecoveryNext

LEMMA InitFunded ==
    ASSUME IsFiniteSet(Requests), Init
    PROVE  EncumbranceFunded
<1> SUFFICES ASSUME NEW u \in Users PROVE Encumbered(u) <= balance[u]
  BY DEF EncumbranceFunded
<1>1. Encumbering(u) = {}
  BY DEF Init, Encumbering, Encumbers, NoRow
<1>2. Encumbered(u) = 0
  BY <1>1, SumEmpty DEF Encumbered
<1>3. balance[u] \in Nat
  BY BoundsAssumption DEF Init
<1> QED BY <1>2, <1>3

\* The live and owed reservations of a user never add up to more than the
\* balance, however many requests are admitted, settled, retried and swept at
\* once, while no request outlives its TTL and no credit is taken back.
THEOREM PromiseIsFunded ==
    ASSUME IsFiniteSet(Requests), RequireCredits, ~LateRequests
    PROVE  PromptSpec => []EncumbranceFunded
<1>1. PromptSpec => Spec
  BY PromptIsNext, PTL DEF PromptSpec, Spec
<1>2. Init => EncumbranceFunded
  BY InitFunded
<1>3. IInv /\ IInv' /\ OnTime /\ EncumbranceFunded /\ [PromptNext]_vars
        => EncumbranceFunded'
  BY FundedStep
<1> QED BY <1>1, <1>2, <1>3, Invariant, OnTimeAlways, PTL DEF PromptSpec

\* A debit of a reservation that still stands is never refused.
StandingNeverOverdraws ==
    \A r \in Requests : Encumbers(rows[r]) => ~Overdraws(r)

\* So the trigger of migration 0009, which refuses a debit below zero, never
\* refuses the settlement of a reservation that still stands.
THEOREM StandingSettlementsPass ==
    ASSUME IsFiniteSet(Requests), RequireCredits, ~LateRequests
    PROVE  PromptSpec => []StandingNeverOverdraws
<1>1. IInv /\ EncumbranceFunded => StandingNeverOverdraws
  <2> SUFFICES ASSUME IInv, EncumbranceFunded, NEW r \in Requests,
                      Encumbers(rows[r])
               PROVE  ~Overdraws(r)
    BY DEF StandingNeverOverdraws
  <2> DEFINE S == Encumbering(Owner[r])
  <2>0. TypeOK /\ Owner[r] \in Users
    BY OwnerAssumption DEF IInv
  <2>1. r \in S /\ Encumbered(Owner[r]) = SumFunctionOnSet(reserved, S)
    BY DEF Encumbering, Encumbered
  <2>2. IsFiniteSet(S) /\ (\A q \in S : reserved[q] \in Nat)
    BY <2>0, EncumberedType
  <2> DEFINE T == S \ {r}
  <2>3. SumFunctionOnSet(reserved, T) \in Nat
    <3>1. IsFiniteSet(T) /\ \A q \in T : reserved[q] \in Nat
      BY <2>2, FS_Subset
    <3> HIDE DEF T
    <3> QED BY <3>1, SumType
  <2> HIDE DEF S
  <2>4. SumFunctionOnSet(reserved, S)
          = reserved[r] + SumFunctionOnSet(reserved, T)
    <3>1. \A q \in S : reserved[q] \in Int
      BY <2>2
    <3> QED BY <2>1, <2>2, <3>1, SumSplit
  <2>5. Debit(r) <= reserved[r] /\ Debit(r) \in Nat /\ reserved[r] \in Nat
    <3>1. cost[r] \in Nat /\ reserved[r] \in Nat
      BY <2>0, BoundsAssumption DEF TypeOK
    <3> QED BY <3>1 DEF Debit, Lesser
  <2>6. Encumbered(Owner[r]) <= balance[Owner[r]] /\ balance[Owner[r]] \in Int
    BY <2>0 DEF EncumbranceFunded, TypeOK
  <2> HIDE DEF T
  <2> QED BY <2>1, <2>3, <2>4, <2>5, <2>6 DEF Overdraws
<1>2. PromptSpec => Spec
  BY PromptIsNext, PTL DEF PromptSpec, Spec
<1> QED BY <1>1, <1>2, Invariant, PromiseIsFunded, PTL
=============================================================================
