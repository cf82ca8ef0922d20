-------------------------- MODULE StreamWalkProofs --------------------------
(***************************************************************************)
(* Proofs about StreamWalk for every catalog, route and set of live keys,  *)
(* and any number of other requests' observations: what a stream records   *)
(* and charges, that it answers once, that the walk stays within its route,*)
(* settles, and keeps what it promises its reservation; about Inventory    *)
(* and Selection, that a route is what was declared and read; and about    *)
(* ChatStream and MessagesStream, for every report and counter, that what  *)
(* an upstream says of its cost outlives the end of its stream.            *)
(***************************************************************************)
EXTENDS Streams, RouteProofs

\* Output is handed over on a stream only, so a walk that moves on, or calls a
\* rung that cannot stream, has sent nothing; the ledger is written last.
IInv ==
    /\ sent \in BOOLEAN /\ attempted \in BOOLEAN /\ reported \in BOOLEAN
    /\ billed \in BOOLEAN
    /\ pc \in {"ordering", "arriving", "streaming", "calling", "done"}
    /\ pc # "done" => session = "open" /\ served = {} /\ ~billed
    /\ pc \in {"ordering", "arriving", "calling"} => ~sent
    /\ pc = "calling" => Here.key \notin LiveKeys
    /\ DeliveryRecorded
    /\ ChargedForDelivery

\* A walk starts with nothing sent, nothing served and an open session.
LEMMA InitIInv == Init => IInv
  BY DEF Init, IInv, DeliveryRecorded, ChargedForDelivery

\* The terminals of a live stream record a served attempt exactly when output
\* was accepted, and bill it only when it was metered.
LEMMA StreamTerminal ==
    ASSUME IInv, pc = "streaming",
           NEW charge \in BOOLEAN, Settle(sent, charge), DeliveryKept,
           charge => reported /\ (sent \/ ~attempted)
    PROVE  IInv'
<1>1. /\ pc' = "done" /\ session' = "settled"
      /\ served' = (IF sent THEN {at} ELSE {})
      /\ billed' = charge /\ UNCHANGED <<at, route>>
  BY DEF Settle, IInv, routeVars
<1>2. UNCHANGED <<sent, attempted, reported>>
  BY DEF DeliveryKept
<1>3. DeliveryRecorded' /\ ChargedForDelivery'
  BY <1>1, <1>2 DEF IInv, DeliveryRecorded, ChargedForDelivery
<1> QED BY <1>1, <1>2, <1>3 DEF IInv

\* Elsewhere nothing was sent, so no served attempt is owed.
LEMMA OtherTerminal ==
    ASSUME IInv, pc \in {"arriving", "calling"},
           NEW delivered \in BOOLEAN, NEW charge \in BOOLEAN,
           Settle(delivered, charge), DeliveryKept,
           charge => pc = "calling"
    PROVE  IInv'
<1>1. /\ pc' = "done" /\ session' = "settled"
      /\ billed' = charge /\ UNCHANGED <<at, route>>
  BY DEF Settle, routeVars
<1>2. UNCHANGED <<sent, attempted, reported>> /\ ~sent
  BY DEF DeliveryKept, IInv
<1>3. ChargedForDelivery'
  BY <1>1 DEF IInv, ChargedForDelivery, Here
<1> QED BY <1>1, <1>2, <1>3 DEF IInv, DeliveryRecorded

\* Going on to the next rung is only for a walk that has sent nothing.
LEMMA MovesOn ==
    ASSUME IInv, pc # "done", ~sent, NextRung, DeliveryKept,
           UNCHANGED <<session, served, billed>>
    PROVE  IInv'
  BY DEF IInv, NextRung, DeliveryKept, DeliveryRecorded, ChargedForDelivery

\* Every step of the walk and of its surroundings keeps the invariant.
LEMMA NextIInv == IInv /\ [Next]_vars => IInv'
<1> SUFFICES ASSUME IInv, [Next]_vars PROVE IInv'
  OBVIOUS
<1>1. CASE Order
  BY <1>1 DEF Order, DeliveryKept, IInv, DeliveryRecorded, ChargedForDelivery
<1>2. CASE Skip
  BY <1>2, MovesOn DEF Skip, Arriving, IInv
<1>3. CASE EndsBeforeDispatch \/ DrainedBeforeCall
  BY <1>3, OtherTerminal DEF EndsBeforeDispatch, DrainedBeforeCall, Arriving
<1>4. CASE Dispatch
  BY <1>4 DEF Dispatch, Arriving, Here, routeVars, IInv, DeliveryRecorded,
              ChargedForDelivery
<1>5. CASE Delta
  BY <1>5 DEF Delta, Polled, routeVars, IInv, DeliveryRecorded,
              ChargedForDelivery
<1>6. CASE Usage
  BY <1>6 DEF Usage, Polled, routeVars, IInv, DeliveryRecorded,
              ChargedForDelivery
<1>7. ASSUME NEW outcome \in {"timeout", "aborted"}, Interrupt(outcome)
      PROVE  IInv'
  BY <1>7, StreamTerminal DEF Interrupt, SettledUsage, IInv
<1>8. CASE Finish
  BY <1>8, StreamTerminal DEF Finish, Polled, IInv
<1>9. ASSUME NEW class \in Failing, Break(class) PROVE IInv'
  <2>1. pc = "streaming" /\ DeliveryKept
    BY <1>9 DEF Break, Polled
  <2>2. CASE OverForTheClient /\ Settle(sent, SettledUsage)
    BY <2>1, <2>2, StreamTerminal DEF SettledUsage, IInv
  <2>3. CASE /\ ~OverForTheClient /\ NextRung
             /\ UNCHANGED <<session, served, billed>>
    BY <2>1, <2>3, MovesOn DEF OverForTheClient
  <2> QED BY <1>9, <2>2, <2>3 DEF Break
<1>10. CASE Complete
  BY <1>10, OtherTerminal DEF Complete
<1>11. ASSUME NEW outcome \in {"timeout", "aborted"}, CallCutShort(outcome)
       PROVE  IInv'
  BY <1>11, OtherTerminal DEF CallCutShort
<1>12. ASSUME NEW class \in Failing, CallFails(class) PROVE IInv'
  BY <1>12, MovesOn DEF CallFails, IInv
<1>13. CASE Exhaust
  BY <1>13 DEF Exhaust, routeVars, DeliveryKept, IInv, DeliveryRecorded,
               ChargedForDelivery
<1>14. CASE Surroundings
  BY <1>14 DEF Surroundings, routeVars, DeliveryKept, Here, IInv,
               DeliveryRecorded, ChargedForDelivery
<1>15. CASE UNCHANGED vars
  BY <1>15 DEF vars, routeVars, streamVars, Here, IInv, DeliveryRecorded,
               ChargedForDelivery
<1> QED BY <1>1, <1>2, <1>3, <1>4, <1>5, <1>6, <1>7, <1>8, <1>9, <1>10, <1>11,
           <1>12, <1>13, <1>14, <1>15 DEF Next, WalkNext, StreamEnds

-----------------------------------------------------------------------------
(* The theorems.                                                           *)

\* The strengthened invariant holds in every reachable state.
THEOREM Invariant == Spec => []IInv
  BY InitIInv, NextIInv, PTL DEF Spec

\* A live stream is charged only with usage its upstream metered, never for output
\* the channel was offered and refused; and whatever way it ends after output
\* reached the client, the ledger holds exactly one served attempt.
THEOREM DeliveryIsAccounted == Spec => []DeliveryAccounted
<1>1. IInv => DeliveryAccounted
  BY DEF IInv, DeliveryAccounted
<1> QED BY Invariant, <1>1, PTL

\* Once output of one rung was handed to the client no other rung is asked.
THEOREM OneAnswer == Spec => NeverTwoAnswers
<1>1. IInv /\ [Next]_vars => [sent => calls' = calls]_vars
  <2> SUFFICES ASSUME IInv, Next, sent PROVE calls' = calls
    OBVIOUS
  <2>1. ~Dispatch
    BY DEF Dispatch, Arriving, IInv
  <2> QED BY <2>1 DEF Next, WalkNext, StreamEnds, Order, Skip,
        EndsBeforeDispatch, DrainedBeforeCall, Interrupt, Finish, Break,
        Complete, CallCutShort, CallFails, Exhaust, Delta, Usage,
        Surroundings, Settle
<1> QED BY Invariant, <1>1, PTL DEF Spec, NeverTwoAnswers

-----------------------------------------------------------------------------
(* Where a walk can be.                                                    *)

\* The walk is over what was built; while it is ordered, over what was looked at.
Fitted ==
    /\ Positions = 1..Len(Built)
    /\ pc = "ordering" => Ranking
    /\ pc # "ordering" => route \in Seq(Rungs) /\ Len(route) = Len(Built)

\* No rung ahead of the walk was dispatched to; the one that is streaming or
\* being called was.
Reaching ==
    /\ pc = "ordering" => \A i \in Positions : calls[i] = 0
    /\ pc = "arriving" => \A i \in Positions : i >= at => calls[i] = 0
    /\ pc \in {"streaming", "calling"} =>
         /\ at \in Positions /\ calls[at] = 1
         /\ \A i \in Positions : i > at => calls[i] = 0

Typed == TypeOK /\ Fitted /\ Reaching

\* There is a position per rung built.
LEMMA Measured ==
    ASSUME TypeOK, Positions = 1..Len(Built)
    PROVE  Len(Built) \in Nat /\ Len(calls) = Len(Built)
<1>1. Len(Built) \in Nat
  BY BuiltTyped
<1>2. calls \in [1..Len(Built) -> 0..1]
  BY DEF TypeOK
<1>3. calls \in Seq(0..1)
  BY <1>1, <1>2
<1>4. DOMAIN calls = 1..Len(calls) /\ Len(calls) \in Nat
  BY <1>3
<1> QED BY <1>1, <1>4 DEF Positions

LEMMA InitTyped == Init => Typed
<1> SUFFICES ASSUME Init PROVE Typed
  OBVIOUS
<1>1. Len(Built) \in Nat
  BY BuiltTyped
<1>2. Ranking
  BY RankingStarts DEF Init
<1>3. Positions = 1..Len(Built) /\ calls \in [Positions -> 0..1]
      /\ \A i \in Positions : calls[i] = 0
  BY DEF Init, Positions
<1>4. calls \in Seq(0..1)
  BY <1>1, <1>3
<1>5. Len(calls) \in Nat
  BY <1>4
<1>6. at \in 1..Len(calls) + 1
  BY <1>5 DEF Init, RouteInit
<1>7. HealthTypeOK
  BY HealthStarts DEF Init, RouteInit
<1>8. TypeOK
  BY <1>3, <1>6, <1>7 DEF Init, RouteInit, TypeOK
<1> QED BY <1>2, <1>3, <1>8 DEF Typed, Fitted, Reaching, Init

\* No step changes the customer's keys, nor how many rungs there are.
LEMMA KeysStay ==
    ASSUME Typed, [Next]_vars
    PROVE  /\ UNCHANGED attached /\ Built' = Built /\ Rungs' = Rungs
           /\ DOMAIN calls' = DOMAIN calls
<1>1. UNCHANGED attached
  BY DEF Next, WalkNext, StreamEnds, Order, RankOne, StartWalk, Skip, NextRung,
         EndsBeforeDispatch, Settle, Dispatch, DrainedBeforeCall, Delta, Usage,
         Interrupt, Finish, Break, Complete, CallCutShort, CallFails, Exhaust,
         Surroundings, vars, routeVars
<1>2. DOMAIN calls' = DOMAIN calls
  <2>1. calls' = calls \/ calls' = [calls EXCEPT ![at] = 1]
    BY DEF Next, WalkNext, StreamEnds, Order, Skip, EndsBeforeDispatch, Settle,
           Dispatch, DrainedBeforeCall, Delta, Usage, Interrupt, Finish, Break,
           Complete, CallCutShort, CallFails, Exhaust, Surroundings, vars,
           streamVars
  <2> QED BY <2>1 DEF Typed, TypeOK
<1> QED BY <1>1, <1>2, BuiltStays

\* The rung a walk under way is at is one that was built.
LEMMA HereTyped ==
    ASSUME Typed, pc \notin {"ordering", "done"}, at <= Len(route)
    PROVE  /\ at \in Positions /\ at \in 1..Len(route)
           /\ Here \in Rungs /\ Here.key \in Keys
<1>1. Len(Built) \in Nat /\ Len(calls) = Len(Built) /\ Len(route) = Len(Built)
      /\ Positions = 1..Len(Built) /\ route \in Seq(Rungs)
  BY Measured DEF Typed, Fitted
<1>2. at \in 1..Len(calls) + 1
  BY DEF Typed, TypeOK
<1>3. at \in 1..Len(route)
  BY <1>1, <1>2
<1>4. Here \in Rungs
  BY <1>1, <1>3 DEF Here
<1> QED BY <1>1, <1>3, <1>4 DEF Rungs

\* So is the rung that streams or is being called.
LEMMA CallTyped ==
    ASSUME Typed, pc \in {"streaming", "calling"}
    PROVE  at <= Len(route) /\ at \in Positions /\ Here \in Rungs
           /\ Here.key \in Keys /\ Dispatched
<1>1. Len(Built) \in Nat /\ Len(route) = Len(Built) /\ Positions = 1..Len(Built)
  BY Measured DEF Typed, Fitted
<1>2. at \in Positions /\ calls[at] = 1
  BY DEF Typed, Reaching
<1>3. at <= Len(route)
  BY <1>1, <1>2
<1>4. Dispatched
  BY <1>2 DEF Dispatched
<1> QED BY <1>3, <1>4, HereTyped

\* What a dispatch came to is folded into a well-formed registry.
LEMMA ObservedTyped ==
    ASSUME Typed, pc \in {"streaming", "calling"}, NEW outcome,
           Observe(Here.key, outcome), UNCHANGED others
    PROVE  HealthTypeOK'
<1>1. PICK k \in Keys : k = Here.key
  BY CallTyped
<1>2. Observe(k, outcome)
  BY <1>1 DEF Observe
<1>3. errorEwma' \in [Keys -> 0..1000] /\ cooling' \subseteq Keys
  BY <1>2, ObserveTyped DEF Typed, TypeOK
<1> QED BY <1>3 DEF Typed, TypeOK, HealthTypeOK

\* The parts of the type that a walk's moves share.
Flags ==
    {draining, listening, connected, opened, produced, attempted, sent,
     reported, billed} \subseteq BOOLEAN

\* A step that dispatches to nobody.
LEMMA QuietTyped ==
    ASSUME Typed, [Next]_vars, pc \notin {"ordering", "done"},
           UNCHANGED <<route, calls>>,
           HealthTypeOK', Flags',
           failed' \subseteq Positions, armed' \subseteq attached,
           served' \subseteq Positions,
           session' \in {"open", "settled", "dropped"},
           \/ pc' = "arriving" /\ at' = at + 1 /\ at <= Len(route)
           \/ pc' = "done" /\ at' = at
           \/ pc' = pc /\ at' = at
    PROVE  Typed'
<1>1. Len(Built) \in Nat /\ Len(calls) = Len(Built) /\ Len(route) = Len(Built)
      /\ Positions = 1..Len(Built)
  BY Measured DEF Typed, Fitted
<1>2. /\ UNCHANGED attached /\ Built' = Built /\ Rungs' = Rungs
      /\ DOMAIN calls' = DOMAIN calls
  BY KeysStay
<1>3. pc' # "ordering"
  OBVIOUS
<1>4. Fitted'
  BY <1>2, <1>3 DEF Typed, Fitted, Positions
<1>5. at \in 1..Len(calls) + 1
  BY DEF Typed, TypeOK
<1>6. at' \in 1..Len(calls) + 1
  BY <1>1, <1>5
<1>7. TypeOK'
  BY <1>2, <1>6 DEF Typed, TypeOK, Positions, Flags
<1>8. Reaching'
  <2>1. CASE pc' = "arriving" /\ at' = at + 1 /\ at <= Len(route)
    BY <1>1, <1>5, <2>1 DEF Typed, Reaching, Positions, TypeOK
  <2>2. CASE pc' = "done"
    BY <2>2 DEF Reaching
  <2>3. CASE pc' = pc /\ at' = at
    BY <2>3 DEF Typed, Reaching, Positions
  <2> QED BY <2>1, <2>2, <2>3
<1> QED BY <1>4, <1>7, <1>8 DEF Typed


LEMMA OrderTyped == ASSUME Typed, Order PROVE Typed'
<1>1. /\ pc = "ordering" /\ Ranking /\ DeliveryKept
      /\ UNCHANGED <<healthVars, calls, failed, armed, draining, listening,
                     connected, session, served, billed>>
  BY DEF Order, Typed, Fitted
<1>2. Len(Built) \in Nat /\ Len(calls) = Len(Built) /\ Positions = 1..Len(Built)
  BY Measured DEF Typed, Fitted
<1>3. \A i \in Positions : calls[i] = 0
  BY <1>1 DEF Typed, Reaching
<1>4. attached' = attached /\ Built' = Built /\ Rungs' = Rungs
  BY BuiltStays DEF Order, RankOne, StartWalk
<1>5. /\ HealthTypeOK' /\ Flags'
      /\ calls' \in [Positions' -> 0..1]
  BY <1>1 DEF Typed, TypeOK, HealthTypeOK, healthVars, Flags, DeliveryKept,
              Positions
<1>6. CASE RankOne /\ UNCHANGED pc
  <2>1. Ranking'
    BY <1>1, <1>6, RankOneRanks
  <2>2. Fitted'
    BY <1>1, <1>4, <1>6, <2>1 DEF Typed, Fitted, Positions
  <2>3. at' \in 1..Len(calls) + 1
    BY <1>2, <1>4, <2>1 DEF Ranking
  <2>4. TypeOK'
    BY <1>1, <1>4, <1>5, <1>6, <2>3 DEF Typed, TypeOK, Positions, Flags
  <2>5. Reaching'
    BY <1>1, <1>3, <1>6 DEF Reaching, Positions
  <2> QED BY <2>2, <2>4, <2>5 DEF Typed
<1>7. CASE StartWalk /\ pc' = "arriving"
  <2>1. /\ route' \in Seq(Rungs) /\ Len(route') = Len(Built) /\ at' = 1
    BY <1>1, <1>7, WalkStarts
  <2>2. Fitted'
    BY <1>1, <1>4, <1>7, <2>1 DEF Typed, Fitted, Positions
  <2>3. at' \in 1..Len(calls) + 1
    BY <1>2, <2>1
  <2>4. TypeOK'
    BY <1>1, <1>4, <1>5, <1>7, <2>3 DEF Typed, TypeOK, Positions, Flags
  <2>5. Reaching'
    BY <1>1, <1>3, <1>7 DEF Reaching, Positions
  <2> QED BY <2>2, <2>4, <2>5 DEF Typed
<1> QED BY <1>6, <1>7 DEF Order

LEMMA DispatchTyped == ASSUME Typed, Dispatch PROVE Typed'
<1>1. /\ pc = "arriving" /\ pc' \in {"streaming", "calling"}
      /\ calls' = [calls EXCEPT ![at] = 1]
      /\ UNCHANGED <<healthVars, routeVars, failed, armed, draining, listening,
                     connected, produced, attempted, sent, session, served,
                     billed>>
      /\ opened' = FALSE /\ reported' = FALSE
  BY DEF Dispatch, Arriving
<1>2. at \in Positions
  BY <1>1, HereTyped DEF Dispatch, Arriving
<1>3. calls \in [Positions -> 0..1] /\ Positions \subseteq Int
  BY DEF Typed, TypeOK, Fitted
<1>4. calls' \in [Positions -> 0..1] /\ Positions' = Positions
  BY <1>1, <1>2, <1>3 DEF Positions
<1>5. attached' = attached /\ Built' = Built /\ Rungs' = Rungs
  BY <1>1, BuiltStays DEF routeVars
<1>6. Fitted'
  BY <1>1, <1>4, <1>5 DEF Typed, Fitted, routeVars
<1>7. Len(calls') = Len(calls)
  <2>1. calls \in Seq(0..1) /\ calls' \in Seq(0..1)
    <3>1. Len(Built) \in Nat /\ Positions = 1..Len(Built)
      BY Measured DEF Typed, Fitted
    <3> QED BY <1>3, <1>4, <3>1
  <2>2. Positions = 1..Len(calls) /\ Positions = 1..Len(calls')
    BY <1>4, <2>1 DEF Positions
  <2>3. Len(calls) \in Nat /\ Len(calls') \in Nat
    BY <2>1
  <2> QED BY <2>2, <2>3
<1>8. HealthTypeOK' /\ Flags'
  BY <1>1 DEF Typed, TypeOK, HealthTypeOK, healthVars, Flags
<1>9. TypeOK'
  BY <1>1, <1>4, <1>7, <1>8 DEF Typed, TypeOK, routeVars, Flags
<1>10. Reaching'
  <2>1. \A i \in Positions : i > at => calls[i] = 0
    BY <1>1, <1>2, <1>3 DEF Typed, Reaching
  <2> QED BY <1>1, <1>2, <1>3, <1>4, <2>1 DEF Reaching, routeVars
<1> QED BY <1>6, <1>9, <1>10 DEF Typed

\* A terminal that settles, at a rung or before one is dispatched to.
LEMMA SettleTyped ==
    ASSUME Typed, [Next]_vars, pc \in {"arriving", "streaming", "calling"},
           at <= Len(route), HealthTypeOK', connected' \in BOOLEAN, DeliveryKept,
           NEW delivered \in BOOLEAN, NEW charge \in BOOLEAN,
           Settle(delivered, charge)
    PROVE  Typed'
<1>1. at \in Positions
  BY HereTyped
<1>2. Flags'
  BY DEF Settle, DeliveryKept, Typed, TypeOK, Flags
<1>3. served' \subseteq Positions
  BY <1>1 DEF Settle, Typed, TypeOK
<1>4. /\ UNCHANGED <<route, calls, at>> /\ pc' = "done" /\ session' = "settled"
      /\ failed' \subseteq Positions /\ armed' \subseteq attached
  BY DEF Settle, routeVars, Typed, TypeOK
<1> QED BY <1>2, <1>3, <1>4, QuietTyped

\* Going on after a failure.
LEMMA FailureTyped ==
    ASSUME Typed, [Next]_vars, pc \in {"streaming", "calling"}, HealthTypeOK',
           connected' \in BOOLEAN, DeliveryKept, NEW class, Arm(class), NextRung,
           UNCHANGED <<calls, draining, listening, session, served, billed>>
    PROVE  Typed'
<1>1. at <= Len(route) /\ at \in Positions /\ Here \in Rungs
  BY CallTyped
<1>2. failed' \subseteq Positions
  BY <1>1 DEF Arm, Typed, TypeOK
<1>3. armed' \subseteq attached
  BY <1>1 DEF Arm, Rungs, Typed, TypeOK
<1>4. Flags'
  BY DEF DeliveryKept, Typed, TypeOK, Flags
<1>5. /\ UNCHANGED <<route, calls>> /\ pc' = "arriving" /\ at' = at + 1
      /\ served' \subseteq Positions /\ session' \in {"open", "settled", "dropped"}
  BY DEF NextRung, Typed, TypeOK
<1> QED BY <1>1, <1>2, <1>3, <1>4, <1>5, QuietTyped

LEMMA NextTyped == Typed /\ [Next]_vars => Typed'
<1> SUFFICES ASSUME Typed, [Next]_vars PROVE Typed'
  OBVIOUS
<1>0. /\ UNCHANGED healthVars => HealthTypeOK'
      /\ Flags
      /\ failed \subseteq Positions /\ armed \subseteq attached
      /\ served \subseteq Positions /\ session \in {"open", "settled", "dropped"}
  <2>1. UNCHANGED healthVars => HealthTypeOK'
    <3>1. HealthTypeOK
      BY DEF Typed, TypeOK
    <3> QED BY <3>1 DEF HealthTypeOK, healthVars
  <2>2. Flags
    BY DEF Typed, TypeOK, Flags
  <2> QED BY <2>1, <2>2 DEF Typed, TypeOK
<1>a. SettledUsage \in BOOLEAN /\ sent \in BOOLEAN /\ reported \in BOOLEAN
      /\ attempted \in BOOLEAN /\ connected \in BOOLEAN /\ listening \in BOOLEAN
  BY <1>0 DEF SettledUsage, Flags
<1>1. CASE Order
  BY <1>1, OrderTyped
<1>2. CASE Skip
  <2>1. /\ pc = "arriving" /\ at <= Len(route) /\ pc' = "arriving" /\ at' = at + 1
        /\ UNCHANGED <<route, calls, failed, armed, session, served, healthVars>>
    BY <1>2 DEF Skip, Arriving, NextRung
  <2>2. Flags'
    BY <1>0, <1>2 DEF Skip, DeliveryKept, Flags
  <2> QED BY <1>0, <2>1, <2>2, QuietTyped
<1>3. CASE EndsBeforeDispatch \/ DrainedBeforeCall
  <2>1. /\ pc = "arriving" /\ at <= Len(route) /\ Settle(FALSE, FALSE)
        /\ UNCHANGED <<healthVars, connected>> /\ DeliveryKept
    BY <1>3 DEF EndsBeforeDispatch, DrainedBeforeCall, Arriving
  <2> QED BY <1>0, <1>a, <2>1, SettleTyped
<1>4. CASE Dispatch
  BY <1>4, DispatchTyped
<1>5. CASE Delta \/ Usage
  <2>1. /\ pc = "streaming"
        /\ UNCHANGED <<healthVars, routeVars, pc, calls, failed, armed, draining,
                       listening, session, served, billed>>
    BY <1>5 DEF Delta, Usage, Polled
  <2>2. /\ connected' \in BOOLEAN /\ opened' \in {opened, TRUE}
        /\ produced' \in {produced, TRUE} /\ attempted' \in {attempted, TRUE}
        /\ sent' \in {sent, TRUE} /\ reported' \in BOOLEAN
    BY <1>5, <1>a DEF Delta, Usage
  <2>3. Flags'
    BY <1>0, <2>1, <2>2 DEF Flags
  <2> QED BY <1>0, <2>1, <2>3, QuietTyped DEF routeVars
<1>6. ASSUME NEW outcome \in {"timeout", "aborted"}, Interrupt(outcome)
      PROVE  Typed'
  <2>1. pc = "streaming" /\ at <= Len(route) /\ HealthTypeOK'
    BY <1>6, ObservedTyped, CallTyped DEF Interrupt
  <2> QED BY <1>6, <1>a, <2>1, SettleTyped DEF Interrupt
<1>7. CASE Finish
  <2>1. pc = "streaming" /\ at <= Len(route) /\ HealthTypeOK'
    BY <1>7, ObservedTyped, CallTyped DEF Finish, Polled
  <2>2. (reported /\ ~(attempted /\ ~sent)) \in BOOLEAN
    OBVIOUS
  <2> QED BY <1>7, <1>a, <2>1, <2>2, SettleTyped DEF Finish
<1>8. ASSUME NEW class \in Failing, Break(class) PROVE Typed'
  <2>1. /\ pc = "streaming" /\ connected' = (connected /\ listening)
        /\ DeliveryKept /\ UNCHANGED others
        /\ Observe(Here.key, IF Limited(class) /\ ~sent
                             THEN "rate_limited" ELSE "stream_error")
    BY <1>8 DEF Break, Polled
  <2>2. HealthTypeOK' /\ at <= Len(route) /\ connected' \in BOOLEAN
    BY <2>1, ObservedTyped, CallTyped
  <2>3. CASE Settle(sent, SettledUsage)
    BY <1>a, <2>1, <2>2, <2>3, SettleTyped
  <2>4. CASE /\ Arm(class) /\ NextRung
             /\ UNCHANGED <<calls, draining, listening, session, served, billed>>
    BY <2>1, <2>2, <2>4, FailureTyped
  <2> QED BY <1>8, <2>3, <2>4 DEF Break
<1>9. CASE Complete
  <2>1. pc = "calling" /\ at <= Len(route) /\ HealthTypeOK'
    BY <1>9, ObservedTyped, CallTyped DEF Complete
  <2> QED BY <1>9, <1>a, <2>1, SettleTyped DEF Complete
<1>10. ASSUME NEW outcome \in {"timeout", "aborted"}, CallCutShort(outcome)
       PROVE  Typed'
  <2>1. pc = "calling" /\ at <= Len(route) /\ HealthTypeOK'
    BY <1>10, ObservedTyped, CallTyped DEF CallCutShort
  <2> QED BY <1>10, <1>a, <2>1, SettleTyped DEF CallCutShort
<1>11. ASSUME NEW class \in Failing, CallFails(class) PROVE Typed'
  <2>1. /\ pc = "calling" /\ DeliveryKept /\ Arm(class) /\ NextRung
        /\ UNCHANGED <<others, calls, draining, listening, connected, session,
                       served, billed>>
        /\ Observe(Here.key, IF Limited(class) THEN "rate_limited"
                             ELSE "upstream_error")
    BY <1>11 DEF CallFails
  <2>2. HealthTypeOK' /\ connected' \in BOOLEAN
    BY <1>a, <2>1, ObservedTyped
  <2> QED BY <2>1, <2>2, FailureTyped
<1>12. CASE Exhaust
  <2>1. /\ pc = "arriving" /\ pc' = "done" /\ session' \in {"settled", "dropped"}
        /\ UNCHANGED <<healthVars, routeVars, calls, failed, armed, served>>
    BY <1>12 DEF Exhaust
  <2>2. Flags'
    BY <1>0, <1>12 DEF Exhaust, DeliveryKept, Flags
  <2> QED BY <1>0, <2>1, <2>2, QuietTyped DEF routeVars
<1>13. CASE Surroundings \/ UNCHANGED vars
  <2>1. UNCHANGED <<routeVars, pc, calls, failed, armed, session, served>>
    BY <1>13 DEF Surroundings, vars, streamVars
  <2>2. HealthTypeOK'
    BY <1>0, <1>13, OthersTyped DEF Surroundings, vars, Typed, TypeOK
  <2>3. draining' \in BOOLEAN /\ listening' \in BOOLEAN
    BY <1>0, <1>13 DEF Surroundings, vars, streamVars, Flags
  <2>4. Flags'
    BY <1>0, <1>13, <2>3 DEF Surroundings, DeliveryKept, vars, streamVars, Flags
  <2>5. TypeOK'
    BY <2>1, <2>2, <2>4 DEF Typed, TypeOK, Positions, routeVars, Flags
  <2>6. Built' = Built /\ Rungs' = Rungs
    BY KeysStay
  <2>7. Fitted' /\ Reaching'
    BY <2>1, <2>6 DEF Typed, Fitted, Reaching, Positions, Ranking, routeVars
  <2> QED BY <2>5, <2>7 DEF Typed
<1> QED BY <1>1, <1>2, <1>3, <1>4, <1>5, <1>6, <1>7, <1>8, <1>9, <1>10, <1>11,
           <1>12, <1>13 DEF Next, WalkNext, StreamEnds

\* The variables of a streaming walk keep their types, and the walk its route.
THEOREM TypeCorrect == Spec => []TypeOK
<1>1. Spec => []Typed
  BY InitTyped, NextTyped, PTL DEF Spec
<1>2. Typed => TypeOK
  BY DEF Typed
<1> QED BY <1>1, <1>2, PTL


-----------------------------------------------------------------------------
(* That it settles, and what it promises.                                  *)

\* A walk over house rungs that has dispatched to nobody is not past its last
\* rung: a closed rung needs a customer's key, and the backstop keeps one.
RungLeft ==
    attached = {} /\ pc = "arriving" => Dispatched \/ at <= Len(route)

LEMMA NextRungLeft == Typed /\ RungLeft /\ [Next]_vars => RungLeft'
<1> SUFFICES ASSUME Typed, RungLeft, [Next]_vars, attached' = {}, pc' = "arriving"
             PROVE  (Dispatched \/ at <= Len(route))'
  BY DEF RungLeft
<1>1. attached = {}
  BY KeysStay
<1>2. CASE Order
  <2>1. CASE StartWalk /\ pc' = "arriving"
    <3>1. Ranking
      BY <1>2 DEF Order, Typed, Fitted
    <3>2. Len(route') \in Nat \ {0} /\ at' = 1
      BY <2>1, <3>1, WalkStarts
    <3> QED BY <3>2
  <2> QED BY <1>2, <2>1 DEF Order
<1>3. CASE Skip
  <2>1. /\ pc = "arriving" /\ at <= Len(route) /\ at' = at + 1
        /\ UNCHANGED <<route, calls>> /\ (Closed \/ Unhealthy)
    BY <1>3 DEF Skip, Arriving, NextRung
  <2>2. Here \in Rungs /\ at \in 1..Len(route)
    BY <2>1, HereTyped
  <2>3. ~Closed
    BY <1>1, <2>2 DEF Closed, Rungs
  <2>4. Dispatched \/ at < Len(route)
    BY <2>1, <2>3 DEF Unhealthy, Skippable
  <2>5. Dispatched' = Dispatched
    BY <2>1 DEF Dispatched, Positions
  <2>6. route \in Seq(Rungs)
    BY <2>1 DEF Typed, Fitted
  <2>7. Len(route) \in Nat /\ at \in Int
    BY <2>2, <2>6
  <2> QED BY <2>1, <2>4, <2>5, <2>7
<1>4. CASE /\ pc \in {"streaming", "calling"} /\ UNCHANGED calls
  <2>1. Dispatched' = Dispatched
    BY <1>4 DEF Dispatched, Positions
  <2> QED BY <1>4, <2>1, CallTyped
<1>5. CASE StreamEnds \/ \E class \in Failing : CallFails(class)
  BY <1>4, <1>5 DEF StreamEnds, Interrupt, Finish, Break, Polled, Settle, CallFails
<1>6. CASE UNCHANGED <<routeVars, pc, calls>>
  <2>1. Dispatched' = Dispatched
    BY <1>6 DEF Dispatched, Positions
  <2> QED BY <1>1, <1>6, <2>1 DEF RungLeft, routeVars
<1>7. CASE Delta \/ Usage \/ Surroundings \/ UNCHANGED vars
  BY <1>6, <1>7 DEF Delta, Usage, Surroundings, vars, streamVars
<1>8. CASE \/ EndsBeforeDispatch \/ Dispatch \/ DrainedBeforeCall \/ Complete
           \/ Exhaust
           \/ \E outcome \in {"timeout", "aborted"} : CallCutShort(outcome)
  BY <1>8 DEF EndsBeforeDispatch, Dispatch, DrainedBeforeCall, Complete,
              Exhaust, CallCutShort, Settle
<1> QED BY <1>2, <1>3, <1>5, <1>7, <1>8 DEF Next, WalkNext

\* A walk over house rungs is never dropped.
LEMMA NextSettles ==
    Typed /\ RungLeft /\ IInv /\ AlwaysSettles /\ [Next]_vars => AlwaysSettles'
<1> SUFFICES ASSUME Typed, RungLeft, IInv, AlwaysSettles, [Next]_vars,
                    attached' = {}
             PROVE  session' # "dropped"
  BY DEF AlwaysSettles
<1>1. attached = {} /\ session # "dropped"
  BY KeysStay DEF AlwaysSettles
<1>2. CASE Exhaust
  <2>1. Dispatched
    <3>1. pc = "arriving" /\ at > Len(route)
      BY <1>2 DEF Exhaust
    <3>2. route \in Seq(Rungs) /\ Positions = 1..Len(Built)
      BY <3>1 DEF Typed, Fitted
    <3>3. at \in Int
      BY <3>2, Measured DEF Typed, TypeOK
    <3>4. Len(route) \in Nat
      BY <3>2
    <3> QED BY <1>1, <3>1, <3>3, <3>4 DEF RungLeft
  <2> QED BY <1>2, <2>1 DEF Exhaust
<1>3. CASE ~Exhaust
  BY <1>1, <1>3 DEF Next, WalkNext, StreamEnds, Order, Skip, EndsBeforeDispatch,
     Settle, Dispatch, DrainedBeforeCall, Delta, Usage, Interrupt, Finish,
     Break, Complete, CallCutShort, CallFails, Surroundings, vars, streamVars
<1> QED BY <1>2, <1>3

\* A walk over house rungs always settles: whatever health says of every rung,
\* the backstop leaves one to dispatch to, so no reservation is left to expire.
THEOREM HouseWalksSettle == Spec => []AlwaysSettles
<1>1. Init => RungLeft /\ AlwaysSettles
  BY DEF Init, RungLeft, AlwaysSettles
<1>2. Spec => [](Typed /\ RungLeft /\ IInv /\ AlwaysSettles)
  BY <1>1, InitTyped, NextTyped, InitIInv, NextIInv, NextRungLeft, NextSettles,
     PTL DEF Spec
<1> QED BY <1>2, PTL

\* Every step is one the promise allows.
LEMMA StepPromised ==
    ASSUME Typed, IInv, [Next]_vars
    PROVE  [Promise!Next]_Promise!meteredVars
<1>0. /\ billed \in BOOLEAN /\ Dispatched \in BOOLEAN
      /\ pc # "done" => session = "open" /\ billed = FALSE
  BY DEF IInv, Dispatched
<1>1. CASE UNCHANGED <<calls, session, billed>>
  <2>1. Dispatched' = Dispatched
    BY <1>1 DEF Dispatched, Positions
  <2> QED BY <1>1, <2>1 DEF Promise!meteredVars
<1>2. CASE Dispatch
  <2>1. /\ pc = "arriving" /\ calls' = [calls EXCEPT ![at] = 1]
        /\ UNCHANGED <<session, billed>>
    BY <1>2 DEF Dispatch, Arriving
  <2>2. at \in Positions
    BY <1>2, <2>1, HereTyped DEF Dispatch, Arriving
  <2>3. at \in Positions' /\ calls'[at] > 0
    BY <2>1, <2>2 DEF Positions
  <2>4. Dispatched' = TRUE
    BY <2>3 DEF Dispatched
  <2> QED BY <1>0, <2>1, <2>4 DEF Promise!Next, Promise!Dispatch
<1>3. CASE /\ pc # "done" /\ UNCHANGED calls
           /\ \/ session' = "settled" /\ billed' \in {FALSE, Dispatched}
              \/ session' = "dropped" /\ ~Dispatched /\ UNCHANGED billed
  <2>1. Dispatched' = Dispatched
    BY <1>3 DEF Dispatched, Positions
  <2>2. session = "open"
    BY <1>0, <1>3
  <2>3. CASE session' = "settled" /\ billed' \in {FALSE, Dispatched}
    BY <2>1, <2>2, <2>3 DEF Promise!Next, Promise!Settle
  <2>4. CASE session' = "dropped" /\ ~Dispatched /\ UNCHANGED billed
    BY <2>1, <2>2, <2>4 DEF Promise!Next, Promise!Drop
  <2> QED BY <1>3, <2>3, <2>4
<1>4. CASE Order \/ Skip \/ Delta \/ Usage \/ Surroundings \/ UNCHANGED vars
  BY <1>1, <1>4 DEF Order, Skip, NextRung, Delta, Usage, Surroundings, vars,
                    streamVars
<1>5. CASE EndsBeforeDispatch \/ DrainedBeforeCall
  BY <1>3, <1>5 DEF EndsBeforeDispatch, DrainedBeforeCall, Arriving, Settle
<1>6. ASSUME pc \in {"streaming", "calling"}, NEW delivered, NEW charge \in BOOLEAN,
             Settle(delivered, charge)
      PROVE  [Promise!Next]_Promise!meteredVars
  <2>1. Dispatched = TRUE
    BY <1>0, <1>6, CallTyped
  <2>2. /\ pc # "done" /\ UNCHANGED calls /\ session' = "settled"
        /\ billed' \in {FALSE, Dispatched}
    BY <1>6, <2>1 DEF Settle
  <2> QED BY <1>3, <2>2
<1>7. ASSUME NEW outcome \in {"timeout", "aborted"}, Interrupt(outcome)
      PROVE  [Promise!Next]_Promise!meteredVars
  BY <1>6, <1>7 DEF Interrupt, SettledUsage, IInv
<1>8. CASE Finish
  BY <1>6, <1>8 DEF Finish, Polled, IInv
<1>9. ASSUME NEW class \in Failing, Break(class)
      PROVE  [Promise!Next]_Promise!meteredVars
  <2>1. pc = "streaming" /\ SettledUsage \in BOOLEAN
    BY <1>9 DEF Break, Polled, SettledUsage, IInv
  <2> QED BY <1>1, <1>6, <1>9, <2>1 DEF Break
<1>10. CASE Complete
  BY <1>6, <1>10 DEF Complete
<1>11. ASSUME NEW outcome \in {"timeout", "aborted"}, CallCutShort(outcome)
       PROVE  [Promise!Next]_Promise!meteredVars
  BY <1>6, <1>11 DEF CallCutShort
<1>12. ASSUME NEW class \in Failing, CallFails(class)
       PROVE  [Promise!Next]_Promise!meteredVars
  BY <1>1, <1>12 DEF CallFails
<1>13. CASE Exhaust
  <2>1. pc # "done" /\ UNCHANGED <<calls, billed>>
        /\ session' = IF Dispatched THEN "settled" ELSE "dropped"
    BY <1>13 DEF Exhaust
  <2> QED BY <1>0, <1>3, <2>1
<1> QED BY <1>2, <1>4, <1>5, <1>7, <1>8, <1>9, <1>10, <1>11, <1>12, <1>13
        DEF Next, WalkNext, StreamEnds

\* The streaming walk keeps the promise its reservation relies on: it settles
\* once and for good, bills only after something was sent upstream, and lets
\* the session go unsettled only if nothing was.
THEOREM PromiseKept == Spec => KeepsPromise
<1>1. Init => Promise!Init
  BY DEF Init, Promise!Init, Dispatched, Positions
<1>2. Spec => [](Typed /\ IInv)
  BY InitTyped, NextTyped, InitIInv, NextIInv, PTL DEF Spec
<1>3. Typed /\ IInv /\ [Next]_vars => [Promise!Next]_Promise!meteredVars
  BY StepPromised
<1> QED BY <1>1, <1>2, <1>3, PTL DEF Spec, KeepsPromise, Promise!Spec


-----------------------------------------------------------------------------
(* Whom a walk may dispatch to at the full price.                          *)

\* A provider's fallback is armed by one of its own-key rungs, and every twin
\* that was dispatched to is of an armed provider.
Armed ==
    /\ pc = "ordering" => armed = {}
    /\ \A p \in armed : \E j \in failed : route[j].byok /\ route[j].provider = p
    /\ pc # "ordering" =>
         \A i \in DOMAIN route :
            route[i].twin /\ calls[i] > 0 => route[i].provider \in armed

LEMMA OrderArmed == ASSUME Typed, Armed, Order PROVE Armed'
<1>1. /\ pc = "ordering" /\ Ranking /\ armed = {}
      /\ UNCHANGED <<calls, failed, armed>>
      /\ \A i \in Positions : calls[i] = 0
  BY DEF Order, Typed, Fitted, Reaching, Armed
<1>2. CASE RankOne /\ UNCHANGED pc
  BY <1>1, <1>2 DEF Armed
<1>3. CASE StartWalk /\ pc' = "arriving"
  <2>1. route' \in Seq(Rungs) /\ Len(route') = Len(Built)
    BY <1>1, <1>3, WalkStarts
  <2>2. Positions = DOMAIN route'
    BY <2>1 DEF Typed, Fitted
  <2>3. \A i \in DOMAIN route' : calls'[i] = 0
    BY <1>1, <2>2
  <2> QED BY <1>1, <2>3 DEF Armed
<1> QED BY <1>2, <1>3 DEF Order

\* A rung is dispatched to when it is open.
LEMMA DispatchArmed == ASSUME Typed, Armed, Dispatch PROVE Armed'
<1>1. /\ pc = "arriving" /\ pc' # "ordering"
      /\ calls' = [calls EXCEPT ![at] = 1] /\ UNCHANGED <<route, failed, armed>>
      /\ route[at].twin => route[at].provider \in armed
  BY DEF Dispatch, Arriving, Closed, Here, routeVars
<1>2. \A i \in Positions : i # at => calls'[i] = calls[i]
  BY <1>1 DEF Positions
<1>3. DOMAIN route = Positions
  BY <1>1 DEF Typed, Fitted
<1>4. \A i \in DOMAIN route :
         route[i].twin /\ calls'[i] > 0 => route[i].provider \in armed
  BY <1>1, <1>2, <1>3 DEF Armed
<1> QED BY <1>1, <1>4 DEF Armed

\* A failure arms the provider of the own key that failed.
LEMMA FailureArmed ==
    ASSUME Armed, pc # "ordering", NEW class, Arm(class), NextRung,
           UNCHANGED calls
    PROVE  Armed'
<1>1. /\ UNCHANGED route /\ pc' = "arriving" /\ armed \subseteq armed'
      /\ failed \subseteq failed'
  BY DEF NextRung, Arm
<1>2. ASSUME NEW p \in armed'
      PROVE  \E j \in failed' : route[j].byok /\ route[j].provider = p
  <2>1. CASE p \in armed
    BY <1>1, <2>1 DEF Armed
  <2>2. CASE p \notin armed
    BY <2>2 DEF Arm, Here
  <2> QED BY <2>1, <2>2
<1> QED BY <1>1, <1>2 DEF Armed

LEMMA NextArmed == Typed /\ Armed /\ [Next]_vars => Armed'
<1> SUFFICES ASSUME Typed, Armed, [Next]_vars PROVE Armed'
  OBVIOUS
<1>1. CASE Order
  BY <1>1, OrderArmed
<1>2. CASE Dispatch
  BY <1>2, DispatchArmed
<1>3. CASE /\ UNCHANGED <<route, calls, failed, armed>>
           /\ (pc # "ordering" /\ pc' # "ordering") \/ UNCHANGED pc
  BY <1>3 DEF Armed
<1>4. CASE Skip \/ EndsBeforeDispatch \/ DrainedBeforeCall \/ Finish \/ Complete
           \/ Exhaust
  BY <1>3, <1>4 DEF Skip, Arriving, NextRung, EndsBeforeDispatch,
       DrainedBeforeCall, Finish, Polled, Complete, Exhaust, Settle, routeVars
<1>5. ASSUME NEW outcome \in {"timeout", "aborted"},
             Interrupt(outcome) \/ CallCutShort(outcome)
      PROVE  Armed'
  BY <1>3, <1>5 DEF Interrupt, CallCutShort, Settle, routeVars
<1>6. ASSUME NEW class \in Failing, Break(class) \/ CallFails(class)
      PROVE  Armed'
  <2>1. pc # "ordering"
    BY <1>6 DEF Break, Polled, CallFails
  <2>2. CASE Settle(sent, SettledUsage)
    BY <1>3, <2>1, <2>2 DEF Settle, routeVars
  <2>3. CASE Arm(class) /\ NextRung /\ UNCHANGED calls
    BY <2>1, <2>3, FailureArmed
  <2> QED BY <1>6, <2>2, <2>3 DEF Break, CallFails
<1>7. CASE Delta \/ Usage \/ Surroundings \/ UNCHANGED vars
  BY <1>3, <1>7 DEF Delta, Usage, Surroundings, vars, streamVars, routeVars
<1> QED BY <1>1, <1>2, <1>4, <1>5, <1>6, <1>7 DEF Next, WalkNext, StreamEnds

\* While the route is being ordered nobody was called.
LEMMA OrderingCallsNobody ==
    ASSUME Typed, pc = "ordering"
    PROVE  \A i \in DOMAIN route : calls[i] = 0
<1>1. /\ Positions = 1..Len(Built) /\ Ranking
      /\ \A i \in Positions : calls[i] = 0
  BY DEF Typed, Fitted, Reaching
<1>2. /\ Len(Built) \in Nat /\ route \in Seq(Rungs) /\ sunk \in Seq(Rungs)
      /\ at \in 1..Len(Built) + 1 /\ Len(route) + Len(sunk) = at - 1
  BY <1>1, BuiltTyped DEF Ranking
<1>3. Len(route) \in Nat /\ Len(sunk) \in Nat /\ DOMAIN route = 1..Len(route)
  BY <1>2
<1>4. Len(route) <= Len(Built)
  BY <1>2, <1>3
<1> QED BY <1>1, <1>2, <1>3, <1>4

\* A streaming walk, too, dispatches at the full price only to a provider for which
\* the customer's own key failed in it, and not for an account that cannot pay
\* (byok_fallback_armed of stream_to_channel), in every tier.
THEOREM FallbacksEarned == Spec => []FallbackEarned
<1>1. Init => Armed
  BY DEF Init, Armed
<1>2. Spec => [](Typed /\ Armed)
  BY <1>1, InitTyped, NextTyped, NextArmed, PTL DEF Spec
<1>3. Typed /\ Armed => FallbackEarned
  <2> SUFFICES ASSUME Typed, Armed, NEW i \in DOMAIN route,
                      route[i].twin, calls[i] > 0
               PROVE  \E j \in failed : route[j].byok /\ route[j].provider = route[i].provider
    BY DEF FallbackEarned
  <2>1. pc # "ordering"
    BY OrderingCallsNobody
  <2> QED BY <2>1 DEF Armed
<1> QED BY <1>2, <1>3, PTL

-----------------------------------------------------------------------------
(* What a route is built of, while it is built.                            *)

\* A candidate that can be dialled as a party, the customer only with a key.
Reached(c, theirs, wallet, minted) ==
    /\ Ready(Named(c.provider), Credential(c, theirs, wallet, minted))
    /\ theirs => OnTheirKey(c, wallet)

Wanted(c, wallet, minted) == Reached(c, OnTheirKey(c, wallet), wallet, minted)

\* The rungs a table may give.
Laid(table, wallet, minted) ==
    {r \in {Rung(c, Client(c, theirs, wallet, minted), theirs, twin) :
              c \in Range(table), theirs \in BOOLEAN, twin \in BOOLEAN} :
        Reached(r, r.byok, wallet, minted)}

\* A client is the one its slot stands for.
ClientsRight(clients, table, wallet, minted) ==
    \A s \in DOMAIN clients :
        \E c \in Range(table), theirs \in BOOLEAN :
            /\ s = Shares(c, theirs) /\ clients[s] = Client(c, theirs, wallet, minted)
            /\ Reached(c, theirs, wallet, minted)

\* A provider that was given up cannot be reached by any candidate of it.
GivenUpRightly(unavailable, table, wallet, minted) ==
    \A c \in Range(table) : c.provider \in unavailable => ~Wanted(c, wallet, minted)

Stands(rungs, c) ==
    \E r \in 1..Len(rungs) : rungs[r].provider = c.provider /\ rungs[r].surface = c.surface

\* Each of the first n candidates that can be dialled has its rung.
Listed(rungs, table, n, wallet, minted) ==
    \A j \in 1..n : Wanted(table[j], wallet, minted) => Stands(rungs, table[j])

TwinsBehind(rungs) ==
    \A r \in 1..Len(rungs) :
        rungs[r].twin =>
            /\ r > 1 /\ rungs[r - 1].byok
            /\ rungs[r - 1].provider = rungs[r].provider
            /\ rungs[r - 1].surface = rungs[r].surface

BuiltRight(b, table, n, wallet, minted) ==
    /\ ClientsRight(b.clients, table, wallet, minted)
    /\ GivenUpRightly(b.unavailable, table, wallet, minted)
    /\ b.rungs \in Seq(Laid(table, wallet, minted))
    /\ Listed(b.rungs, table, n, wallet, minted)
    /\ TwinsBehind(b.rungs)

\* What a candidate dials and sends is told by its provider and its surface.
LEMMA SamePlane ==
    ASSUME NEW c, NEW d, c.provider = d.provider, NEW theirs, NEW wallet, NEW minted
    PROVE  /\ OnTheirKey(c, wallet) = OnTheirKey(d, wallet)
           /\ Credential(c, theirs, wallet, minted) = Credential(d, theirs, wallet, minted)
           /\ Reached(c, theirs, wallet, minted) = Reached(d, theirs, wallet, minted)
           /\ Wanted(c, wallet, minted) = Wanted(d, wallet, minted)
           /\ c.surface = d.surface =>
                Client(c, theirs, wallet, minted) = Client(d, theirs, wallet, minted)
<1>1. OnTheirKey(c, wallet) = OnTheirKey(d, wallet)
  BY DEF OnTheirKey
<1>2. \A th : Credential(c, th, wallet, minted) = Credential(d, th, wallet, minted)
  BY DEF Credential
<1>3. \A th : Reached(c, th, wallet, minted) = Reached(d, th, wallet, minted)
  BY <1>1, <1>2 DEF Reached
<1>4. Wanted(c, wallet, minted) = Wanted(d, wallet, minted)
  BY <1>1, <1>3 DEF Wanted
<1>5. c.surface = d.surface =>
         Client(c, theirs, wallet, minted) = Client(d, theirs, wallet, minted)
  BY <1>2 DEF Client
<1> QED BY <1>1, <1>2, <1>3, <1>4, <1>5

\* The client of a slot, whoever asked for it first.
LEMMA WithRight ==
    ASSUME NEW table, NEW wallet, NEW minted, NEW clients, NEW c \in Range(table),
           NEW theirs \in BOOLEAN, Reached(c, theirs, wallet, minted),
           ClientsRight(clients, table, wallet, minted)
    PROVE  LET more == With(clients, Shares(c, theirs), Client(c, theirs, wallet, minted))
           IN  /\ ClientsRight(more, table, wallet, minted)
               /\ more[Shares(c, theirs)] = Client(c, theirs, wallet, minted)
<1> DEFINE slot == Shares(c, theirs)
           new == Client(c, theirs, wallet, minted)
           more == With(clients, slot, new)
<1>1. /\ DOMAIN more = DOMAIN clients \cup {slot}
      /\ \A s \in DOMAIN more : more[s] = IF s \in DOMAIN clients THEN clients[s] ELSE new
  <2> HIDE DEF slot, new
  <2> QED BY DEF With
<1> HIDE DEF more
<1>2. ASSUME NEW s \in DOMAIN clients
      PROVE  \E d \in Range(table), th \in BOOLEAN :
               /\ s = Shares(d, th) /\ clients[s] = Client(d, th, wallet, minted)
               /\ Reached(d, th, wallet, minted)
  BY DEF ClientsRight
<1>3. more[slot] = new
  <2>1. CASE slot \notin DOMAIN clients
    <3> HIDE DEF slot, new
    <3> QED BY <1>1, <2>1
  <2>2. CASE slot \in DOMAIN clients
    <3>1. PICK d \in Range(table), th \in BOOLEAN :
             slot = Shares(d, th) /\ clients[slot] = Client(d, th, wallet, minted)
      BY <1>2, <2>2
    <3>2. d.provider = c.provider /\ d.surface = c.surface /\ th = theirs
      BY <3>1 DEF Shares
    <3>3. Client(d, th, wallet, minted) = new
      BY <3>2, SamePlane
    <3>4. more[slot] = clients[slot]
      <4> HIDE DEF slot, new
      <4> QED BY <1>1, <2>2
    <3> QED BY <3>1, <3>3, <3>4
  <2> QED BY <2>1, <2>2
<1>4. ClientsRight(more, table, wallet, minted)
  <2> SUFFICES ASSUME NEW s \in DOMAIN more
               PROVE  \E d \in Range(table), th \in BOOLEAN :
                        /\ s = Shares(d, th) /\ more[s] = Client(d, th, wallet, minted)
                        /\ Reached(d, th, wallet, minted)
    BY DEF ClientsRight
  <2>1. CASE s = slot
    BY <1>3, <2>1
  <2>2. CASE s \in DOMAIN clients
    <3>1. more[s] = clients[s]
      <4> HIDE DEF slot, new
      <4> QED BY <1>1, <2>2
    <3> QED BY <1>2, <2>2, <3>1
  <2> QED BY <1>1, <2>1, <2>2
<1> QED BY <1>3, <1>4 DEF more

\* A candidate's rung is one the table may give.
LEMMA RungLaid ==
    ASSUME NEW table, NEW wallet, NEW minted, NEW c \in Range(table),
           NEW theirs \in BOOLEAN, Reached(c, theirs, wallet, minted), NEW twin \in BOOLEAN
    PROVE  LET r == Rung(c, Client(c, theirs, wallet, minted), theirs, twin) IN
           /\ r \in Laid(table, wallet, minted)
           /\ r.provider = c.provider /\ r.surface = c.surface
           /\ r.byok = theirs /\ r.twin = twin
<1> DEFINE client == Client(c, theirs, wallet, minted)
           r == Rung(c, client, theirs, twin)
<1>1. /\ r.provider = c.provider /\ r.surface = c.surface
      /\ r.byok = theirs /\ r.twin = twin
  <2> HIDE DEF client
  <2> QED BY DEF Rung
<1>2. r \in {Rung(d, Client(d, th, wallet, minted), th, tw) :
               d \in Range(table), th \in BOOLEAN, tw \in BOOLEAN}
  OBVIOUS
<1> HIDE DEF r
<1>3. Reached(r, r.byok, wallet, minted)
  BY <1>1, SamePlane
<1> QED BY <1>1, <1>2, <1>3 DEF Laid, r

\* One rung more, which is not a twin.
LEMMA OneRung ==
    ASSUME NEW R, NEW rungs \in Seq(R), NEW r \in R, TwinsBehind(rungs), ~r.twin
    PROVE  LET more == Append(rungs, r) IN
           /\ more \in Seq(R) /\ Len(more) = Len(rungs) + 1
           /\ more[Len(more)] = r /\ TwinsBehind(more)
           /\ \A k \in 1..Len(rungs) : more[k] = rungs[k]
<1> DEFINE more == Append(rungs, r)
<1>1. Len(rungs) \in Nat
  OBVIOUS
<1>2. /\ more \in Seq(R) /\ Len(more) = Len(rungs) + 1
      /\ more[Len(rungs) + 1] = r
      /\ \A k \in 1..Len(rungs) : more[k] = rungs[k]
  OBVIOUS
<1> HIDE DEF more
<1>3. ASSUME NEW k \in 1..Len(more), more[k].twin
      PROVE  /\ k > 1 /\ more[k - 1].byok
             /\ more[k - 1].provider = more[k].provider
             /\ more[k - 1].surface = more[k].surface
  <2>1. k \in 1..Len(rungs)
    BY <1>1, <1>2, <1>3
  <2>2. /\ k > 1 /\ rungs[k - 1].byok
        /\ rungs[k - 1].provider = rungs[k].provider
        /\ rungs[k - 1].surface = rungs[k].surface
    BY <1>2, <1>3, <2>1 DEF TwinsBehind
  <2>3. more[k] = rungs[k] /\ more[k - 1] = rungs[k - 1]
    BY <1>2, <2>1, <2>2
  <2> QED BY <2>2, <2>3
<1>4. TwinsBehind(more)
  BY <1>3 DEF TwinsBehind
<1> QED BY <1>2, <1>4 DEF more

\* And the twin behind one on the customer's key.
LEMMA OneTwin ==
    ASSUME NEW R, NEW rungs \in Seq(R), NEW r \in R, TwinsBehind(rungs), Len(rungs) > 0,
           rungs[Len(rungs)].byok, rungs[Len(rungs)].provider = r.provider,
           rungs[Len(rungs)].surface = r.surface
    PROVE  LET more == Append(rungs, r) IN
           /\ more \in Seq(R) /\ Len(more) = Len(rungs) + 1 /\ TwinsBehind(more)
           /\ \A k \in 1..Len(rungs) : more[k] = rungs[k]
<1> DEFINE more == Append(rungs, r)
<1>1. Len(rungs) \in Nat
  OBVIOUS
<1>2. /\ more \in Seq(R) /\ Len(more) = Len(rungs) + 1
      /\ more[Len(rungs) + 1] = r
      /\ \A k \in 1..Len(rungs) : more[k] = rungs[k]
  OBVIOUS
<1> HIDE DEF more
<1>3. ASSUME NEW k \in 1..Len(more), more[k].twin
      PROVE  /\ k > 1 /\ more[k - 1].byok
             /\ more[k - 1].provider = more[k].provider
             /\ more[k - 1].surface = more[k].surface
  <2>1. CASE k \in 1..Len(rungs)
    <3>1. more[k] = rungs[k]
      BY <1>2, <2>1
    <3>2. /\ k > 1 /\ rungs[k - 1].byok
          /\ rungs[k - 1].provider = rungs[k].provider
          /\ rungs[k - 1].surface = rungs[k].surface
      BY <1>3, <2>1, <3>1 DEF TwinsBehind
    <3>3. more[k - 1] = rungs[k - 1]
      BY <1>2, <2>1, <3>2
    <3> QED BY <3>1, <3>2, <3>3
  <2>2. CASE k = Len(rungs) + 1
    <3>1. more[k] = r /\ k - 1 = Len(rungs) /\ k > 1
      BY <1>1, <1>2, <2>2
    <3>2. more[k - 1] = rungs[Len(rungs)]
      BY <1>1, <1>2, <3>1
    <3> QED BY <3>1, <3>2
  <2> QED BY <1>1, <1>2, <2>1, <2>2
<1>4. TwinsBehind(more)
  BY <1>3 DEF TwinsBehind
<1> QED BY <1>2, <1>4 DEF more

\* What stands in a list still stands in a longer one.
LEMMA StillListed ==
    ASSUME NEW rungs, NEW more, Len(rungs) \in Nat, Len(more) \in Nat,
           Len(rungs) <= Len(more),
           \A k \in 1..Len(rungs) : more[k] = rungs[k],
           NEW table, NEW n \in Nat, NEW wallet, NEW minted,
           Listed(rungs, table, n, wallet, minted),
           Wanted(table[n + 1], wallet, minted) => Stands(more, table[n + 1])
    PROVE  Listed(more, table, n + 1, wallet, minted)
<1> SUFFICES ASSUME NEW j \in 1..n + 1, Wanted(table[j], wallet, minted)
             PROVE  Stands(more, table[j])
  BY DEF Listed
<1>1. CASE j = n + 1
  BY <1>1
<1>2. CASE j # n + 1
  <2>1. PICK r \in 1..Len(rungs) :
           rungs[r].provider = table[j].provider /\ rungs[r].surface = table[j].surface
    <3>1. j \in 1..n
      BY <1>2
    <3>2. Stands(rungs, table[j])
      BY <3>1 DEF Listed
    <3> QED BY <3>2 DEF Stands
  <2>2. r \in 1..Len(more) /\ more[r] = rungs[r]
    OBVIOUS
  <2> QED BY <2>1, <2>2 DEF Stands
<1> QED BY <1>1, <1>2

\* One candidate more.
LEMMA PlacedRight ==
    ASSUME NEW table, NEW wallet, NEW minted, NEW b, NEW n \in Nat,
           table[n + 1] \in Range(table), BuiltRight(b, table, n, wallet, minted)
    PROVE  BuiltRight(Placed(b, table[n + 1], wallet, minted), table, n + 1, wallet, minted)
<1> DEFINE c == table[n + 1]
           theirs == OnTheirKey(c, wallet)
           slot == Shares(c, theirs)
           houseSlot == Shares(c, FALSE)
           clients == With(b.clients, slot, Client(c, theirs, wallet, minted))
           withTwin == With(clients, houseSlot, Client(c, FALSE, wallet, minted))
           first == Rung(c, clients[slot], theirs, FALSE)
           twin == Rung(c, withTwin[houseSlot], FALSE, TRUE)
           R == Laid(table, wallet, minted)
           rungs == b.rungs
           one == Append(rungs, first)
           two == Append(one, twin)
           placed == Placed(b, c, wallet, minted)
<1>1. /\ ClientsRight(b.clients, table, wallet, minted)
      /\ GivenUpRightly(b.unavailable, table, wallet, minted)
      /\ rungs \in Seq(R) /\ Len(rungs) \in Nat
      /\ Listed(rungs, table, n, wallet, minted)
      /\ TwinsBehind(rungs)
  <2>1. rungs \in Seq(R) => Len(rungs) \in Nat
    OBVIOUS
  <2> QED BY <2>1 DEF BuiltRight
<1>2. theirs \in BOOLEAN
  BY DEF OnTheirKey
<1>3. placed = IF c.provider \in b.unavailable THEN b
               ELSE IF ~Ready(Named(c.provider), Credential(c, theirs, wallet, minted))
                 THEN SoFar(b.clients, b.unavailable \cup {c.provider}, b.rungs)
               ELSE IF Falls(clients, c, wallet, minted)
                 THEN SoFar(withTwin, b.unavailable, two)
               ELSE SoFar(clients, b.unavailable, one)
  BY DEF Placed
<1>4. Wanted(c, wallet, minted)
        <=> Ready(Named(c.provider), Credential(c, theirs, wallet, minted))
  BY DEF Wanted, Reached
<1>5. \A k, u, r : /\ SoFar(k, u, r).clients = k /\ SoFar(k, u, r).unavailable = u
                   /\ SoFar(k, u, r).rungs = r
  BY DEF SoFar
<1>6. c \in Range(table)
  OBVIOUS
<1> HIDE DEF c, placed
<1>a. CASE c.provider \in b.unavailable
  <2>1. placed = b
    BY <1>3, <1>a
  <2>2. ~Wanted(c, wallet, minted)
    BY <1>1, <1>6, <1>a DEF GivenUpRightly
  <2>3. Listed(rungs, table, n + 1, wallet, minted)
    BY <1>1, <2>2, StillListed DEF c
  <2> QED BY <1>1, <2>1, <2>3 DEF BuiltRight, placed, c
<1>b. CASE c.provider \notin b.unavailable /\ ~Wanted(c, wallet, minted)
  <2>1. placed = SoFar(b.clients, b.unavailable \cup {c.provider}, b.rungs)
    BY <1>3, <1>4, <1>b
  <2>2. GivenUpRightly(b.unavailable \cup {c.provider}, table, wallet, minted)
    <3> SUFFICES ASSUME NEW d \in Range(table), d.provider \in b.unavailable \cup {c.provider}
                 PROVE  ~Wanted(d, wallet, minted)
      BY DEF GivenUpRightly
    <3>1. CASE d.provider \in b.unavailable
      BY <1>1, <3>1 DEF GivenUpRightly
    <3>2. CASE d.provider = c.provider
      <4>1. Wanted(d, wallet, minted) = Wanted(c, wallet, minted)
        BY <3>2, SamePlane
      <4> QED BY <1>b, <4>1
    <3> QED BY <3>1, <3>2
  <2>3. Listed(rungs, table, n + 1, wallet, minted)
    BY <1>1, <1>b, StillListed DEF c
  <2>4. /\ placed.clients = b.clients /\ placed.rungs = rungs
        /\ placed.unavailable = b.unavailable \cup {c.provider}
    BY <1>5, <2>1
  <2> QED BY <1>1, <2>2, <2>3, <2>4 DEF BuiltRight, placed, c
<1>c. CASE c.provider \notin b.unavailable /\ Wanted(c, wallet, minted)
  <2> DEFINE own == Client(c, theirs, wallet, minted)
  <2>1. Reached(c, theirs, wallet, minted)
    BY <1>c DEF Wanted
  <2>2. ClientsRight(clients, table, wallet, minted) /\ clients[slot] = own
    <3> HIDE DEF theirs
    <3> QED BY <1>1, <1>2, <1>6, <2>1, WithRight
  <2>3. /\ first \in R /\ first.provider = c.provider /\ first.surface = c.surface
        /\ first.byok = theirs /\ first.twin = FALSE
    <3>1. PICK no \in BOOLEAN : no = FALSE
      OBVIOUS
    <3>2. first = Rung(c, own, theirs, no)
      <4>1. first = Rung(c, own, theirs, FALSE)
        BY <2>2
      <4> HIDE DEF first, own
      <4> QED BY <3>1, <4>1, Zenon
    <3> HIDE DEF theirs, first, R
    <3> QED BY <1>2, <1>6, <2>1, <3>1, <3>2, RungLaid DEF R
  <2> HIDE DEF first, R, clients, rungs, theirs
  <2>4. /\ one \in Seq(R) /\ Len(one) = Len(rungs) + 1 /\ one[Len(one)] = first
        /\ TwinsBehind(one) /\ \A k \in 1..Len(rungs) : one[k] = rungs[k]
    BY <1>1, <2>3, OneRung
  <2> HIDE DEF one
  <2>5. Len(one) \in 1..Len(one) /\ Len(one) \in Nat /\ Len(rungs) <= Len(one)
    BY <1>1, <2>4
  <2>6. Stands(one, c)
    BY <2>3, <2>4, <2>5 DEF Stands
  <2>7. Listed(one, table, n + 1, wallet, minted)
    BY <1>1, <2>4, <2>5, <2>6, StillListed DEF c
  <2>8. CASE ~Falls(clients, c, wallet, minted)
    <3>1. placed = SoFar(clients, b.unavailable, one)
      BY <1>3, <1>4, <1>c, <2>8
    <3>2. placed.clients = clients /\ placed.unavailable = b.unavailable /\ placed.rungs = one
      BY <1>5, <3>1
    <3> QED BY <1>1, <2>2, <2>4, <2>7, <3>2 DEF BuiltRight, placed, c, R
  <2>9. CASE Falls(clients, c, wallet, minted)
    <3>1. placed = SoFar(withTwin, b.unavailable, two)
      BY <1>3, <1>4, <1>c, <2>9
    <3>2. theirs
      BY <2>9 DEF Falls, theirs
    <3>h. PICK house \in BOOLEAN, yes \in BOOLEAN : house = FALSE /\ yes = TRUE
      OBVIOUS
    <3>i. /\ houseSlot = Shares(c, house)
          /\ Client(c, FALSE, wallet, minted) = Client(c, house, wallet, minted)
          /\ Credential(c, FALSE, wallet, minted) = Credential(c, house, wallet, minted)
      BY <3>h, Zenon
    <3>3. Reached(c, house, wallet, minted)
      <4>1. CASE houseSlot \in DOMAIN clients
        <5>1. PICK d \in Range(table), th \in BOOLEAN :
                 houseSlot = Shares(d, th) /\ Reached(d, th, wallet, minted)
          BY <2>2, <4>1 DEF ClientsRight
        <5>2. d.provider = c.provider /\ th = house
          BY <3>i, <5>1 DEF Shares
        <5> QED BY <5>1, <5>2, SamePlane
      <4>2. CASE Ready(Named(c.provider), Credential(c, house, wallet, minted))
        BY <3>h, <4>2 DEF Reached
      <4>3. \/ houseSlot \in DOMAIN clients
            \/ Ready(Named(c.provider), Credential(c, FALSE, wallet, minted))
        BY <2>9 DEF Falls
      <4> QED BY <3>i, <4>1, <4>2, <4>3
    <3>4. /\ ClientsRight(withTwin, table, wallet, minted)
          /\ withTwin[houseSlot] = Client(c, house, wallet, minted)
      <4> DEFINE w == With(clients, Shares(c, house), Client(c, house, wallet, minted))
      <4>1. withTwin = w
        BY <3>i
      <4>2. /\ ClientsRight(w, table, wallet, minted)
            /\ w[Shares(c, house)] = Client(c, house, wallet, minted)
        BY <1>6, <2>2, <3>3, WithRight
      <4> HIDE DEF w, withTwin, houseSlot
      <4> QED BY <3>i, <4>1, <4>2
    <3>5. twin \in R /\ twin.provider = c.provider /\ twin.surface = c.surface
      <4> HIDE DEF withTwin
      <4>1. twin = Rung(c, Client(c, house, wallet, minted), house, yes)
        <5>1. twin = Rung(c, Client(c, house, wallet, minted), FALSE, TRUE)
          BY <3>4
        <5> HIDE DEF twin
        <5> QED BY <3>h, <5>1, Zenon
      <4> HIDE DEF twin
      <4> QED BY <1>6, <3>3, <4>1, RungLaid DEF R
    <3> HIDE DEF twin, withTwin
    <3>6. /\ two \in Seq(R) /\ Len(two) = Len(one) + 1 /\ TwinsBehind(two)
          /\ \A k \in 1..Len(one) : two[k] = one[k]
      <4>1. Len(one) > 0
        BY <1>1, <2>4
      <4>2. /\ one[Len(one)].byok /\ one[Len(one)].provider = twin.provider
            /\ one[Len(one)].surface = twin.surface
        BY <2>3, <2>4, <3>2, <3>5
      <4> QED BY <2>4, <3>5, <4>1, <4>2, OneTwin
    <3> HIDE DEF two
    <3>7. Stands(two, c)
      <4>1. Len(one) \in 1..Len(two) /\ two[Len(one)] = first
        BY <2>4, <2>5, <3>6
      <4> QED BY <2>3, <4>1 DEF Stands
    <3>8. Listed(two, table, n + 1, wallet, minted)
      <4>1. Len(two) \in Nat /\ Len(rungs) <= Len(two)
        BY <1>1, <2>4, <2>5, <3>6
      <4>2. \A k \in 1..Len(rungs) : two[k] = rungs[k]
        BY <1>1, <2>4, <2>5, <3>6
      <4> QED BY <1>1, <3>7, <4>1, <4>2, StillListed DEF c
    <3>9. placed.clients = withTwin /\ placed.unavailable = b.unavailable /\ placed.rungs = two
      BY <1>5, <3>1
    <3> QED BY <1>1, <3>4, <3>6, <3>8, <3>9 DEF BuiltRight, placed, c, R
  <2> QED BY <2>8, <2>9
<1> QED BY <1>a, <1>b, <1>c DEF placed, c

-----------------------------------------------------------------------------
(* The whole table.                                                        *)

\* g is what is built after each of the first n candidates.
Builds(g, n, table, wallet, minted) ==
    g = [i \in 0..n |->
            IF i = 0 THEN SoFar(<<>>, {}, <<>>)
            ELSE Placed(g[i - 1], table[i], wallet, minted)]

LEMMA BuildUnfold ==
    ASSUME NEW table, NEW wallet, NEW minted
    PROVE  BuildWithByok(table, wallet, minted)
             = (CHOOSE g : Builds(g, Len(table), table, wallet, minted))[Len(table)].rungs
  BY DEF BuildWithByok, Builds

LEMMA BuildsSolvable ==
    ASSUME NEW table, Len(table) \in Nat, NEW wallet, NEW minted
    PROVE  \E g : Builds(g, Len(table), table, wallet, minted)
<1> DEFINE Next1(before, i) == Placed(before, table[i], wallet, minted)
           Begins == SoFar(<<>>, {}, <<>>)
           Upto(g, n) ==
              g = [i \in 0..n |-> IF i = 0 THEN Begins ELSE Next1(g[i - 1], i)]
           G == {n \in Nat : \E g : Upto(g, n)}
<1>0. \A g, n : Upto(g, n) <=> Builds(g, n, table, wallet, minted)
  BY DEF Builds
<1> HIDE DEF Next1, Begins
<1>1. 0 \in G
  <2> DEFINE h == [i \in 0..0 |-> Begins]
  <2>1. Upto(h, 0)
    OBVIOUS
  <2> QED BY <2>1
<1>2. \A n \in Nat : n \in G => n + 1 \in G
  <2> SUFFICES ASSUME NEW n \in Nat, n \in G PROVE \E h : Upto(h, n + 1)
    <3> HIDE DEF Upto
    <3> QED OBVIOUS
  <2>0. PICK g : Upto(g, n)
    <3> HIDE DEF Upto
    <3> QED OBVIOUS
  <2> DEFINE h == [i \in 0..n + 1 |-> IF i = n + 1 THEN Next1(g[n], i) ELSE g[i]]
  <2>1. \A i \in 0..n : h[i] = g[i]
    OBVIOUS
  <2>g. \A i \in 0..n : g[i] = IF i = 0 THEN Begins ELSE Next1(g[i - 1], i)
    BY <2>0
  <2>2. \A i \in 0..n + 1 : h[i] = IF i = 0 THEN Begins ELSE Next1(h[i - 1], i)
    <3> SUFFICES ASSUME NEW i \in 0..n + 1
                 PROVE  h[i] = IF i = 0 THEN Begins ELSE Next1(h[i - 1], i)
      OBVIOUS
    <3>1. CASE i = n + 1
      <4>1. h[i - 1] = g[n] /\ i # 0 /\ h[i] = Next1(g[n], i)
        BY <2>1, <3>1
      <4> HIDE DEF h
      <4> QED BY <4>1
    <3>2. CASE i # n + 1
      <4>1. i \in 0..n /\ h[i] = g[i]
        BY <2>1, <3>2
      <4>2. g[i] = IF i = 0 THEN Begins ELSE Next1(g[i - 1], i)
        BY <4>1, <2>g
      <4>3. i # 0 => i - 1 \in 0..n /\ h[i - 1] = g[i - 1]
        BY <2>1, <4>1
      <4> HIDE DEF h
      <4> QED BY <4>1, <4>2, <4>3
    <3> QED BY <3>1, <3>2
  <2>4. h = [i \in 0..n + 1 |-> h[i]]
    OBVIOUS
  <2> HIDE DEF h
  <2>3. Upto(h, n + 1)
    BY <2>2, <2>4
  <2> HIDE DEF Upto
  <2> QED BY <2>3
<1>4. Len(table) \in G
  <2> HIDE DEF G
  <2> QED BY <1>1, <1>2, Induction
<1> HIDE DEF Upto
<1> QED BY <1>0, <1>4

\* Whatever the table, the environment and the wallet, what is built is right.
LEMMA BuildRight ==
    ASSUME NEW table, table \in Seq(Range(table)), NEW wallet, NEW minted
    PROVE  LET rungs == BuildWithByok(table, wallet, minted) IN
           /\ rungs \in Seq(Laid(table, wallet, minted))
           /\ Listed(rungs, table, Len(table), wallet, minted)
           /\ TwinsBehind(rungs)
<1> DEFINE N == Len(table)
           g == CHOOSE f : Builds(f, N, table, wallet, minted)
           Good(n) == BuiltRight(g[n], table, n, wallet, minted)
           G == {n \in Nat : n <= N => Good(n)}
<1>1. N \in Nat /\ \A i \in 1..N : table[i] \in Range(table)
  OBVIOUS
<1>2. Builds(g, N, table, wallet, minted)
  BY <1>1, BuildsSolvable
<1>3. BuildWithByok(table, wallet, minted) = g[N].rungs
  BY BuildUnfold
<1> HIDE DEF g, N
<1>4. /\ g[0] = SoFar(<<>>, {}, <<>>)
      /\ \A i \in 1..N : g[i] = Placed(g[i - 1], table[i], wallet, minted)
  BY <1>1, <1>2 DEF Builds
<1>5. 0 \in G
  <2> DEFINE b == SoFar(<<>>, {}, <<>>)
  <2>1. b.clients = <<>> /\ b.unavailable = {} /\ b.rungs = <<>>
    BY DEF SoFar
  <2>2. DOMAIN <<>> = {} /\ Len(<<>>) = 0 /\ \A R : <<>> \in Seq(R)
    OBVIOUS
  <2> HIDE DEF b
  <2>3. ClientsRight(b.clients, table, wallet, minted)
    BY <2>1, <2>2 DEF ClientsRight
  <2>4. GivenUpRightly(b.unavailable, table, wallet, minted)
    BY <2>1 DEF GivenUpRightly
  <2>5. Listed(b.rungs, table, 0, wallet, minted)
    BY DEF Listed
  <2>6. TwinsBehind(b.rungs)
    BY <2>1, <2>2 DEF TwinsBehind
  <2>7. BuiltRight(b, table, 0, wallet, minted)
    BY <2>1, <2>2, <2>3, <2>4, <2>5, <2>6 DEF BuiltRight
  <2> QED BY <1>4, <2>7 DEF b
<1>6. \A n \in Nat : n \in G => n + 1 \in G
  <2> SUFFICES ASSUME NEW n \in Nat, n \in G, n + 1 <= N PROVE Good(n + 1)
    <3> HIDE DEF Good
    <3> QED OBVIOUS
  <2>1. Good(n)
    <3> HIDE DEF Good
    <3>1. n <= N
      BY <1>1
    <3> QED BY <3>1
  <2>2. n + 1 \in 1..N /\ n + 1 - 1 = n
    BY <1>1
  <2>3. table[n + 1] \in Range(table)
    BY <1>1, <2>2
  <2>4. g[n + 1] = Placed(g[n], table[n + 1], wallet, minted)
    BY <1>4, <2>2
  <2>5. BuiltRight(Placed(g[n], table[n + 1], wallet, minted), table, n + 1, wallet, minted)
    BY <2>1, <2>3, PlacedRight
  <2> QED BY <2>4, <2>5
<1>7. Good(N)
  <2>1. N \in G
    <3> HIDE DEF G
    <3> QED BY <1>1, <1>5, <1>6, Induction
  <2> HIDE DEF Good
  <2> QED BY <1>1, <2>1
<1> QED BY <1>3, <1>7 DEF BuiltRight, N

-----------------------------------------------------------------------------
(* What the last request was given.                                        *)

\* It was built for a table of the catalog, with every token it takes asked for.
Rightly(table, wallet, minted, rungs) ==
    /\ table \in TierTables /\ Known(table)
    /\ wallet \in Wallets
    /\ minted \in [{e.credential : e \in Minters(table)} -> {"token", Absent}]
    /\ rungs \in Seq(Laid(table, wallet, minted))
    /\ Listed(rungs, table, Len(table), wallet, minted)
    /\ TwinsBehind(rungs)

GivenRight == Rightly(given.table, given.wallet, given.minted, given.rungs)

\* A process that serves holds an inventory it validated.
Supplied ==
    /\ up => extra \in Files /\ Assembles(extra)
    /\ ~up => given = Absent
    /\ given # Absent => GivenRight

\* Nothing of an entry moves under a process that runs.
LEMMA EntriesStay ==
    ASSUME UNCHANGED <<extra, env>>
    PROVE  /\ \A k : Named(k)' = Named(k)
           /\ \A v : Read(v)' = Read(v)
           /\ \A t : Known(t)' <=> Known(t)
           /\ \A t : Minters(t)' = Minters(t)
           /\ \A e, a : Ready(e, a)' <=> Ready(e, a)
           /\ \A e, u : Resolved(e, u)' = Resolved(e, u)
<1>1. Entries' = Entries
  BY DEF Entries
<1>2. \A k : Named(k)' = Named(k)
  BY DEF Named, Entries
<1>3. \A v : Read(v)' = Read(v)
  BY DEF Read
<1>4. \A t : Known(t)' <=> Known(t)
  BY <1>1, <1>2 DEF Known
<1>5. \A t : Minters(t)' = Minters(t)
  BY DEF Minters, Named, Entries, Read
<1>6. \A e, u : Resolved(e, u)' = Resolved(e, u)
  BY DEF Resolved, Read
<1>7. \A e, a : Ready(e, a)' <=> Ready(e, a)
  BY <1>6 DEF Ready
<1> QED BY <1>2, <1>3, <1>4, <1>5, <1>6, <1>7

\* Nor does what a table may be given.
LEMMA LaidStays ==
    ASSUME UNCHANGED <<extra, env>>, NEW table, NEW wallet, NEW minted
    PROVE  /\ Laid(table, wallet, minted)' = Laid(table, wallet, minted)
           /\ \A c : Wanted(c, wallet, minted)' <=> Wanted(c, wallet, minted)
<1>1. \A c : OnTheirKey(c, wallet)' <=> OnTheirKey(c, wallet)
  BY EntriesStay DEF OnTheirKey
<1>2. \A e : House(e, minted)' = House(e, minted)
  BY EntriesStay DEF House
<1>3. \A c, th : Credential(c, th, wallet, minted)' = Credential(c, th, wallet, minted)
  BY <1>2, EntriesStay DEF Credential
<1>4. \A c, th : Client(c, th, wallet, minted)' = Client(c, th, wallet, minted)
  BY <1>3, EntriesStay DEF Client
<1>5. \A c, th : Reached(c, th, wallet, minted)' <=> Reached(c, th, wallet, minted)
  BY <1>1, <1>3, EntriesStay DEF Reached
<1>6. \A c : Wanted(c, wallet, minted)' <=> Wanted(c, wallet, minted)
  <2> SUFFICES ASSUME NEW c
               PROVE  Wanted(c, wallet, minted)' <=> Wanted(c, wallet, minted)
    OBVIOUS
  <2> DEFINE R(th) == Ready(Named(c.provider), Credential(c, th, wallet, minted))
  <2>1. Wanted(c, wallet, minted) <=>
           Ready(Named(c.provider), Credential(c, OnTheirKey(c, wallet), wallet, minted))
    BY DEF Wanted, Reached
  <2>2. Wanted(c, wallet, minted)' <=>
           Ready(Named(c.provider), Credential(c, OnTheirKey(c, wallet), wallet, minted))'
    BY DEF Wanted, Reached
  <2>3. Credential(c, OnTheirKey(c, wallet), wallet, minted)'
          = Credential(c, OnTheirKey(c, wallet), wallet, minted)
    BY <1>1, <1>2, EntriesStay DEF Credential
  <2> QED BY <2>1, <2>2, <2>3, EntriesStay
<1>7. Laid(table, wallet, minted)' = Laid(table, wallet, minted)
  BY <1>4, <1>5 DEF Laid
<1> QED BY <1>6, <1>7

LEMMA RightlyStays ==
    ASSUME UNCHANGED <<extra, env>>, NEW table, NEW wallet, NEW minted, NEW rungs,
           Rightly(table, wallet, minted, rungs)
    PROVE  Rightly(table, wallet, minted, rungs)'
<1>1. Listed(rungs, table, Len(table), wallet, minted)'
  BY LaidStays DEF Rightly, Listed
<1>2. Known(table)' /\ Minters(table)' = Minters(table)
  BY EntriesStay DEF Rightly
<1>3. Laid(table, wallet, minted)' = Laid(table, wallet, minted)
  BY LaidStays
<1> QED BY <1>1, <1>2, <1>3 DEF Rightly

LEMMA InitSupplied == InventoryInit => Supplied
  BY DEF InventoryInit, Supplied

LEMMA StepSupplied == Supplied /\ [InventoryNext]_inventoryVars => Supplied'
<1> SUFFICES ASSUME Supplied, [InventoryNext]_inventoryVars PROVE Supplied'
  OBVIOUS
<1>1. ASSUME Request PROVE Supplied'
  <2>1. PICK table \in TierTables, wallet \in Wallets :
           /\ Known(table)
           /\ \E minted \in [{e.credential : e \in Minters(table)} -> {"token", Absent}] :
                given' = [table |-> table, wallet |-> wallet, minted |-> minted,
                          rungs |-> BuildWithByok(table, wallet, minted)]
    BY <1>1 DEF Request
  <2>2. PICK minted \in [{e.credential : e \in Minters(table)} -> {"token", Absent}] :
           given' = [table |-> table, wallet |-> wallet, minted |-> minted,
                     rungs |-> BuildWithByok(table, wallet, minted)]
    BY <2>1
  <2> DEFINE rungs == BuildWithByok(table, wallet, minted)
  <2>3. Rightly(table, wallet, minted, rungs)
    <3>1. table \in Seq(Range(table))
      BY RequestsAssumption
    <3>2. /\ rungs \in Seq(Laid(table, wallet, minted))
          /\ Listed(rungs, table, Len(table), wallet, minted)
          /\ TwinsBehind(rungs)
      BY <3>1, BuildRight
    <3> QED BY <2>1, <3>2 DEF Rightly
  <2>4. PICK ladder : ladder = rungs
    OBVIOUS
  <2>5. /\ given'.table = table /\ given'.wallet = wallet /\ given'.minted = minted
        /\ given'.rungs = ladder
    <3> HIDE DEF rungs
    <3> QED BY <2>2, <2>4 DEF rungs
  <2>6. UNCHANGED <<extra, env>> /\ up' = up /\ up
    BY <1>1 DEF Request
  <2>7. Rightly(table, wallet, minted, ladder)'
    BY <2>3, <2>4, <2>6, RightlyStays
  <2>8. GivenRight'
    BY <2>5, <2>7 DEF GivenRight
  <2>9. up' => extra' \in Files /\ Assembles(extra)'
    BY <2>6 DEF Supplied, Assembles, Adds
  <2> QED BY <2>6, <2>8, <2>9 DEF Supplied
<1>2. CASE Start
  <2>1. given' = Absent
    BY <1>2 DEF Start, Supplied
  <2>2. up' => extra' \in Files /\ Assembles(extra)'
    BY <1>2 DEF Start, Assembles, Adds
  <2> QED BY <2>1, <2>2 DEF Supplied
<1>3. CASE Redeploy
  BY <1>3 DEF Redeploy, Supplied
<1>4. CASE UNCHANGED inventoryVars
  <2>1. UNCHANGED <<up, extra, env, given>>
    BY <1>4 DEF inventoryVars
  <2>2. ASSUME given # Absent PROVE GivenRight'
    <3>1. PICK table, wallet, minted, rungs :
             /\ table = given.table /\ wallet = given.wallet /\ minted = given.minted
             /\ rungs = given.rungs
      OBVIOUS
    <3>2. Rightly(table, wallet, minted, rungs)
      BY <2>2, <3>1 DEF Supplied, GivenRight
    <3>3. Rightly(table, wallet, minted, rungs)'
      BY <2>1, <3>2, RightlyStays
    <3> QED BY <2>1, <3>1, <3>3 DEF GivenRight
  <2>3. up' => extra' \in Files /\ Assembles(extra)'
    BY <2>1 DEF Supplied, Assembles, Adds
  <2> QED BY <2>1, <2>2, <2>3 DEF Supplied
<1> QED BY <1>1, <1>2, <1>3, <1>4 DEF InventoryNext

-----------------------------------------------------------------------------
(* What the entries are.                                                   *)

LEMMA EntriesRight ==
    ASSUME up, Supplied
    PROVE  /\ \A e \in Entries : Sound(e) /\ Addressed(e)
           /\ \A e, f \in Entries : e.key = f.key => e = f
           /\ \A e, f \in Entries :
                e.credential = f.credential /\ e.credential # Absent => e.mints = f.mints
           /\ \A e \in Shipped, f \in Entries :
                e.credential = f.credential /\ e.credential # Absent => e = f
<1>1. extra \in Files /\ Assembles(extra)
  BY DEF Supplied
<1>2. Entries = Shipped \cup {extra[i] : i \in DOMAIN extra}
  BY DEF Entries, Range
<1>3. /\ \A i \in DOMAIN extra : Sound(extra[i])
      /\ \A i \in DOMAIN extra :
           /\ extra[i].key \notin {e.key : e \in Shipped}
           /\ extra[i].credential = Absent
              \/ extra[i].credential \notin {e.credential : e \in Shipped}
      /\ \A i, j \in DOMAIN extra : extra[i].key = extra[j].key => i = j
  BY <1>1 DEF Assembles, Adds
<1>4. \A i \in DOMAIN extra : Addressed(extra[i])
  <2> SUFFICES ASSUME NEW i \in DOMAIN extra PROVE Addressed(extra[i])
    OBVIOUS
  <2>1. extra[i] \in Range(extra)
    BY DEF Range
  <2>2. extra[i] \in UNION {Range(file) : file \in Files}
    BY <1>1, <2>1
  <2> QED BY <2>2, AddressesAssumption
<1>5. \A e \in Entries : Sound(e) /\ Addressed(e)
  BY <1>2, <1>3, <1>4, ShippedAssumption, AddressesAssumption
<1>6. \A e, f \in Entries : e.key = f.key => e = f
  <2> SUFFICES ASSUME NEW e \in Entries, NEW f \in Entries, e.key = f.key PROVE e = f
    OBVIOUS
  <2>1. CASE e \in Shipped /\ f \in Shipped
    BY <2>1, ShippedAssumption
  <2>2. CASE e \in Shipped /\ f \notin Shipped
    BY <1>2, <1>3, <2>2
  <2>3. CASE e \notin Shipped /\ f \in Shipped
    BY <1>2, <1>3, <2>3
  <2>4. CASE e \notin Shipped /\ f \notin Shipped
    BY <1>2, <1>3, <2>4
  <2> QED BY <2>1, <2>2, <2>3, <2>4
<1>7. \A e \in Shipped, f \in Entries :
         e.credential = f.credential /\ e.credential # Absent => e = f
  <2> SUFFICES ASSUME NEW e \in Shipped, NEW f \in Entries,
                      e.credential = f.credential, e.credential # Absent
               PROVE  e = f
    OBVIOUS
  <2>1. CASE f \in Shipped
    BY <2>1, ShippedAssumption
  <2>2. CASE f \notin Shipped
    BY <1>2, <1>3, <2>2
  <2> QED BY <2>1, <2>2
<1>8. \A e, f \in Entries :
         e.credential = f.credential /\ e.credential # Absent => e.mints = f.mints
  <2> SUFFICES ASSUME NEW e \in Entries, NEW f \in Entries,
                      e.credential = f.credential, e.credential # Absent
               PROVE  e.mints = f.mints
    OBVIOUS
  <2>1. CASE e \in Shipped \/ f \in Shipped
    BY <1>7, <2>1
  <2>2. CASE e \notin Shipped /\ f \notin Shipped
    <3>1. PICK i \in DOMAIN extra, j \in DOMAIN extra : e = extra[i] /\ f = extra[j]
      BY <1>2, <2>2
    <3>2. extra[i].credential = extra[j].credential =>
             extra[i].credential = Absent \/ extra[i].mints = extra[j].mints
      BY <1>1, FilesAssumption
    <3> QED BY <3>1, <3>2
  <2> QED BY <2>1, <2>2
<1> QED BY <1>5, <1>6, <1>7, <1>8

\* A candidate's provider is an entry, and its surface one of that entry's.
LEMMA CandidateKnown ==
    ASSUME NEW table, Known(table), NEW c \in Range(table)
    PROVE  /\ Named(c.provider) \in Entries /\ Named(c.provider).key = c.provider
           /\ c.surface # Absent => c.surface \in DOMAIN Named(c.provider).surfaces
<1>1. PICK i \in DOMAIN table : c = table[i]
  BY DEF Range
<1>2. /\ \E e \in Entries : e.key = c.provider
      /\ c.surface # Absent => c.surface \in DOMAIN Named(c.provider).surfaces
  BY <1>1 DEF Known
<1>3. Named(c.provider) \in Entries /\ Named(c.provider).key = c.provider
  BY <1>2 DEF Named
<1> QED BY <1>2, <1>3

\* The plane a candidate names is one of its provider's.
LEMMA PlaneKnown ==
    ASSUME NEW e, NEW surface, surface # Absent => surface \in DOMAIN e.surfaces, Sound(e),
           Addressed(e)
    PROVE  /\ Plane(e, surface).url \in Urls(e)
           /\ Plane(e, surface).adapter \in {"chat", "runtime"} =>
                /\ Plane(e, surface).url \notin {Absent, Blank}
                /\ Plane(e, surface).url.host # "implied"
           /\ e.header # Absent => Plane(e, surface).adapter = "chat"
<1>1. PlanesSound(e) /\ AttestationSound(e)
  BY DEF Sound
<1>2. CASE surface = Absent
  <2>1. Plane(e, surface).adapter = e.adapter /\ Plane(e, surface).url = e.url
    BY <1>2 DEF Plane
  <2> QED BY <1>1, <2>1 DEF Urls, PlanesSound, AttestationSound, Addressed
<1>3. CASE surface # Absent
  <2>1. Plane(e, surface) = e.surfaces[surface] /\ surface \in DOMAIN e.surfaces
    BY <1>3 DEF Plane
  <2>2. e.surfaces[surface].url \in Urls(e)
    BY <2>1 DEF Urls, SurfaceUrls
  <2>3. e.surfaces[surface].url \notin {Absent, Blank}
    BY <1>1, <2>1, <2>2 DEF PlanesSound, Addressed
  <2>4. e.surfaces[surface].url.host # "implied"
    BY <2>2, <2>3 DEF Addressed
  <2>5. e.header # Absent => e.surfaces[surface].adapter = "chat"
    BY <1>1, <2>1 DEF AttestationSound
  <2> QED BY <2>1, <2>2, <2>3, <2>4, <2>5
<1> QED BY <1>2, <1>3

\* What the house sends for an entry is there when the entry is reachable: the
\* token where one is minted, and else what its variable holds.
LEMMA HouseSends ==
    ASSUME up, Supplied, NEW table, Known(table), NEW c \in Range(table), NEW minted,
           minted \in [{m.credential : m \in Minters(table)} -> {"token", Absent}]
    PROVE  LET e == Named(c.provider)
               refused == e.mints /\ e.credential \in DOMAIN minted
                           /\ minted[e.credential] = Absent
           IN  ~e.keyless =>
                 /\ House(e, minted) # Absent =>
                      House(e, minted) = IF e.mints THEN "token" ELSE Read(e.credential)
                 /\ House(e, minted) # Absent <=> Read(e.credential) # Absent /\ ~refused
<1> DEFINE e == Named(c.provider)
           v == e.credential
           refused == e.mints /\ v \in DOMAIN minted /\ minted[v] = Absent
<1> SUFFICES ASSUME ~e.keyless
             PROVE  /\ House(e, minted) # Absent =>
                         House(e, minted) = IF e.mints THEN "token" ELSE Read(v)
                    /\ House(e, minted) # Absent <=> Read(v) # Absent /\ ~refused
  OBVIOUS
<1>1. e \in Entries /\ Sound(e)
  BY CandidateKnown, EntriesRight
<1>2. v # Absent
  BY <1>1 DEF Sound, CredentialSound, Stated
<1>3. DOMAIN minted = {m.credential : m \in Minters(table)}
  OBVIOUS
<1>4. ASSUME v \in DOMAIN minted
      PROVE  e.mints /\ Read(v) # Absent /\ minted[v] \in {"token", Absent}
  <2>1. PICK m \in Minters(table) : m.credential = v
    BY <1>3, <1>4
  <2>2. /\ \E i \in DOMAIN table : m = Named(table[i].provider)
        /\ m.mints /\ Read(v) # Absent
    BY <2>1 DEF Minters
  <2>3. m \in Entries
    <3>1. PICK i \in DOMAIN table : m = Named(table[i].provider)
      BY <2>2
    <3>2. table[i] \in Range(table)
      BY DEF Range
    <3> QED BY <3>1, <3>2, CandidateKnown
  <2>4. e.mints = m.mints
    BY <1>1, <1>2, <2>1, <2>3, EntriesRight
  <2> QED BY <1>4, <2>2, <2>4
<1>5. ASSUME e.mints, Read(v) # Absent PROVE v \in DOMAIN minted
  <2>1. PICK i \in DOMAIN table : c = table[i]
    BY DEF Range
  <2>2. e \in Minters(table)
    BY <1>5, <2>1 DEF Minters
  <2> QED BY <1>3, <2>2
<1>6. House(e, minted) = IF v \in DOMAIN minted THEN minted[v] ELSE Read(v)
  BY DEF House
<1> HIDE DEF e, v
<1> QED BY <1>4, <1>5, <1>6

-----------------------------------------------------------------------------
(* What is promised of a route.                                            *)

LEMMA RungKnown ==
    ASSUME up, Supplied, given # Absent, NEW r \in DOMAIN given.rungs
    PROVE  LET rung == given.rungs[r] IN
           /\ \E c \in Range(given.table) :
                rung.provider = c.provider /\ rung.surface = c.surface
           /\ rung.byok \in BOOLEAN
           /\ rung.client = Client(rung, rung.byok, given.wallet, given.minted)
           /\ Reached(rung, rung.byok, given.wallet, given.minted)
           /\ Named(rung.provider) \in Entries /\ Sound(Named(rung.provider))
           /\ Addressed(Named(rung.provider))
           /\ rung.surface # Absent => rung.surface \in DOMAIN Named(rung.provider).surfaces
<1> DEFINE t == given.table
           w == given.wallet
           m == given.minted
           rung == given.rungs[r]
<1>1. Rightly(t, w, m, given.rungs)
  BY DEF Supplied, GivenRight
<1> HIDE DEF t, w, m
<1>2. rung \in Laid(t, w, m)
  <2>1. given.rungs \in Seq(Laid(t, w, m))
    BY <1>1 DEF Rightly
  <2> QED BY <2>1
<1>3. PICK c \in Range(t), th \in BOOLEAN, tw \in BOOLEAN :
         rung = Rung(c, Client(c, th, w, m), th, tw)
  BY <1>2 DEF Laid
<1>4. Reached(rung, rung.byok, w, m)
  BY <1>2 DEF Laid
<1> HIDE DEF rung
<1>5. /\ rung.provider = c.provider /\ rung.surface = c.surface /\ rung.byok = th
      /\ rung.client = Client(c, th, w, m)
  BY <1>3 DEF Rung
<1>6. Client(c, th, w, m) = Client(rung, rung.byok, w, m)
  BY <1>5, SamePlane
<1>7. Known(t)
  BY <1>1 DEF Rightly
<1>8. /\ Named(rung.provider) \in Entries
      /\ rung.surface # Absent => rung.surface \in DOMAIN Named(rung.provider).surfaces
  BY <1>5, <1>7, CandidateKnown
<1>9. Sound(Named(rung.provider)) /\ Addressed(Named(rung.provider))
  BY <1>8, EntriesRight
<1> QED BY <1>4, <1>5, <1>6, <1>8, <1>9 DEF t, w, m, rung

LEMMA ListedRight == Supplied => RoutedAsListed
<1> SUFFICES ASSUME Supplied, up, given # Absent, NEW i \in DOMAIN given.table
             PROVE  LET c == given.table[i]
                        e == Named(c.provider)
                        theirs == AcceptsByok(e) /\ c.provider \in DOMAIN given.wallet
                        refused == e.mints /\ e.credential \in DOMAIN given.minted
                                    /\ given.minted[e.credential] = Absent
                        routed == \E r \in DOMAIN given.rungs :
                                    given.rungs[r].provider = c.provider
                                    /\ given.rungs[r].surface = c.surface
                    IN  IF theirs
                        THEN routed <=> \A url \in Urls(e) : Resolved(e, url) # Absent
                        ELSE routed <=> (Dispatchable(e) /\ ~refused)
  BY DEF RoutedAsListed
<1> DEFINE t == given.table
           w == given.wallet
           m == given.minted
           c == t[i]
           e == Named(c.provider)
           theirs == AcceptsByok(e) /\ c.provider \in DOMAIN w
           refused == e.mints /\ e.credential \in DOMAIN m /\ m[e.credential] = Absent
           routed == \E r \in DOMAIN given.rungs :
                       given.rungs[r].provider = c.provider
                       /\ given.rungs[r].surface = c.surface
           written == \A url \in Urls(e) : Resolved(e, url) # Absent
<1>1. Rightly(t, w, m, given.rungs)
  BY DEF Supplied, GivenRight
<1>2. /\ Known(t) /\ t \in Seq(Range(t)) /\ w \in Wallets
      /\ m \in [{e1.credential : e1 \in Minters(t)} -> {"token", Absent}]
  BY <1>1, RequestsAssumption DEF Rightly
<1>3. i \in 1..Len(t) /\ c \in Range(t)
  BY <1>2 DEF Range
<1>4. theirs <=> OnTheirKey(c, w)
  BY DEF OnTheirKey
<1>5. Wanted(c, w, m) => routed
  <2>1. ASSUME Wanted(c, w, m) PROVE Stands(given.rungs, c)
    BY <1>1, <1>3, <2>1 DEF Rightly, Listed
  <2>2. DOMAIN given.rungs = 1..Len(given.rungs)
    <3>1. given.rungs \in Seq(Laid(t, w, m))
      BY <1>1 DEF Rightly
    <3> HIDE DEF t, w, m
    <3> QED BY <3>1
  <2> QED BY <2>1, <2>2 DEF Stands
<1>6. ASSUME routed
      PROVE  \E th \in BOOLEAN : Reached(c, th, w, m)
  <2>1. PICK r \in DOMAIN given.rungs :
           given.rungs[r].provider = c.provider /\ given.rungs[r].surface = c.surface
    BY <1>6
  <2>2. given.rungs[r].byok \in BOOLEAN /\ Reached(given.rungs[r], given.rungs[r].byok, w, m)
    BY RungKnown
  <2>3. Reached(c, given.rungs[r].byok, w, m)
    BY <2>1, <2>2, SamePlane
  <2> QED BY <2>2, <2>3
<1>7. e \in Entries /\ Sound(e)
  BY <1>2, <1>3, CandidateKnown, EntriesRight
<1>8. CASE theirs
  <2>1. w[c.provider].key # Absent
    BY <1>2, <1>8, RequestsAssumption
  <2>2. ~e.keyless
    BY <1>8 DEF AcceptsByok
  <2>3. Wanted(c, w, m) <=> written
    <3>1. Credential(c, OnTheirKey(c, w), w, m) = w[c.provider].key
      BY <1>4, <1>8 DEF Credential
    <3>2. Wanted(c, w, m) <=> Ready(e, w[c.provider].key)
      BY <3>1 DEF Wanted, Reached
    <3> QED BY <2>1, <2>2, <3>2 DEF Ready
  <2>4. routed => written
    BY <1>6 DEF Reached, Ready
  <2>5. routed <=> written
    <3> HIDE DEF written, routed
    <3> QED BY <1>5, <2>3, <2>4
  <2> QED BY <1>8, <2>5
<1>9. CASE ~theirs
  <2>1. Wanted(c, w, m) <=> Dispatchable(e) /\ ~refused
    <3>1. Wanted(c, w, m) <=> Ready(e, Credential(c, FALSE, w, m))
      <4>1. OnTheirKey(c, w) = FALSE
        BY <1>4, <1>9
      <4>2. Credential(c, OnTheirKey(c, w), w, m) = Credential(c, FALSE, w, m)
        BY <4>1 DEF Credential
      <4> QED BY <4>2 DEF Wanted, Reached
    <3>2. CASE e.keyless
      <4>1. ~e.mints
        BY <1>7, <3>2 DEF Sound
      <4>2. Dispatchable(e) <=> Ready(e, Credential(c, FALSE, w, m))
        BY <3>2 DEF Dispatchable, Ready
      <4> QED BY <3>1, <4>1, <4>2
    <3>3. CASE ~e.keyless
      <4>1. Credential(c, FALSE, w, m) = House(e, m)
        BY <3>3 DEF Credential
      <4>2. House(e, m) # Absent <=> Read(e.credential) # Absent /\ ~refused
        BY <1>2, <1>3, <3>3, HouseSends
      <4> QED BY <3>1, <3>3, <4>1, <4>2 DEF Dispatchable, Ready
    <3> QED BY <3>2, <3>3
  <2>2. routed => Wanted(c, w, m)
    <3> SUFFICES ASSUME routed PROVE Wanted(c, w, m)
      OBVIOUS
    <3>1. PICK th \in BOOLEAN : Reached(c, th, w, m)
      BY <1>6
    <3>2. ~th /\ ~OnTheirKey(c, w)
      BY <1>4, <1>9, <3>1 DEF Reached
    <3>3. Credential(c, th, w, m) = Credential(c, OnTheirKey(c, w), w, m)
      BY <3>2 DEF Credential
    <3> QED BY <3>1, <3>3 DEF Reached, Wanted
  <2>3. routed <=> (Dispatchable(e) /\ ~refused)
    <3> HIDE DEF routed, refused
    <3> QED BY <1>5, <2>1, <2>2
  <2> QED BY <1>9, <2>3
<1> QED BY <1>8, <1>9

LEMMA BilledRight == Supplied => DialsAsBilled
<1> SUFFICES ASSUME Supplied, up, given # Absent, NEW r \in DOMAIN given.rungs
             PROVE  LET rung == given.rungs[r]
                        e == Named(rung.provider)
                        plane == Plane(e, rung.surface)
                    IN  /\ rung.client.adapter = plane.adapter
                        /\ rung.client.dials = Resolved(e, plane.url)
                        /\ rung.client.dials # Absent
                        /\ plane.adapter \in {"chat", "runtime"} =>
                             rung.client.dials.host # "implied"
                        /\ rung.byok => rung.client.sends = given.wallet[rung.provider].key
                        /\ ~rung.byok /\ ~e.keyless =>
                             rung.client.sends = IF e.mints THEN "token" ELSE Read(e.credential)
                        /\ rung.twin => r > 1 /\ given.rungs[r - 1].byok
                                        /\ given.rungs[r - 1].provider = rung.provider
                                        /\ given.rungs[r - 1].surface = rung.surface
  BY DEF DialsAsBilled
<1> DEFINE t == given.table
           w == given.wallet
           m == given.minted
           rung == given.rungs[r]
           e == Named(rung.provider)
           plane == Plane(e, rung.surface)
<1>1. Rightly(t, w, m, given.rungs)
  BY DEF Supplied, GivenRight
<1>2. /\ Known(t) /\ m \in [{e1.credential : e1 \in Minters(t)} -> {"token", Absent}]
      /\ given.rungs \in Seq(Laid(t, w, m)) /\ TwinsBehind(given.rungs)
  BY <1>1 DEF Rightly
<1>3. PICK c \in Range(t) : rung.provider = c.provider /\ rung.surface = c.surface
  BY RungKnown
<1>4. /\ rung.byok \in BOOLEAN /\ rung.client = Client(rung, rung.byok, w, m)
      /\ Reached(rung, rung.byok, w, m)
      /\ Sound(e) /\ Addressed(e)
      /\ rung.surface # Absent => rung.surface \in DOMAIN e.surfaces
  BY RungKnown
<1>5. /\ plane.url \in Urls(e)
      /\ plane.adapter \in {"chat", "runtime"} =>
           plane.url \notin {Absent, Blank} /\ plane.url.host # "implied"
  BY <1>4, PlaneKnown
<1>6. r \in 1..Len(given.rungs)
  <2> HIDE DEF t, w, m
  <2> QED BY <1>2
<1>7. rung.twin => r > 1 /\ given.rungs[r - 1].byok
                   /\ given.rungs[r - 1].provider = rung.provider
                   /\ given.rungs[r - 1].surface = rung.surface
  BY <1>2, <1>6 DEF TwinsBehind
<1>8. Ready(e, Credential(rung, rung.byok, w, m))
  BY <1>4 DEF Reached
<1>9. /\ rung.client.adapter = plane.adapter
      /\ rung.client.dials = Resolved(e, plane.url)
      /\ rung.client.sends = Credential(rung, rung.byok, w, m)
  <2> HIDE DEF rung, w, m
  <2> QED BY <1>4 DEF Client
<1>10. rung.client.dials # Absent
  BY <1>5, <1>8, <1>9 DEF Ready
<1>11. plane.adapter \in {"chat", "runtime"} => rung.client.dials.host # "implied"
  <2> SUFFICES ASSUME plane.adapter \in {"chat", "runtime"}
               PROVE  rung.client.dials.host # "implied"
    OBVIOUS
  <2> DEFINE u == plane.url
  <2>1. u # Absent /\ u.host # "implied" /\ Resolved(e, u) # Absent
    BY <1>5, <1>9, <1>10
  <2> HIDE DEF u, e
  <2>2. Resolved(e, u) = [host |-> u.host, places |-> {Read(e[a]) : a \in u.asks}]
    BY <2>1 DEF Resolved
  <2>3. Resolved(e, u).host = u.host
    BY <2>2
  <2> QED BY <1>9, <2>1, <2>3 DEF u, e
<1>12. rung.byok => rung.client.sends = w[rung.provider].key
  BY <1>9 DEF Credential
<1>13. ASSUME ~rung.byok, ~e.keyless
       PROVE  rung.client.sends = IF e.mints THEN "token" ELSE Read(e.credential)
  <2>1. Credential(rung, rung.byok, w, m) = House(e, m)
    BY <1>13 DEF Credential
  <2>2. House(e, m) # Absent
    BY <1>8, <1>13, <2>1 DEF Ready
  <2>3. e = Named(c.provider)
    BY <1>3
  <2> HIDE DEF e, m, t
  <2>4. House(e, m) = IF e.mints THEN "token" ELSE Read(e.credential)
    BY <1>2, <1>13, <2>2, <2>3, HouseSends
  <2> QED BY <1>9, <2>1, <2>4
<1> HIDE DEF rung, e, plane, w
<1> QED BY <1>7, <1>9, <1>10, <1>11, <1>12, <1>13 DEF rung, e, plane, w

LEMMA AttestedRight == Supplied => GuaranteeAsserted
<1> SUFFICES ASSUME Supplied, up, given # Absent, NEW r \in DOMAIN given.rungs
             PROVE  LET rung == given.rungs[r] IN
                    rung.client.attests <=> Named(rung.provider).header # Absent /\ ~rung.byok
  BY DEF GuaranteeAsserted
<1> DEFINE rung == given.rungs[r]
           e == Named(rung.provider)
<1>1. /\ rung.client = Client(rung, rung.byok, given.wallet, given.minted)
      /\ Sound(e) /\ Addressed(e)
      /\ rung.surface # Absent => rung.surface \in DOMAIN e.surfaces
  BY RungKnown
<1>2. e.header # Absent => Plane(e, rung.surface).adapter = "chat"
  BY <1>1, PlaneKnown
<1>3. rung.client.attests
        <=> e.header # Absent /\ Plane(e, rung.surface).adapter = "chat" /\ ~rung.byok
  <2> HIDE DEF rung
  <2> DEFINE p == Plane(e, rung.surface)
             sends == Credential(rung, rung.byok, given.wallet, given.minted)
  <2>1. PICK b \in BOOLEAN : b = (e.header # Absent /\ p.adapter = "chat" /\ ~rung.byok)
    OBVIOUS
  <2>2. rung.client = [adapter |-> p.adapter, dials |-> Resolved(e, p.url),
                       sends |-> sends, attests |-> b]
    BY <1>1, <2>1, Zenon DEF Client
  <2> HIDE DEF p, sends, e
  <2>3. rung.client.attests = b
    BY <2>2
  <2> QED BY <2>1, <2>3 DEF p
<1> QED BY <1>2, <1>3

LEMMA HomeRight == Supplied => ShippedKeysStayHome
<1> SUFFICES ASSUME Supplied, up, given # Absent, NEW r \in DOMAIN given.rungs,
                    NEW e \in Shipped
             PROVE  /\ ~given.rungs[r].byok /\ e.credential # Absent
                       /\ Named(given.rungs[r].provider).credential = e.credential =>
                         Named(given.rungs[r].provider) = e
                    /\ given.rungs[r].provider = e.key => Named(e.key) = e
  BY DEF ShippedKeysStayHome
<1>1. Named(given.rungs[r].provider) \in Entries
  BY RungKnown
<1>2. e \in Entries
  BY DEF Entries
<1>3. Named(e.key) \in Entries /\ Named(e.key).key = e.key
  BY <1>2 DEF Named
<1> QED BY <1>1, <1>2, <1>3, EntriesRight

-----------------------------------------------------------------------------
(* The relations an order is read by.                                      *)

Rows == DOMAIN Offered

\* The expected cost, where it ranks.
CostOf(p) ==
    IF ByCost /\ ~IsFree(LaneOf(p)) /\ Cold \notin Range(costs)
      THEN costs[AntiFunction(Priced)[p]] ELSE 0

CostThenTable ==
    {x \in Rows \X Rows : \/ CostOf(x[1]) < CostOf(x[2])
                          \/ CostOf(x[1]) = CostOf(x[2]) /\ x[1] < x[2]}

AsSorted == Finer(CostThenTable, IF ByCost THEN FreeOnes ELSE Rows, Rows)
AsAsked == Finer(AsSorted, Healthy, Rows)
AsFit == IF ByCost THEN Finer(AsAsked, Able, Rows) ELSE AsAsked
AsRead == IF request.tier.routed THEN Finer(AsFit, Unretained, Rows) ELSE AsFit

\* Every rung once, in that order.
Whole(s, r) ==
    s \in Seq(Rows) /\ Len(s) = Len(Offered) /\ Range(s) = Rows /\ Ranked(s, r)

Requests ==
    [stage : {"pricing", "ranking", "ordered"}, tier : Routes, shape : Shapes,
     shared : Cells, priority : Priorities]

Ordering ==
    /\ Stage \in {"pricing", "ranking", "ordered"} => request \in Requests
    /\ Stage = "ranking" => Whole(order, AsSorted)
    /\ Stage = "ordered" =>
         /\ Whole(order, AsRead)
         /\ labels = IF request.shape.stream THEN Unanimous(order) ELSE {}
    /\ LabelledAsServed

LEMMA OrderingStarts == SelectionInit => Ordering
  BY DEF SelectionInit, Ordering, Stage, None, LabelledAsServed

\* What is offered is a route of the catalog.
LEMMA OfferedTyped ==
    ASSUME request \in Requests
    PROVE  /\ Offered \in Seq([id : DOMAIN Lanes, byok : BOOLEAN])
           /\ Rows = 1..Len(Offered) /\ Len(Offered) \in Nat
           /\ \A p \in Rows : Offered[p] \in [id : DOMAIN Lanes, byok : BOOLEAN]
<1>1. request.tier \in Routes
  BY DEF Requests
<1>2. Offered \in Seq([id : DOMAIN Lanes, byok : BOOLEAN])
  BY <1>1, SelectionAssumption DEF Offered
<1>3. Rows = 1..Len(Offered) /\ Len(Offered) \in Nat
  BY <1>2 DEF Rows
<1>4. ASSUME NEW p \in Rows PROVE Offered[p] \in [id : DOMAIN Lanes, byok : BOOLEAN]
  <2> DEFINE R == [id : DOMAIN Lanes, byok : BOOLEAN]
  <2> HIDE DEF R
  <2>1. Offered \in Seq(R) /\ p \in 1..Len(Offered)
    BY <1>2, <1>3 DEF R
  <2>2. Offered[p] \in R
    BY <2>1
  <2> QED BY <2>2 DEF R
<1> QED BY <1>2, <1>3, <1>4

\* Nothing an order is read by moves with the stage.
LEMMA ReadStays ==
    ASSUME request'.tier = request.tier, request'.shape = request.shape,
           request'.priority = request.priority,
           costs' = costs
    PROVE  /\ Offered' = Offered /\ Rows' = Rows /\ AsSorted' = AsSorted
           /\ demoted' = demoted => AsRead' = AsRead
           /\ \A positions : Unanimous(positions)' = Unanimous(positions)
<1>1. Offered' = Offered /\ (ByCost' <=> ByCost) /\ Rows' = Rows
  BY DEF Offered, ByCost, Rows
<1>2. FreeOnes' = FreeOnes /\ Unretained' = Unretained /\ Able' = Able
  BY <1>1 DEF FreeOnes, Unretained, Able, LaneOf
<1>3. Priced' = Priced
  BY <1>1, <1>2 DEF Priced, Places
<1>4. \A p : CostOf(p)' = CostOf(p)
  BY <1>1, <1>3 DEF CostOf, LaneOf
<1>5. CostThenTable' = CostThenTable
  BY <1>1, <1>4 DEF CostThenTable
<1>6. AsSorted' = AsSorted
  BY <1>1, <1>2, <1>5 DEF AsSorted
<1>7. demoted' = demoted => AsRead' = AsRead
  <2> SUFFICES ASSUME demoted' = demoted PROVE AsRead' = AsRead
    OBVIOUS
  <2>1. Healthy' = Healthy
    BY <1>1 DEF Healthy
  <2>2. AsAsked' = AsAsked
    BY <1>1, <1>6, <2>1 DEF AsAsked
  <2>3. AsFit' = AsFit
    BY <1>1, <1>2, <2>2 DEF AsFit
  <2> QED BY <1>1, <1>2, <2>3 DEF AsRead
<1>8. \A p : LabelOf(p)' = LabelOf(p)
  BY <1>1 DEF LabelOf, LaneOf
<1>9. \A positions : Unanimous(positions)' = Unanimous(positions)
  BY <1>8 DEF Unanimous
<1> QED BY <1>1, <1>6, <1>7, <1>9

\* The table as it stands is whole, in its own order.
LEMMA PlacesWhole ==
    ASSUME request \in Requests
    PROVE  /\ Places \in Seq(Rows) /\ Len(Places) = Len(Offered)
           /\ \A p \in Rows : p \in Nat /\ Places[p] = p
           /\ Range(Places) = Rows
           /\ \A i, j \in 1..Len(Places) : i < j <=> Places[i] < Places[j]
<1>1. Rows = 1..Len(Offered) /\ Len(Offered) \in Nat
  BY OfferedTyped
<1>2. Places = [p \in 1..Len(Offered) |-> p]
  BY <1>1 DEF Places, Rows
<1>3. Places \in Seq(Rows) /\ Len(Places) = Len(Offered)
  BY <1>1, <1>2
<1>4. \A p \in Rows : p \in Nat /\ Places[p] = p
  BY <1>1, <1>2
<1>5. Range(Places) = Rows
  BY <1>1, <1>2 DEF Range
<1> QED BY <1>1, <1>3, <1>4, <1>5

\* The priced rungs are the rest, in the order of the table.
LEMMA PricedWhole ==
    ASSUME request \in Requests
    PROVE  /\ Priced \in Seq(Rows) /\ Among(Places, FreeOnes) \in Seq(Rows)
           /\ \A i, j \in 1..Len(Priced) : i < j => Priced[i] < Priced[j]
           /\ \A i \in 1..Len(Priced) : Priced[i] \in Rows /\ Priced[i] \notin FreeOnes
           /\ \A x : x \in Range(Priced) <=> x \in Rows /\ x \notin FreeOnes
           /\ \A i, j \in 1..Len(Among(Places, FreeOnes)) :
                i < j => Among(Places, FreeOnes)[i] < Among(Places, FreeOnes)[j]
           /\ \A i \in 1..Len(Among(Places, FreeOnes)) :
                /\ Among(Places, FreeOnes)[i] \in Rows
                /\ Among(Places, FreeOnes)[i] \in FreeOnes
           /\ \A x : x \in Range(Among(Places, FreeOnes)) <=> x \in Rows /\ x \in FreeOnes
           /\ Len(Among(Places, FreeOnes)) + Len(Priced) = Len(Offered)
<1> DEFINE r == {x \in Rows \X Rows : x[1] < x[2]}
           a == Among(Places, FreeOnes)
<1>1. /\ Places \in Seq(Rows) /\ Len(Places) = Len(Offered) /\ Range(Places) = Rows
      /\ Rows = 1..Len(Offered) /\ \A p \in Rows : p \in Nat /\ Places[p] = p
  BY PlacesWhole, OfferedTyped
<1>2. Ranked(Places, r)
  <2> SUFFICES ASSUME NEW i \in 1..Len(Places), NEW j \in 1..Len(Places), i < j
               PROVE  <<Places[i], Places[j]>> \in r
    BY DEF Ranked
  <2>1. i \in Rows /\ j \in Rows
    BY <1>1
  <2>2. Places[i] = i /\ Places[j] = j
    BY <1>1, <2>1
  <2>3. <<i, j>> \in r
    BY <2>1
  <2> QED BY <2>2, <2>3
<1>3. \A x, y : <<x, y>> \in r => x < y
  OBVIOUS
<1> HIDE DEF r
<1>4. /\ a \in Seq(Rows) /\ Ranked(a, r) /\ \A i \in 1..Len(a) : a[i] \in FreeOnes
      /\ \A x : x \in Range(a) <=> x \in Range(Places) /\ x \in FreeOnes
  BY <1>1, <1>2, AmongSorted
<1>5. /\ Priced \in Seq(Rows) /\ Ranked(Priced, r)
      /\ \A i \in 1..Len(Priced) : Priced[i] \in Rows \ FreeOnes
      /\ \A x : x \in Range(Priced) <=> x \in Range(Places) /\ x \in Rows \ FreeOnes
  BY <1>1, <1>2, AmongSorted DEF Priced, Rows
<1>6. Len(a) + Len(Priced) = Len(Offered)
  <2>1. \A i \in 1..Len(Places) : Places[i] \in FreeOnes <=> Places[i] \notin Rows \ FreeOnes
    BY <1>1
  <2> QED BY <1>1, <2>1, AmongSplits DEF Priced, Rows
<1> HIDE DEF a
<1>7. \A i, j \in 1..Len(a) : i < j => a[i] < a[j]
  BY <1>3, <1>4 DEF Ranked
<1>8. \A i, j \in 1..Len(Priced) : i < j => Priced[i] < Priced[j]
  BY <1>3, <1>5 DEF Ranked
<1>9. \A i \in 1..Len(a) : a[i] \in Rows
  BY <1>4
<1> QED BY <1>1, <1>4, <1>5, <1>6, <1>7, <1>8, <1>9 DEF a

\* The expected cost of a priced rung is the one looked up for it.
LEMMA CostOfPriced ==
    ASSUME request \in Requests, ByCost, Cold \notin Range(costs),
           NEW n \in 1..Len(Priced)
    PROVE  CostOf(Priced[n]) = costs[n]
<1>1. /\ Priced \in Seq(Rows)
      /\ \A i, j \in 1..Len(Priced) : i < j => Priced[i] < Priced[j]
      /\ \A i \in 1..Len(Priced) : Priced[i] \in Rows /\ Priced[i] \notin FreeOnes
      /\ \A p \in Rows : p \in Nat
  BY PricedWhole, PlacesWhole
<1>2. DOMAIN Priced = 1..Len(Priced) /\ Len(Priced) \in Nat
  BY <1>1
<1>3. \A i \in 1..Len(Priced) : Priced[i] = Priced[n] => i = n
  <2> SUFFICES ASSUME NEW i \in 1..Len(Priced), i # n PROVE Priced[i] # Priced[n]
    OBVIOUS
  <2>1. i < n \/ n < i
    BY <1>2
  <2>2. Priced[i] \in Nat /\ Priced[n] \in Nat
    BY <1>1
  <2>3. Priced[i] < Priced[n] \/ Priced[n] < Priced[i]
    BY <1>1, <2>1
  <2> QED BY <2>2, <2>3
<1>4. Priced[n] \in Range(Priced)
  BY <1>2 DEF Range
<1>5. AntiFunction(Priced)[Priced[n]] = n
  <2>1. AntiFunction(Priced)[Priced[n]]
          = CHOOSE i \in DOMAIN Priced : Priced[n] \in Range(Priced) => Priced[i] = Priced[n]
    BY <1>4 DEF AntiFunction, Inverse
  <2> QED BY <1>2, <1>3, <1>4, <2>1
<1>6. ~IsFree(LaneOf(Priced[n]))
  BY <1>1 DEF FreeOnes, Rows
<1> QED BY <1>5, <1>6 DEF CostOf

\* However it is sorted, no rung is lost or doubled, and they stand by cost and table.
LEMMA SortOrders ==
    ASSUME request \in Requests, Sort
    PROVE  Whole(order', AsSorted)
<1> DEFINE a == Among(Places, FreeOnes)
           N == Len(Priced)
<1>1. /\ Places \in Seq(Rows) /\ Len(Places) = Len(Offered) /\ Range(Places) = Rows
      /\ \A p \in Rows : p \in Nat /\ Places[p] = p
      /\ Rows = 1..Len(Offered) /\ Len(Offered) \in Nat
  BY PlacesWhole, OfferedTyped
<1>2. \A x, y \in Rows : <<x, y>> \in CostThenTable <=>
         CostOf(x) < CostOf(y) \/ (CostOf(x) = CostOf(y) /\ x < y)
  BY DEF CostThenTable
<1>3. CASE ~ByCost /\ order' = Places
  <2>1. \A p : CostOf(p) = 0
    BY <1>3 DEF CostOf
  <2>2. \A x, y \in Rows : x < y => <<x, y>> \in AsSorted
    BY <1>2, <1>3, <2>1 DEF AsSorted, Finer
  <2>3. Ranked(Places, AsSorted)
    <3> SUFFICES ASSUME NEW i \in 1..Len(Places), NEW j \in 1..Len(Places), i < j
                 PROVE  <<Places[i], Places[j]>> \in AsSorted
      BY DEF Ranked
    <3>1. i \in Rows /\ j \in Rows /\ Places[i] = i /\ Places[j] = j
      BY <1>1
    <3> QED BY <2>2, <3>1
  <2> QED BY <1>1, <1>3, <2>3 DEF Whole
<1>4. ASSUME ByCost, NEW b \in Seq(Rows), order' = a \o b, Len(b) = N,
             \A x : x \in Range(b) <=> x \in Rows /\ x \notin FreeOnes,
             \A i, j \in 1..Len(b) : i < j => <<b[i], b[j]>> \in CostThenTable
      PROVE  Whole(order', AsSorted)
  <2>1. /\ a \in Seq(Rows) /\ Len(a) + N = Len(Offered)
        /\ \A x : x \in Range(a) <=> x \in Rows /\ x \in FreeOnes
        /\ \A i, j \in 1..Len(a) : i < j => a[i] < a[j]
        /\ \A i \in 1..Len(a) : a[i] \in Rows /\ a[i] \in FreeOnes
    BY PricedWhole
  <2> HIDE DEF a
  <2>2. Ranked(a, CostThenTable)
    <3>1. \A p \in FreeOnes : CostOf(p) = 0
      BY DEF CostOf, FreeOnes
    <3> QED BY <1>2, <2>1, <3>1 DEF Ranked
  <2>3. Ranked(b, CostThenTable)
    BY <1>4 DEF Ranked
  <2>4. \A i \in 1..Len(b) : b[i] \notin FreeOnes
    <3>1. \A i \in 1..Len(b) : b[i] \in Range(b)
      BY DEF Range
    <3> QED BY <1>4, <3>1
  <2>5. /\ a \o b \in Seq(Rows) /\ Len(a \o b) = Len(a) + Len(b)
        /\ \A x : x \in Range(a \o b) <=> x \in Range(a) \/ x \in Range(b)
        /\ Ranked(a \o b, Finer(CostThenTable, FreeOnes, Rows))
    BY <2>1, <2>2, <2>3, <2>4, JoinedOrder
  <2>6. AsSorted = Finer(CostThenTable, FreeOnes, Rows)
    BY <1>4 DEF AsSorted
  <2>7. Range(a \o b) = Rows
    <3>1. \A x : x \in Range(a \o b) <=> x \in Rows
      BY <1>4, <2>1, <2>5
    <3> QED BY <3>1
  <2> QED BY <1>4, <2>1, <2>5, <2>6, <2>7 DEF Whole
<1>p. /\ Priced \in Seq(Rows) /\ N \in Nat /\ DOMAIN Priced = 1..N
      /\ \A i, j \in 1..N : i < j => Priced[i] < Priced[j]
      /\ \A i \in 1..N : Priced[i] \in Rows /\ Priced[i] \notin FreeOnes
      /\ \A x : x \in Range(Priced) <=> x \in Rows /\ x \notin FreeOnes
  BY PricedWhole
<1>5. CASE ByCost /\ Cold \in Range(costs) /\ order' = FreeFirst(Priced)
  <2>1. order' = a \o Priced
    BY <1>5 DEF FreeFirst
  <2>2. \A p : CostOf(p) = 0
    BY <1>5 DEF CostOf
  <2>3. \A i, j \in 1..N : i < j => <<Priced[i], Priced[j]>> \in CostThenTable
    BY <1>2, <1>p, <2>2
  <2> HIDE DEF a
  <2> QED BY <1>4, <1>5, <1>p, <2>1, <2>3
<1>6. CASE /\ ByCost /\ Cold \notin Range(costs)
           /\ \E by \in Ascending : order' = FreeFirst([n \in DOMAIN Priced |-> Priced[by[n]]])
  <2>1. PICK by \in Ascending : order' = FreeFirst([n \in DOMAIN Priced |-> Priced[by[n]]])
    BY <1>6
  <2> DEFINE b == [n \in 1..N |-> Priced[by[n]]]
  <2>2. order' = a \o b
    BY <1>p, <2>1 DEF FreeFirst
  <2>3. /\ by \in [1..N -> 1..N] /\ Range(by) = 1..N
        /\ \A m, n \in 1..N : m < n => Cheaper(by[m], by[n])
    BY <1>p, <2>1 DEF Ascending
  <2>4. b \in Seq(Rows) /\ Len(b) = N /\ \A n \in 1..N : b[n] = Priced[by[n]]
    BY <1>p, <2>3
  <2>5. DOMAIN b = 1..N
    OBVIOUS
  <2> HIDE DEF b
  <2>6. \A x : x \in Range(b) <=> x \in Rows /\ x \notin FreeOnes
    <3>1. \A x : x \in Range(b) <=> \E n \in 1..N : x = b[n]
      BY <2>5 DEF Range
    <3>2. \A x : x \in Range(Priced) <=> \E n \in 1..N : x = Priced[n]
      BY <1>p DEF Range
    <3>3. \A m \in 1..N : \E n \in 1..N : by[n] = m
      BY <2>3 DEF Range
    <3>4. \A n \in 1..N : b[n] \in Range(Priced)
      BY <2>3, <2>4, <3>2
    <3>5. \A m \in 1..N : Priced[m] \in Range(b)
      <4> SUFFICES ASSUME NEW m \in 1..N PROVE Priced[m] \in Range(b)
        OBVIOUS
      <4>1. PICK n \in 1..N : by[n] = m
        BY <3>3
      <4> QED BY <2>4, <3>1, <4>1
    <3>6. \A x : x \in Range(b) <=> x \in Range(Priced)
      BY <3>1, <3>2, <3>4, <3>5
    <3> QED BY <1>p, <3>6
  <2>7. ASSUME NEW i \in 1..N, NEW j \in 1..N, i < j
        PROVE  <<b[i], b[j]>> \in CostThenTable
    <3> DEFINE m == by[i]
               n == by[j]
    <3>1. m \in 1..N /\ n \in 1..N /\ Cheaper(m, n)
      BY <2>3, <2>7
    <3> HIDE DEF m, n
    <3>2. CostOf(Priced[m]) = costs[m] /\ CostOf(Priced[n]) = costs[n]
      BY <1>6, <3>1, CostOfPriced
    <3>3. Priced[m] \in Rows /\ Priced[n] \in Rows
      BY <1>p, <3>1
    <3>4. CASE costs[m] < costs[n]
      <4>1. <<Priced[m], Priced[n]>> \in CostThenTable
        BY <1>2, <3>2, <3>3, <3>4
      <4> QED BY <2>4, <4>1 DEF m, n
    <3>5. CASE costs[m] = costs[n] /\ m < n
      <4>1. Priced[m] < Priced[n]
        BY <1>p, <3>1, <3>5
      <4>2. <<Priced[m], Priced[n]>> \in CostThenTable
        BY <1>2, <3>2, <3>3, <3>5, <4>1
      <4> QED BY <2>4, <4>2 DEF m, n
    <3> QED BY <3>1, <3>4, <3>5 DEF Cheaper
  <2> HIDE DEF a
  <2> QED BY <1>4, <1>6, <2>2, <2>4, <2>6, <2>7
<1> QED BY <1>3, <1>5, <1>6 DEF Sort

\* The stable partitions keep the order whole and read it by one thing more each.
LEMMA ArrangedWhole ==
    ASSUME request \in Requests, Whole(order, AsSorted)
    PROVE  Whole(Arranged, AsRead)
<1> DEFINE healthy == FirstThose(order, Healthy)
           eligible == IF ByCost THEN FirstThose(healthy, Able) ELSE healthy
<1>1. Whole(healthy, AsAsked)
  <2>1. /\ FirstThose(order, Healthy) \in Seq(Rows)
        /\ Len(FirstThose(order, Healthy)) = Len(order)
        /\ Range(FirstThose(order, Healthy)) = Range(order)
        /\ Ranked(FirstThose(order, Healthy), Finer(AsSorted, Healthy, Rows))
    BY PartitionOrdered DEF Whole
  <2> QED BY <2>1 DEF Whole, AsAsked
<1> HIDE DEF healthy
<1>2. Whole(eligible, AsFit)
  <2>1. /\ FirstThose(healthy, Able) \in Seq(Rows)
        /\ Len(FirstThose(healthy, Able)) = Len(healthy)
        /\ Range(FirstThose(healthy, Able)) = Range(healthy)
        /\ Ranked(FirstThose(healthy, Able), Finer(AsAsked, Able, Rows))
    BY <1>1, PartitionOrdered DEF Whole
  <2>2. CASE ByCost
    <3>1. Whole(FirstThose(healthy, Able), Finer(AsAsked, Able, Rows))
      BY <1>1, <2>1 DEF Whole
    <3> QED BY <2>2, <3>1 DEF AsFit
  <2>3. CASE ~ByCost
    BY <1>1, <2>3 DEF AsFit
  <2> QED BY <2>2, <2>3
<1>3. Arranged = IF request.tier.routed THEN FirstThose(eligible, Unretained) ELSE eligible
  BY DEF Arranged, healthy
<1> HIDE DEF eligible
<1>4. /\ FirstThose(eligible, Unretained) \in Seq(Rows)
      /\ Len(FirstThose(eligible, Unretained)) = Len(eligible)
      /\ Range(FirstThose(eligible, Unretained)) = Range(eligible)
      /\ Ranked(FirstThose(eligible, Unretained), Finer(AsFit, Unretained, Rows))
  BY <1>2, PartitionOrdered DEF Whole
<1>5. CASE request.tier.routed
  <2>1. Whole(FirstThose(eligible, Unretained), Finer(AsFit, Unretained, Rows))
    BY <1>2, <1>4 DEF Whole
  <2> QED BY <1>3, <1>5, <2>1 DEF AsRead
<1>6. CASE ~request.tier.routed
  BY <1>2, <1>3, <1>6 DEF AsRead
<1> QED BY <1>5, <1>6

\* Six columns, the first of which to differ decides.
LEMMA SixColumns ==
    ASSUME NEW a1, NEW a2, NEW a3, NEW a4, NEW a5, NEW a6,
           NEW b1, NEW b2, NEW b3, NEW b4, NEW b5, NEW b6,
           \/ a1 < b1
           \/ a1 = b1 /\ a2 < b2
           \/ a1 = b1 /\ a2 = b2 /\ a3 < b3
           \/ a1 = b1 /\ a2 = b2 /\ a3 = b3 /\ a4 < b4
           \/ a1 = b1 /\ a2 = b2 /\ a3 = b3 /\ a4 = b4 /\ a5 < b5
           \/ a1 = b1 /\ a2 = b2 /\ a3 = b3 /\ a4 = b4 /\ a5 = b5 /\ a6 < b6
    PROVE  Precedes(<<a1, a2, a3, a4, a5, a6>>, <<b1, b2, b3, b4, b5, b6>>)
<1> DEFINE a == <<a1, a2, a3, a4, a5, a6>>
           b == <<b1, b2, b3, b4, b5, b6>>
<1>1. /\ DOMAIN a = 1..6
      /\ a[1] = a1 /\ a[2] = a2 /\ a[3] = a3 /\ a[4] = a4 /\ a[5] = a5 /\ a[6] = a6
      /\ b[1] = b1 /\ b[2] = b2 /\ b[3] = b3 /\ b[4] = b4 /\ b[5] = b5 /\ b[6] = b6
  OBVIOUS
<1> HIDE DEF a, b
<1>2. /\ a[1] < b[1] => Precedes(a, b)
      /\ a[1] = b[1] /\ a[2] < b[2] => Precedes(a, b)
      /\ a[1] = b[1] /\ a[2] = b[2] /\ a[3] < b[3] => Precedes(a, b)
      /\ a[1] = b[1] /\ a[2] = b[2] /\ a[3] = b[3] /\ a[4] < b[4] => Precedes(a, b)
      /\ a[1] = b[1] /\ a[2] = b[2] /\ a[3] = b[3] /\ a[4] = b[4] /\ a[5] < b[5]
           => Precedes(a, b)
      /\ a[1] = b[1] /\ a[2] = b[2] /\ a[3] = b[3] /\ a[4] = b[4] /\ a[5] = b[5] /\ a[6] < b[6]
           => Precedes(a, b)
  <2>1. ASSUME NEW n \in 1..6, a[n] < b[n], \A m \in 1..(n - 1) : a[m] = b[m]
        PROVE  Precedes(a, b)
    BY <1>1, <2>1 DEF Precedes
  <2>2. a[1] < b[1] => Precedes(a, b)
    BY <2>1
  <2>3. a[1] = b[1] /\ a[2] < b[2] => Precedes(a, b)
    BY <2>1
  <2>4. a[1] = b[1] /\ a[2] = b[2] /\ a[3] < b[3] => Precedes(a, b)
    BY <2>1
  <2>5. a[1] = b[1] /\ a[2] = b[2] /\ a[3] = b[3] /\ a[4] < b[4] => Precedes(a, b)
    BY <2>1
  <2>6. a[1] = b[1] /\ a[2] = b[2] /\ a[3] = b[3] /\ a[4] = b[4] /\ a[5] < b[5]
          => Precedes(a, b)
    BY <2>1
  <2>7. a[1] = b[1] /\ a[2] = b[2] /\ a[3] = b[3] /\ a[4] = b[4] /\ a[5] = b[5] /\ a[6] < b[6]
          => Precedes(a, b)
    BY <2>1
  <2> QED BY <2>2, <2>3, <2>4, <2>5, <2>6, <2>7
<1>3. Precedes(a, b)
  BY <1>1, <1>2, Zenon
<1> QED BY <1>3 DEF a, b

\* What stands ahead by the relation stands ahead by the columns.
LEMMA ReadPrecedes ==
    ASSUME request \in Requests, NEW p \in Rows, NEW q \in Rows, <<p, q>> \in AsRead
    PROVE  Precedes(Column(p), Column(q))
<1> DEFINE Bit(holds) == IF holds THEN 0 ELSE 1
           Quiet(x) == Bit(request.tier.routed => LaneOf(x).posture = "zero")
           Fit(x) == Bit(ByCost => CanServe(LaneOf(x), request.shape))
           Well(x) == Bit(x \notin demoted)
           Gift(x) == Bit(ByCost => IsFree(LaneOf(x)))
<1>1. \A x : Column(x) = <<Quiet(x), Fit(x), Well(x), Gift(x), CostOf(x), x>>
  BY DEF Column, CostOf
<1> DEFINE First(S) == p \in S /\ q \notin S
           Alike(S) == p \in S <=> q \in S
<1>3. \A r, S : <<p, q>> \in Finer(r, S, Rows) => First(S) \/ (Alike(S) /\ <<p, q>> \in r)
  BY DEF Finer
<1>4. /\ First(Unretained) /\ request.tier.routed => Quiet(p) < Quiet(q)
      /\ Alike(Unretained) => Quiet(p) = Quiet(q)
      /\ ~request.tier.routed => Quiet(p) = Quiet(q)
  BY DEF Unretained, OrderingRank, Rows
<1>5. /\ First(Able) /\ ByCost => Fit(p) < Fit(q)
      /\ Alike(Able) => Fit(p) = Fit(q)
      /\ ~ByCost => Fit(p) = Fit(q)
  BY DEF Able, Rows
<1>6. First(Healthy) => Well(p) < Well(q)
  BY DEF Healthy, Rows
<1>7. Alike(Healthy) => Well(p) = Well(q)
  BY DEF Healthy, Rows
<1>8. /\ First(IF ByCost THEN FreeOnes ELSE Rows) => Gift(p) < Gift(q)
      /\ Alike(IF ByCost THEN FreeOnes ELSE Rows) => Gift(p) = Gift(q)
  BY DEF FreeOnes, Rows
<1> HIDE DEF Quiet, Fit, Well, Gift, First, Alike
<1>9. <<p, q>> \in CostThenTable => CostOf(p) < CostOf(q) \/ (CostOf(p) = CostOf(q) /\ p < q)
  BY DEF CostThenTable
<1>10. \/ Quiet(p) < Quiet(q)
       \/ Quiet(p) = Quiet(q) /\ <<p, q>> \in AsFit
  BY <1>3, <1>4 DEF AsRead
<1>11. <<p, q>> \in AsFit => \/ Fit(p) < Fit(q)
                             \/ Fit(p) = Fit(q) /\ <<p, q>> \in AsAsked
  BY <1>3, <1>5 DEF AsFit
<1>12. <<p, q>> \in AsAsked => \/ Well(p) < Well(q)
                               \/ Well(p) = Well(q) /\ <<p, q>> \in AsSorted
  BY <1>3, <1>6, <1>7 DEF AsAsked
<1>13. <<p, q>> \in AsSorted => \/ Gift(p) < Gift(q)
                                \/ Gift(p) = Gift(q) /\ <<p, q>> \in CostThenTable
  BY <1>3, <1>8 DEF AsSorted
<1>14. Precedes(<<Quiet(p), Fit(p), Well(p), Gift(p), CostOf(p), p>>,
                <<Quiet(q), Fit(q), Well(q), Gift(q), CostOf(q), q>>)
  BY <1>9, <1>10, <1>11, <1>12, <1>13, SixColumns
<1> QED BY <1>1, <1>14

\* An order the invariant keeps is the one the documents rank.
LEMMA OrderedRight == Ordering => OrderedAsRead
<1> SUFFICES ASSUME Ordering, Stage = "ordered"
             PROVE  /\ Len(order) = Len(Offered) /\ Range(order) = DOMAIN Offered
                    /\ \A i, j \in DOMAIN order :
                         i < j => Precedes(Column(order[i]), Column(order[j]))
  BY DEF OrderedAsRead
<1>1. request \in Requests /\ Whole(order, AsRead)
  BY DEF Ordering
<1>2. order \in Seq(Rows) /\ Len(order) = Len(Offered) /\ Range(order) = Rows
  BY <1>1 DEF Whole
<1>3. ASSUME NEW i \in 1..Len(order), NEW j \in 1..Len(order), i < j
      PROVE  Precedes(Column(order[i]), Column(order[j]))
  <2>1. <<order[i], order[j]>> \in AsRead
    BY <1>1, <1>3 DEF Whole, Ranked
  <2>2. order[i] \in Rows /\ order[j] \in Rows
    BY <1>2
  <2> QED BY <1>1, <2>1, <2>2, ReadPrecedes
<1>4. DOMAIN order = 1..Len(order)
  BY <1>2
<1> QED BY <1>2, <1>3, <1>4 DEF Rows

\* A tier advertises no more than each of its lanes declares.
LEMMA AdvertisedRight == Ordering => AdvertisedIsServable
<1> DEFINE narrowed == Narrowed([p \in DOMAIN Offered |-> LaneOf(p)])
           shape == request.shape
<1> SUFFICES ASSUME Ordering, Stage = "ordered",
                    narrowed.window # Undeclared, shape.size <= narrowed.window,
                    shape.tools => narrowed.tools = "yes",
                    narrowed.declares, shape.modalities \subseteq narrowed.modalities,
                    NEW p \in DOMAIN Offered
             PROVE  CanServe(LaneOf(p), shape)
  BY DEF AdvertisedIsServable
<1> DEFINE lanes == [q \in DOMAIN Offered |-> LaneOf(q)]
           all == Range(lanes)
           windows == {l.window : l \in all}
<1>1. request \in Requests
  BY DEF Ordering
<1>2. shape.size \in Nat
  BY <1>1, SelectionAssumption DEF Requests
<1>3. \A q \in DOMAIN Offered : Offered[q].id \in DOMAIN Lanes
  <2>1. \A q \in Rows : Offered[q] \in [id : DOMAIN Lanes, byok : BOOLEAN]
    BY <1>1, OfferedTyped
  <2> QED BY <2>1 DEF Rows
<1>4. LaneOf(p) \in all
  BY DEF Range
<1>5. windows \subseteq Nat \cup {Undeclared}
  BY <1>3, SelectionAssumption DEF LaneOf, Range
<1>6. /\ narrowed.window = IF Undeclared \in windows THEN Undeclared
                       ELSE CHOOSE w \in windows : \A v \in windows : w <= v
      /\ narrowed.tools = IF \E l \in all : l.tools = "unknown" THEN "unknown"
                      ELSE IF \E l \in all : l.tools = "no" THEN "no" ELSE "yes"
      /\ narrowed.declares <=> \A l \in all : l.modalities # {}
      /\ narrowed.modalities = {m \in UNION {l.modalities : l \in all} :
                               \A l \in all : m \in l.modalities}
  BY DEF Narrowed
<1>7. LaneOf(p).window \in windows
  BY <1>4
<1> HIDE DEF narrowed, all, windows, lanes, shape
<1>8. /\ LaneOf(p).window # Undeclared => shape.size <= LaneOf(p).window
  <2>1. Undeclared \notin windows
    BY <1>6
  <2>2. windows \subseteq Nat /\ windows # {}
    BY <1>5, <1>7, <2>1
  <2>3. PICK w \in windows : \A v \in windows : w <= v
    BY <2>2, LeastNatural
  <2>4. narrowed.window \in windows /\ \A v \in windows : narrowed.window <= v
    BY <1>6, <2>1, <2>3
  <2>5. narrowed.window \in Nat /\ LaneOf(p).window \in Nat /\ narrowed.window <= LaneOf(p).window
    BY <1>7, <2>2, <2>4
  <2> QED BY <1>2, <2>5
<1>9. shape.tools => LaneOf(p).tools # "no"
  BY <1>4, <1>6
<1>10. LaneOf(p).modalities # {} => shape.modalities \subseteq LaneOf(p).modalities
  BY <1>4, <1>6
<1> QED BY <1>8, <1>9, <1>10 DEF CanServe

\* The rung that answers has the labels of each where all have the same.
LEMMA AnswerLabelled ==
    ASSUME Ordering, Answer
    PROVE  Ordering'
<1>1. /\ request \in Requests /\ Whole(order, AsRead)
      /\ labels = IF request.shape.stream THEN Unanimous(order) ELSE {}
  BY DEF Answer, Ordering
<1>2. PICK p \in Range(order) :
         /\ labels' = IF request.shape.stream THEN labels ELSE {LabelOf(p)}
         /\ request' = [stage |-> "answered", tier |-> request.tier,
                        shape |-> request.shape, by |-> p]
  BY DEF Answer
<1>3. p \in Rows
  BY <1>1 DEF Whole
<1>4. labels' \subseteq {LabelOf(p)}
  BY <1>1, <1>2 DEF Unanimous
<1>5. request'.stage = "answered" /\ request'.tier = request.tier /\ request'.by = p
  BY <1>2
<1>6. Offered' = Offered
  BY <1>5 DEF Offered
<1>7. Offered[p] \in [id : DOMAIN Lanes, byok : BOOLEAN]
  BY <1>1, <1>3, OfferedTyped
<1>8. LaneOf(p).posture # "byok"
  BY <1>7, SelectionAssumption DEF LaneOf
<1>9. LabelledAsServed'
  <2> SUFFICES ASSUME NEW label \in labels'
               PROVE  /\ label.provider = LaneOf(p).provider
                      /\ label.byok = Offered[p].byok
                      /\ label.retention # "byok" => LaneOf(p).posture = label.retention
                      /\ label.retention = "byok" <=> Offered[p].byok
    BY <1>5, <1>6 DEF LabelledAsServed, LaneOf
  <2>1. label = LabelOf(p)
    BY <1>4
  <2> QED BY <1>7, <1>8, <2>1 DEF LabelOf
<1> QED BY <1>5, <1>9 DEF Ordering, Stage

\* Every step keeps the order whole and read as far as it has been.
LEMMA StepOrdering == Ordering /\ [SelectionNext]_selectionVars => Ordering'
<1> SUFFICES ASSUME Ordering, [SelectionNext]_selectionVars PROVE Ordering'
  OBVIOUS
<1>1. CASE Receive
  <2>1. request' = Refused \/ (request'.stage = "pricing" /\ request' \in Requests)
    BY <1>1, SelectionAssumption DEF Receive, Requests, Priorities, Resolution, Unchosen
  <2> QED BY <2>1 DEF Ordering, Stage, Refused, LabelledAsServed
<1>2. CASE PriceOne
  <2>1. Stage = "pricing" /\ request' = request
    BY <1>2 DEF PriceOne
  <2>2. request \in Requests
    BY <2>1 DEF Ordering
  <2> QED BY <2>1, <2>2 DEF Ordering, Stage, Requests, LabelledAsServed
<1>3. CASE Sort
  <2>1. /\ Stage = "pricing" /\ request' = [request EXCEPT !.stage = "ranking"]
        /\ costs' = costs
    BY <1>3 DEF Sort
  <2>2. request \in Requests
    BY <2>1 DEF Ordering
  <2>3. /\ request' \in Requests /\ request'.stage = "ranking"
        /\ request'.tier = request.tier /\ request'.shape = request.shape
        /\ request'.priority = request.priority
    BY <2>1, <2>2 DEF Requests
  <2>4. Offered' = Offered /\ Rows' = Rows /\ AsSorted' = AsSorted
    BY <2>1, <2>3, ReadStays
  <2>5. Whole(order', AsSorted)
    BY <1>3, <2>2, SortOrders
  <2>6. Whole(order, AsSorted)'
    BY <2>4, <2>5 DEF Whole
  <2> QED BY <2>3, <2>6 DEF Ordering, Stage, LabelledAsServed
<1>4. CASE AskHealth
  <2>1. Stage = "ranking" /\ request' = request /\ costs' = costs /\ order' = order
    BY <1>4 DEF AskHealth
  <2>2. request \in Requests /\ Whole(order, AsSorted)
    BY <2>1 DEF Ordering
  <2>3. Offered' = Offered /\ Rows' = Rows /\ AsSorted' = AsSorted
    BY <2>1, ReadStays
  <2>4. Whole(order, AsSorted)'
    BY <2>1, <2>2, <2>3 DEF Whole
  <2>5. request'.stage = "ranking"
    BY <2>1 DEF Stage
  <2> QED BY <2>1, <2>2, <2>4, <2>5 DEF Ordering, Stage, Requests, LabelledAsServed
<1>5. CASE Arrange
  <2>1. /\ Stage = "ranking" /\ order' = Arranged /\ costs' = costs /\ demoted' = demoted
        /\ labels' = IF request.shape.stream THEN Unanimous(Arranged) ELSE {}
        /\ request' = [request EXCEPT !.stage = "ordered"]
    BY <1>5 DEF Arrange
  <2>2. request \in Requests /\ Whole(order, AsSorted)
    BY <2>1 DEF Ordering
  <2>3. /\ request' \in Requests /\ request'.stage = "ordered"
        /\ request'.tier = request.tier /\ request'.shape = request.shape
        /\ request'.priority = request.priority
    BY <2>1, <2>2 DEF Requests
  <2>4. /\ Offered' = Offered /\ Rows' = Rows /\ AsRead' = AsRead
        /\ \A positions : Unanimous(positions)' = Unanimous(positions)
    BY <2>1, <2>3, ReadStays
  <2>5. PICK s : s = Arranged
    OBVIOUS
  <2>6. Whole(s, AsRead)
    BY <2>2, <2>5, ArrangedWhole
  <2>7. Whole(order, AsRead)'
    BY <2>1, <2>4, <2>5, <2>6 DEF Whole
  <2>8. Unanimous(s)' = Unanimous(s)
    BY <2>4
  <2>9. Unanimous(order)' = Unanimous(s)'
    BY <2>1, <2>5 DEF Unanimous
  <2>10. labels' = IF request'.shape.stream THEN Unanimous(order)' ELSE {}
    BY <2>1, <2>3, <2>5, <2>8, <2>9
  <2> QED BY <2>3, <2>7, <2>10 DEF Ordering, Stage, LabelledAsServed
<1>6. CASE Answer
  BY <1>6, AnswerLabelled
<1>7. CASE UNCHANGED selectionVars
  <2>1. request' = request /\ costs' = costs /\ order' = order /\ demoted' = demoted
        /\ labels' = labels
    BY <1>7 DEF selectionVars
  <2>2. /\ Offered' = Offered /\ Rows' = Rows /\ AsSorted' = AsSorted /\ AsRead' = AsRead
        /\ \A positions : Unanimous(positions)' = Unanimous(positions)
    BY <2>1, ReadStays
  <2>3. PICK s : s = order
    OBVIOUS
  <2>4. Unanimous(order)' = Unanimous(s)'
    BY <2>1, <2>3 DEF Unanimous
  <2>5. Unanimous(order)' = Unanimous(order)
    BY <2>2, <2>3, <2>4
  <2>6. Whole(order, AsSorted)' <=> Whole(order, AsSorted)
    BY <2>1, <2>2 DEF Whole
  <2>7. Whole(order, AsRead)' <=> Whole(order, AsRead)
    BY <2>1, <2>2 DEF Whole
  <2>8. LabelledAsServed'
    BY <2>1, <2>2 DEF Ordering, LabelledAsServed, LaneOf, Stage
  <2>9. Stage' = Stage /\ (request' \in Requests' <=> request \in Requests)
    BY <2>1 DEF Stage, Requests
  <2> QED BY <2>1, <2>5, <2>6, <2>7, <2>8, <2>9 DEF Ordering
<1> QED BY <1>1, <1>2, <1>3, <1>4, <1>5, <1>6, <1>7 DEF SelectionNext

-----------------------------------------------------------------------------
(* What a request is put behind.                                           *)

\* Whatever tables load and keys are attached, a route's rungs are the listed
\* ones, each dialled as it is billed and under the guarantee it is sold with;
\* they are walked in the order their declarations and what was read of them give,
\* under labels true of the rung that answers; and the house answers for a
\* customer's key only once that key failed (build_with_byok, order_candidates,
\* byok_fallback_for).
THEOREM RoutesAsDeclared ==
    Spec /\ InventorySpec /\ SelectionSpec => []RoutedAsDeclared
<1>1. Spec => []FallbackEarned
  BY FallbacksEarned
<1>2. InventorySpec => []Supplied
  BY InitSupplied, StepSupplied, PTL DEF InventorySpec
<1>3. SelectionSpec => []Ordering
  BY OrderingStarts, StepOrdering, PTL DEF SelectionSpec
<1>4. Supplied => RoutedAsListed /\ DialsAsBilled /\ GuaranteeAsserted /\ ShippedKeysStayHome
  BY ListedRight, BilledRight, AttestedRight, HomeRight
<1>5. Ordering => OrderedAsRead /\ LabelledAsServed /\ AdvertisedIsServable
  BY OrderedRight, AdvertisedRight DEF Ordering
<1>6. FallbackEarned /\ Supplied /\ Ordering => RoutedAsDeclared
  BY <1>4, <1>5 DEF RoutedAsDeclared
<1> QED BY <1>1, <1>2, <1>3, <1>6, PTL

-----------------------------------------------------------------------------
(* What the streams of upstreams report of their cost: one that speaks chat *)
(* completions, one that speaks Messages events.                            *)

-----------------------------------------------------------------------------
(* One stream of chat completions.                                         *)

ToolSlots == [id : Nat, pieces : Seq(Nat \X Nat)]

Fragments == [call : Nat, nr : Nat, id : Nat]

ChatYields ==
    [kind : {"call"}, pieces : Seq(Nat \X Nat)] \cup
    [kind : {"usage"}, usage : [Chat!Fields -> Nat \cup {Unstated}]] \cup [kind : {"final"}]

ChatTypes ==
    /\ stated \in Seq([Chat!Fields -> Nat \cup {Unstated}])
    /\ chatSent \in [Chat!Calls -> Nat]
    /\ usage \in [Chat!Fields -> Nat \cup {Unstated}]
    /\ tools \in Seq(ToolSlots)

\* What is accepted goes back to one snapshot, and can be billed if any can.
Traced ==
    /\ usage = Chat!Silent \/ \E i \in DOMAIN stated : Chat!StandsBehind(i, usage)
    /\ (\E i \in DOMAIN stated : Chat!Billable(stated[i]))
         /\ (\A i \in DOMAIN stated : Chat!Coherent(stated[i])) => Chat!Billable(usage)

\* Nothing is yielded while the stream is open, and one usage, the accepted one,
\* at its end.
BilledAtTheEnd ==
    /\ end = "open" => events = <<>>
    /\ end # "open" =>
         /\ Chat!Plausible(usage) /\ Chat!Billable(usage) =>
              \E i \in DOMAIN events : Chat!Bills = {i} /\ events[i].usage = usage
         /\ ~(Chat!Plausible(usage) /\ Chat!Billable(usage)) => Chat!Bills = {}

ChatInvariant == ChatTypes /\ Traced /\ BilledAtTheEnd

\* What is accepted was stated.
LEMMA AcceptedWasStated ==
    ASSUME Chat!ChatAssumption, ChatTypes, Traced, NEW f \in Chat!Fields, usage[f] # Unstated
    PROVE  \E i \in DOMAIN stated : usage[f] = stated[i][f]
<1>1. CASE usage = Chat!Silent
  BY <1>1 DEF Chat!Silent
<1>2. CASE \E i \in DOMAIN stated : Chat!StandsBehind(i, usage)
  <2>1. PICK i \in DOMAIN stated : Chat!StandsBehind(i, usage)
    BY <1>2
  <2>2. CASE Chat!States(stated[i], f)
    BY <2>1, <2>2 DEF Chat!StandsBehind
  <2>3. CASE ~Chat!States(stated[i], f)
    <3>1. PICK j \in 1..(i - 1) : usage[f] = stated[j][f]
      BY <2>1, <2>3 DEF Chat!StandsBehind
    <3>2. j \in DOMAIN stated
      BY <2>1, <3>1 DEF ChatTypes
    <3> QED BY <3>1, <3>2
  <2> QED BY <2>2, <2>3
<1> QED BY <1>1, <1>2 DEF Traced

\* A snapshot that stands behind a bill still does when another follows it.
LEMMA StandsOn ==
    ASSUME ChatTypes, NEW r \in [Chat!Fields -> Nat \cup {Unstated}], stated' = Append(stated, r),
           NEW i \in DOMAIN stated, NEW u, Chat!StandsBehind(i, u)
    PROVE  Chat!StandsBehind(i, u)'
<1>1. /\ DOMAIN stated' = 1..(Len(stated) + 1) /\ DOMAIN stated = 1..Len(stated)
      /\ \A j \in DOMAIN stated : stated'[j] = stated[j]
  BY DEF ChatTypes
<1>2. \A j \in 1..(i - 1) : j \in DOMAIN stated
  BY <1>1 DEF ChatTypes
<1> QED BY <1>1, <1>2 DEF Chat!StandsBehind, Chat!States

\* A snapshot is accepted or refused whole.
LEMMA AbsorbedWhole ==
    ASSUME Chat!ChatAssumption, ChatTypes, Traced,
           NEW r \in Reports, stated' = Append(stated, r), usage' = Chat!Absorbed(r)
    PROVE  Traced' /\ usage' \in [Chat!Fields -> Nat \cup {Unstated}]
<1>a. r \in [Chat!Fields -> Nat \cup {Unstated}]
  BY DEF Chat!ChatAssumption
<1>1. /\ DOMAIN stated' = 1..(Len(stated) + 1) /\ DOMAIN stated = 1..Len(stated)
      /\ Len(stated) \in Nat
      /\ \A j \in DOMAIN stated : stated'[j] = stated[j]
      /\ stated'[Len(stated) + 1] = r
  BY <1>a DEF ChatTypes
<1>0. PICK n \in Nat : n = Len(stated) + 1
  BY <1>1
<1>2. n \in DOMAIN stated' /\ \A j \in DOMAIN stated : j \in DOMAIN stated' /\ j \in 1..(n - 1)
  BY <1>1, <1>0
<1>3. \A j \in DOMAIN stated' : j \in DOMAIN stated \/ j = n
  BY <1>1, <1>0
<1>4. CASE \E f \in Chat!Fields : Chat!States(r, f) /\ Chat!States(usage, f) /\ r[f] < usage[f]
  <2>1. usage' = usage
    BY <1>4 DEF Chat!Absorbed
  <2>2. PICK f \in Chat!Fields : Chat!States(usage, f)
    BY <1>4
  <2>3. PICK j \in DOMAIN stated : usage[f] = stated[j][f]
    BY <2>2, AcceptedWasStated DEF Chat!States
  <2>4. usage # Chat!Silent
    BY <2>2 DEF Chat!Silent, Chat!States
  <2>5. \E i \in DOMAIN stated : Chat!StandsBehind(i, usage)
    BY <2>4 DEF Traced
  <2>6. PICK i \in DOMAIN stated : Chat!StandsBehind(i, usage)
    BY <2>5
  <2>7. Chat!StandsBehind(i, usage)'
    BY <2>6, <2>1, <1>a, StandsOn
  <2>8. ASSUME \A k \in DOMAIN stated' : Chat!Coherent(stated'[k])
        PROVE  Chat!Billable(usage)
    <3>1. \A k \in DOMAIN stated : Chat!Coherent(stated[k])
      BY <2>8, <1>1, <1>2
    <3>2. Chat!Coherent(stated[j]) /\ Chat!States(stated[j], f)
      BY <3>1, <2>2, <2>3 DEF Chat!States
    <3>3. Chat!Billable(stated[j])
      BY <3>2 DEF Chat!Coherent, Chat!Billable, Chat!Fields
    <3> QED BY <3>1, <3>3 DEF Traced
  <2> QED BY <2>1, <2>7, <2>8, <1>2 DEF Traced, ChatTypes
<1>5. CASE ~\E f \in Chat!Fields : Chat!States(r, f) /\ Chat!States(usage, f) /\ r[f] < usage[f]
  <2>1. usage' = [f \in Chat!Fields |-> IF Chat!States(r, f) THEN r[f] ELSE usage[f]]
    BY <1>5 DEF Chat!Absorbed
  <2>2. Chat!StandsBehind(n, usage)'
    <3> SUFFICES ASSUME NEW f \in Chat!Fields
                 PROVE  IF Chat!States(stated'[n], f) THEN usage'[f] = stated'[n][f]
                        ELSE usage'[f] = Unstated
                             \/ \E j \in 1..(n - 1) : usage'[f] = stated'[j][f]
      BY DEF Chat!StandsBehind, Chat!States
    <3>1. CASE Chat!States(r, f)
      BY <3>1, <2>1, <1>1, <1>0 DEF Chat!States
    <3>2. CASE ~Chat!States(r, f) /\ usage[f] = Unstated
      BY <3>2, <2>1, <1>1, <1>0 DEF Chat!States
    <3>3. CASE ~Chat!States(r, f) /\ usage[f] # Unstated
      <4>1. PICK j \in DOMAIN stated : usage[f] = stated[j][f]
        BY <3>3, AcceptedWasStated
      <4>2. usage'[f] = stated'[j][f] /\ j \in 1..(n - 1)
        BY <4>1, <3>3, <2>1, <1>1, <1>2
      <4> QED BY <4>2, <3>3, <1>1, <1>0 DEF Chat!States
    <3> QED BY <3>1, <3>2, <3>3
  <2>3. ASSUME NEW k \in DOMAIN stated', Chat!Billable(stated'[k]),
               \A i \in DOMAIN stated' : Chat!Coherent(stated'[i])
        PROVE  Chat!Billable(usage')
    <3>1. CASE Chat!Billable(usage)
      BY <3>1, <2>1 DEF Chat!Billable, Chat!States, Chat!Fields
    <3>2. CASE ~Chat!Billable(usage)
      <4>1. \A i \in DOMAIN stated : Chat!Coherent(stated[i])
        BY <2>3, <1>1, <1>2
      <4>2. k \notin DOMAIN stated
        BY <4>1, <3>2, <2>3, <1>1 DEF Traced
      <4>3. Chat!Billable(r)
        BY <4>2, <2>3, <1>3, <1>1, <1>0
      <4> QED BY <4>3, <2>1 DEF Chat!Billable, Chat!States, Chat!Fields
    <3> QED BY <3>1, <3>2
  <2>4. usage' \in [Chat!Fields -> Nat \cup {Unstated}]
    BY <2>1, <1>a DEF ChatTypes
  <2> QED BY <2>2, <2>3, <2>4, <1>2 DEF Traced
<1> QED BY <1>4, <1>5

\* One element put between two sequences.
LEMMA OneBetween ==
    ASSUME NEW S, NEW a \in Seq(S), NEW b \in Seq(S), NEW x \in S, NEW n \in Nat,
           n = Len(a) + 1
    PROVE  /\ n \in DOMAIN (a \o <<x>> \o b) /\ (a \o <<x>> \o b)[n] = x
           /\ \A i \in DOMAIN (a \o <<x>> \o b) :
                \/ i = n
                \/ i \in DOMAIN a /\ (a \o <<x>> \o b)[i] = a[i]
                \/ i - n \in DOMAIN b /\ (a \o <<x>> \o b)[i] = b[i - n]
<1>1. <<x>> \in Seq(S) /\ Len(<<x>>) = 1 /\ <<x>>[1] = x
  OBVIOUS
<1>2. /\ a \o <<x>> \in Seq(S) /\ Len(a \o <<x>>) = n /\ (a \o <<x>>)[n] = x
      /\ \A i \in 1..(n - 1) : i \in DOMAIN a /\ (a \o <<x>>)[i] = a[i]
  BY <1>1
<1>3. PICK front \in Seq(S) : front = a \o <<x>>
  BY <1>2
<1>4. /\ DOMAIN (front \o b) = 1..(n + Len(b))
      /\ \A i \in 1..n : (front \o b)[i] = front[i]
      /\ \A i \in DOMAIN (front \o b) : i > n => i - n \in DOMAIN b /\ (front \o b)[i] = b[i - n]
  BY <1>2, <1>3
<1> QED BY <1>2, <1>3, <1>4

\* Of what a stream yields at its end only the usage is one.
LEMMA OnlyTheUsageBills ==
    ASSUME Chat!ChatAssumption, ChatTypes,
           NEW made \in Seq(ChatYields), NEW rest \in Seq(ChatYields),
           \A i \in DOMAIN made : made[i].kind # "usage",
           \A i \in DOMAIN rest : rest[i].kind # "usage",
           events' = made \o Chat!PartialUsage \o rest, usage' = usage, end' # "open"
    PROVE  BilledAtTheEnd'
<1> DEFINE bill == [kind |-> "usage", usage |-> usage]
<1>1. bill \in ChatYields /\ bill.kind = "usage" /\ bill.usage = usage
  BY DEF ChatYields, ChatTypes
<1>p. Chat!Plausible(usage') = Chat!Plausible(usage) /\ Chat!Billable(usage') = Chat!Billable(usage)
  OBVIOUS
<1>2. CASE Chat!Plausible(usage) /\ Chat!Billable(usage)
  <2>1. events' = made \o <<bill>> \o rest
    BY <1>2 DEF Chat!PartialUsage
  <2>0. PICK n \in Nat : n = Len(made) + 1
    OBVIOUS
  <2> HIDE DEF bill
  <2>2. /\ n \in DOMAIN events' /\ events'[n] = bill
        /\ \A i \in DOMAIN events' : i # n => events'[i].kind # "usage"
    <3>1. /\ n \in DOMAIN events' /\ events'[n] = bill
          /\ \A i \in DOMAIN events' :
               \/ i = n
               \/ i \in DOMAIN made /\ events'[i] = made[i]
               \/ i - n \in DOMAIN rest /\ events'[i] = rest[i - n]
      BY <1>1, <2>0, <2>1, OneBetween
    <3> QED BY <3>1
  <2>3. Chat!Bills' = {n} /\ events'[n].usage = usage'
    BY <2>2, <1>1 DEF Chat!Bills
  <2> QED BY <2>2, <2>3, <1>2, <1>p DEF BilledAtTheEnd
<1>3. CASE ~(Chat!Plausible(usage) /\ Chat!Billable(usage))
  <2>1. Chat!PartialUsage = <<>>
    BY <1>3 DEF Chat!PartialUsage
  <2>2. events' = made \o rest
    BY <2>1
  <2>3. \A i \in DOMAIN events' :
          \/ i \in DOMAIN made /\ events'[i] = made[i]
          \/ i - Len(made) \in DOMAIN rest /\ events'[i] = rest[i - Len(made)]
    BY <2>2
  <2>4. Chat!Bills' = {}
    BY <2>3 DEF Chat!Bills
  <2> QED BY <2>4, <1>3, <1>p DEF BilledAtTheEnd
<1> QED BY <1>2, <1>3

\* Every abnormal exit yields the accepted usage.
LEMMA FailureBills ==
    ASSUME Chat!ChatAssumption, ChatInvariant, end = "open", Chat!Fails, usage' = usage
    PROVE  BilledAtTheEnd'
<1>1. <<>> \in Seq(ChatYields) /\ DOMAIN <<>> = {}
  OBVIOUS
<1>2. Chat!PartialUsage \in Seq(ChatYields)
  <2>1. [kind |-> "usage", usage |-> usage] \in ChatYields
    BY DEF ChatYields, ChatInvariant, ChatTypes
  <2> QED BY <2>1 DEF Chat!PartialUsage
<1>3. events = <<>> /\ end' # "open"
  BY DEF ChatInvariant, BilledAtTheEnd, Chat!Fails
<1>4. events' = <<>> \o Chat!PartialUsage \o <<>>
  BY <1>2, <1>3 DEF Chat!Fails
<1> QED BY <1>1, <1>3, <1>4, OnlyTheUsageBills DEF ChatInvariant

\* So does a terminal, after the made.
LEMMA TerminalBills ==
    ASSUME Chat!ChatAssumption, ChatInvariant, Chat!Terminate, usage' = usage
    PROVE  BilledAtTheEnd'
<1> DEFINE made == [s \in DOMAIN tools |-> [kind |-> "call", pieces |-> tools[s].pieces]]
           rest == <<[kind |-> "final"]>>
<1>1. made \in Seq(ChatYields) /\ \A i \in DOMAIN made : made[i].kind # "usage"
  <2>1. DOMAIN tools = 1..Len(tools) /\ Len(tools) \in Nat
    BY DEF ChatInvariant, ChatTypes
  <2>2. \A s \in DOMAIN tools : tools[s] \in ToolSlots
    BY DEF ChatInvariant, ChatTypes
  <2>3. \A s \in DOMAIN tools : made[s] \in ChatYields /\ made[s].kind = "call"
    BY <2>2 DEF ChatYields, ToolSlots
  <2> QED BY <2>1, <2>3
<1>2. rest \in Seq(ChatYields) /\ \A i \in DOMAIN rest : rest[i].kind # "usage"
  BY DEF ChatYields
<1>3. events' = made \o Chat!PartialUsage \o rest /\ end' # "open"
  BY DEF Chat!Terminate
<1> HIDE DEF made, rest
<1> QED BY <1>1, <1>2, <1>3, OnlyTheUsageBills DEF ChatInvariant

\* What a fragment is.
LEMMA ChunksOfFragments ==
    ASSUME Chat!ChatAssumption, ChatTypes, NEW chunk \in Chat!NextChunks
    PROVE  chunk \in Seq(Fragments)
<1>1. \A c \in Chat!Calls : chatSent[c] \in Nat /\ c \in Nat
  BY DEF ChatTypes, Chat!Calls
<1>2. CASE numbered
  <2>1. PICK c \in Chat!Calls, named \in {TRUE, FALSE} :
            chunk = <<Chat!Fragment(c, chatSent[c] + 1, named)>>
    BY <1>2 DEF Chat!NextChunks, Chat!NumberedChunks
  <2>2. Chat!Fragment(c, chatSent[c] + 1, named) \in Fragments
    BY <1>1 DEF Chat!Fragment, Fragments
  <2> QED BY <2>1, <2>2
<1>3. CASE ~numbered
  <2>0. PICK begun \in 0..ChatCalls :
           \E n \in 1..(ChatCalls - begun) :
              chunk = [i \in 1..n |-> Chat!Fragment(begun + i, 1, TRUE)]
    BY <1>3 DEF Chat!NextChunks, Chat!WholeChunks
  <2>1. PICK n \in 1..(ChatCalls - begun) :
           chunk = [i \in 1..n |-> Chat!Fragment(begun + i, 1, TRUE)]
    BY <2>0
  <2>4. \A i \in 1..n : Chat!Fragment(begun + i, 1, TRUE) \in Fragments
    BY <2>1 DEF Chat!Fragment, Fragments
  <2>5. n \in Nat
    BY <2>1
  <2>6. chunk \in [1..n -> Fragments]
    BY <2>1, <2>4
  <2> QED BY <2>5, <2>6
<1> QED BY <1>2, <1>3

\* A fragment goes into one slot.
LEMMA AbsorbKeepsSlots ==
    ASSUME NEW open \in Seq(ToolSlots), NEW fragment \in Fragments, NEW position \in Nat
    PROVE  Chat!Absorb(open, fragment, position) \in Seq(ToolSlots)
<1> DEFINE s == Chat!Slot(open, fragment, position)
           before == IF s \in DOMAIN open THEN open[s] ELSE [id |-> 0, pieces |-> <<>>]
           after == [id |-> IF fragment.id # 0 THEN fragment.id ELSE before.id,
                     pieces |-> Append(before.pieces, <<fragment.call, fragment.nr>>)]
<1>1. before \in ToolSlots
  <2>1. [id |-> 0, pieces |-> <<>>] \in ToolSlots
    BY DEF ToolSlots
  <2> HIDE DEF s
  <2> QED BY <2>1
<1>2. after \in ToolSlots
  <2>1. <<fragment.call, fragment.nr>> \in Nat \X Nat /\ fragment.id \in Nat
    BY DEF Fragments
  <2>2. before.pieces \in Seq(Nat \X Nat) /\ before.id \in Nat
    <3> HIDE DEF before
    <3> QED BY <1>1 DEF ToolSlots
  <2> HIDE DEF before
  <2>3. Append(before.pieces, <<fragment.call, fragment.nr>>) \in Seq(Nat \X Nat)
    BY <2>1, <2>2
  <2> QED BY <2>1, <2>2, <2>3 DEF ToolSlots
<1>3. Chat!Absorb(open, fragment, position) =
        IF s \in DOMAIN open THEN [open EXCEPT ![s] = after] ELSE Append(open, after)
  BY DEF Chat!Absorb
<1> HIDE DEF s, after
<1> QED BY <1>2, <1>3

\* Absorbing a chunk, fragment by fragment.
Absorbs(g, open, chunk) ==
    g = [i \in 0..Len(chunk) |->
           IF i = 0 THEN open ELSE Chat!Absorb(g[i - 1], chunk[i], i)]

\* What g makes of b, a value of V, one step after the other.
Steps(g, N, V, b, step) ==
    /\ g \in [0..N -> V] /\ g[0] = b
    /\ \A i \in 1..N : g[i] = step[i][g[i - 1]]

\* There is such a g.
LEMMA StepsSolvable ==
    ASSUME NEW N \in Nat, NEW V, NEW b \in V, NEW step \in [1..N -> [V -> V]]
    PROVE  \E g : Steps(g, N, V, b, step)
<1> DEFINE Upto(g, n) ==
              /\ g \in [0..n -> V] /\ g[0] = b
              /\ \A i \in 1..n : g[i] = step[i][g[i - 1]]
           G == {n \in Nat : n <= N => \E g : Upto(g, n)}
<1>1. 0 \in G
  <2>1. Upto([i \in 0..0 |-> b], 0)
    OBVIOUS
  <2> QED BY <2>1
<1>2. \A n \in Nat : n \in G => n + 1 \in G
  <2> SUFFICES ASSUME NEW n \in Nat, n \in G, n + 1 <= N PROVE \E h : Upto(h, n + 1)
    <3> HIDE DEF Upto
    <3> QED OBVIOUS
  <2>0. PICK g : Upto(g, n)
    <3>1. n <= N
      OBVIOUS
    <3> HIDE DEF Upto
    <3> QED BY <3>1
  <2> DEFINE h == [i \in 0..n + 1 |-> IF i = n + 1 THEN step[n + 1][g[n]] ELSE g[i]]
  <2>1. g[n] \in V /\ n + 1 \in 1..N /\ \A i \in 0..n : g[i] \in V
    BY <2>0
  <2>2. step[n + 1][g[n]] \in V
    BY <2>1
  <2>3. h \in [0..n + 1 -> V] /\ h[0] = b
    BY <2>0, <2>1, <2>2
  <2>4. ASSUME NEW i \in 1..n + 1 PROVE h[i] = step[i][h[i - 1]]
    <3>1. CASE i = n + 1
      <4>1. h[i - 1] = g[n] /\ h[i] = step[n + 1][g[n]]
        BY <3>1
      <4> QED BY <4>1, <3>1
    <3>2. CASE i # n + 1
      <4>1. i \in 1..n /\ h[i] = g[i] /\ h[i - 1] = g[i - 1]
        BY <3>2
      <4>2. g[i] = step[i][g[i - 1]]
        BY <2>0, <4>1
      <4> QED BY <4>1, <4>2
    <3> QED BY <3>1, <3>2
  <2>5. Upto(h, n + 1)
    BY <2>3, <2>4
  <2> HIDE DEF h, Upto
  <2> QED BY <2>5
<1>3. N \in G
  <2> HIDE DEF G
  <2> QED BY <1>1, <1>2, Induction
<1> QED BY <1>3 DEF Steps

\* The recursion of Assembled has a solution.
LEMMA AbsorbsSolvable ==
    ASSUME NEW chunk \in Seq(Fragments), NEW open \in Seq(ToolSlots)
    PROVE  \E g : Absorbs(g, open, chunk)
<1> DEFINE V == Seq(ToolSlots)
           N == Len(chunk)
           step == [i \in 1..N |-> [x \in V |-> Chat!Absorb(x, chunk[i], i)]]
<1>1. ASSUME NEW x \in V, NEW i \in 1..N
      PROVE  step[i][x] = Chat!Absorb(x, chunk[i], i) /\ step[i][x] \in V
  <2>1. step[i][x] = Chat!Absorb(x, chunk[i], i)
    <3> HIDE DEF V, N
    <3> QED OBVIOUS
  <2>2. chunk[i] \in Fragments /\ i \in Nat
    OBVIOUS
  <2>3. Chat!Absorb(x, chunk[i], i) \in V
    BY <2>2, AbsorbKeepsSlots
  <2> QED BY <2>1, <2>3
<1>2. N \in Nat /\ open \in V
  OBVIOUS
<1> HIDE DEF step, V, N
<1>3. PICK g : Steps(g, N, V, open, step)
  <2>1. step \in [1..N -> [V -> V]]
    BY <1>1 DEF step
  <2> QED BY <2>1, <1>2, StepsSolvable
<1>4. ASSUME NEW i \in 0..N
      PROVE  g[i] = IF i = 0 THEN open ELSE Chat!Absorb(g[i - 1], chunk[i], i)
  <2>1. CASE i = 0
    BY <2>1, <1>3 DEF Steps
  <2>2. CASE i # 0
    <3>1. i \in 1..N /\ i - 1 \in 0..N
      BY <2>2, <1>2
    <3>2. g[i - 1] \in V
      BY <3>1, <1>3 DEF Steps
    <3> QED BY <3>1, <3>2, <1>1, <1>3, <2>2 DEF Steps
  <2> QED BY <2>1, <2>2
<1>5. g = [i \in 0..N |-> IF i = 0 THEN open ELSE Chat!Absorb(g[i - 1], chunk[i], i)]
  BY <1>3, <1>4 DEF Steps
<1> QED BY <1>5 DEF Absorbs, N

\* A chunk leaves slots.
LEMMA AssembledTyped ==
    ASSUME NEW chunk \in Seq(Fragments), tools \in Seq(ToolSlots)
    PROVE  Chat!Assembled(chunk) \in Seq(ToolSlots)
<1>0. PICK open \in Seq(ToolSlots) : open = tools
  OBVIOUS
<1> DEFINE g == CHOOSE f : Absorbs(f, open, chunk)
           G == {n \in Nat : n <= Len(chunk) => g[n] \in Seq(ToolSlots)}
<1>1. Absorbs(g, open, chunk)
  BY AbsorbsSolvable
<1>2. Chat!Assembled(chunk) = g[Len(chunk)]
  BY <1>0 DEF Chat!Assembled, Absorbs
<1> HIDE DEF g
<1>3. \A i \in 0..Len(chunk) :
         g[i] = IF i = 0 THEN open ELSE Chat!Absorb(g[i - 1], chunk[i], i)
  BY <1>1 DEF Absorbs
<1>4. 0 \in G
  BY <1>3
<1>5. \A n \in Nat : n \in G => n + 1 \in G
  <2> SUFFICES ASSUME NEW n \in Nat, n \in G, n + 1 <= Len(chunk)
               PROVE  g[n + 1] \in Seq(ToolSlots)
    OBVIOUS
  <2>1. n + 1 \in 1..Len(chunk) /\ n + 1 \in 0..Len(chunk) /\ g[n] \in Seq(ToolSlots)
    OBVIOUS
  <2>2. chunk[n + 1] \in Fragments
    BY <2>1
  <2>3. g[n + 1] = Chat!Absorb(g[n], chunk[n + 1], n + 1)
    <3>1. n + 1 # 0 /\ n + 1 - 1 = n
      OBVIOUS
    <3>2. g[n + 1] = Chat!Absorb(g[n + 1 - 1], chunk[n + 1], n + 1)
      BY <2>1, <1>3, <3>1
    <3> QED BY <3>1, <3>2
  <2>4. n + 1 \in Nat
    OBVIOUS
  <2> HIDE DEF G
  <2> QED BY <2>1, <2>2, <2>3, <2>4, AbsorbKeepsSlots
<1>6. Len(chunk) \in G
  <2>1. Len(chunk) \in Nat
    OBVIOUS
  <2> HIDE DEF G
  <2> QED BY <2>1, <1>4, <1>5, Induction
<1> QED BY <1>2, <1>6

\* Nothing was stated, nothing is accepted.
LEMMA ChatInitially ==
    ASSUME Chat!ChatAssumption, Chat!Init
    PROVE  ChatInvariant
<1>1. ChatTypes
  BY DEF Chat!Init, ChatTypes, Chat!Silent
<1>2. Traced
  BY DEF Chat!Init, Traced
<1>3. BilledAtTheEnd
  BY DEF Chat!Init, BilledAtTheEnd
<1> QED BY <1>1, <1>2, <1>3 DEF ChatInvariant

\* Every chunk and every end keeps the invariant.
LEMMA ChatStays ==
    ASSUME Chat!ChatAssumption, ChatInvariant, [Chat!Next]_(Chat!vars)
    PROVE  ChatInvariant'
<1>1. ASSUME NEW r \in Reports, Chat!StatesUsage(r) PROVE ChatInvariant'
  <2>1. Traced' /\ usage' \in [Chat!Fields -> Nat \cup {Unstated}]
    BY <1>1, AbsorbedWhole DEF Chat!StatesUsage, ChatInvariant
  <2>2. ChatTypes'
    BY <1>1, <2>1 DEF Chat!StatesUsage, ChatInvariant, ChatTypes, Chat!ChatAssumption
  <2>3. BilledAtTheEnd'
    BY <1>1 DEF Chat!StatesUsage, Chat!Streaming, ChatInvariant, BilledAtTheEnd
  <2> QED BY <2>1, <2>2, <2>3 DEF ChatInvariant
<1>2. ASSUME NEW chunk \in Chat!NextChunks, Chat!CallsTools(chunk) PROVE ChatInvariant'
  <2>1. UNCHANGED <<stated, usage>> /\ end = "open"
    BY <1>2 DEF Chat!CallsTools, Chat!Streaming
  <2>2. Traced'
    BY <2>1 DEF ChatInvariant, Traced, Chat!StandsBehind, Chat!States, Chat!Silent,
                Chat!Billable, Chat!Coherent
  <2>3. Chat!Assembled(chunk) \in Seq(ToolSlots)
    BY ChunksOfFragments, AssembledTyped DEF ChatInvariant, ChatTypes
  <2>4. ChatTypes'
    <3>1. chatSent' \in [Chat!Calls -> Nat]
      BY <1>2 DEF Chat!CallsTools, ChatInvariant, ChatTypes
    <3>2. tools' \in Seq(ToolSlots)
      BY <1>2, <2>3 DEF Chat!CallsTools, ChatInvariant, ChatTypes
    <3> QED BY <2>1, <3>1, <3>2 DEF ChatInvariant, ChatTypes
  <2>5. BilledAtTheEnd'
    <3>1. CASE UNCHANGED <<events, end>>
      BY <3>1, <2>1 DEF ChatInvariant, BilledAtTheEnd
    <3>2. CASE Chat!Fails
      BY <3>2, <2>1, FailureBills
    <3> QED BY <1>2, <3>1, <3>2 DEF Chat!CallsTools
  <2> QED BY <2>2, <2>4, <2>5 DEF ChatInvariant
<1>3. ASSUME UNCHANGED <<stated, chatSent, usage, tools>>,
             UNCHANGED <<events, end>> \/ (end = "open" /\ Chat!Fails) \/ Chat!Terminate
      PROVE  ChatInvariant'
  <2>1. Traced'
    BY <1>3 DEF ChatInvariant, Traced, Chat!StandsBehind, Chat!States, Chat!Silent,
                Chat!Billable, Chat!Coherent
  <2>2. ChatTypes'
    BY <1>3 DEF ChatInvariant, ChatTypes
  <2>3. BilledAtTheEnd'
    <3>1. CASE UNCHANGED <<events, end>>
      BY <3>1, <1>3 DEF ChatInvariant, BilledAtTheEnd, Chat!Bills, Chat!Plausible, Chat!Billable
    <3>2. CASE end = "open" /\ Chat!Fails
      BY <3>2, <1>3, FailureBills
    <3>3. CASE Chat!Terminate
      BY <3>3, <1>3, TerminalBills
    <3> QED BY <1>3, <3>1, <3>2, <3>3
  <2> QED BY <2>1, <2>2, <2>3 DEF ChatInvariant
<1>4. CASE Chat!Finish
  BY <1>4, <1>3 DEF Chat!Finish
<1>5. CASE Chat!Done
  BY <1>5, <1>3 DEF Chat!Done
<1>6. CASE Chat!Close
  BY <1>6, <1>3 DEF Chat!Close, Chat!Streaming
<1>7. CASE Chat!Break
  BY <1>7, <1>3 DEF Chat!Break, Chat!Streaming
<1>8. CASE UNCHANGED Chat!vars
  BY <1>8, <1>3 DEF Chat!vars
<1> QED BY <1>1, <1>2, <1>4, <1>5, <1>6, <1>7, <1>8 DEF Chat!Next

\* What is accepted is what one snapshot said, so the bill is.
LEMMA ChatKept ==
    ASSUME Chat!ChatAssumption, ChatInvariant
    PROVE  Chat!UsageKept
<1>1. \A i, j \in Chat!Bills : i = j
  BY DEF ChatInvariant, BilledAtTheEnd, Chat!Bills
<1>2. ASSUME NEW i \in Chat!Bills
      PROVE  \E k \in DOMAIN stated : Chat!StandsBehind(k, events[i].usage)
  <2>1. Chat!Billable(usage) /\ events[i].usage = usage
    BY <1>2 DEF ChatInvariant, BilledAtTheEnd, Chat!Bills
  <2>2. usage # Chat!Silent
    BY <2>1 DEF Chat!Billable, Chat!Silent, Chat!States, Chat!Fields
  <2> QED BY <2>1, <2>2 DEF ChatInvariant, Traced
<1>3. ASSUME end # "open", \E i \in DOMAIN stated : Chat!Billable(stated[i]),
             \A i \in DOMAIN stated : Chat!Plausible(stated[i]) /\ Chat!Coherent(stated[i])
      PROVE  Chat!Bills # {}
  <2>1. Chat!Billable(usage)
    BY <1>3 DEF ChatInvariant, Traced
  <2>2. Chat!Plausible(usage)
    <3> SUFFICES ASSUME NEW f \in Chat!Fields, usage[f] # Unstated PROVE usage[f] <= Believable
      BY DEF Chat!Plausible, Chat!States
    <3>1. PICK i \in DOMAIN stated : usage[f] = stated[i][f]
      BY AcceptedWasStated DEF ChatInvariant
    <3> QED BY <3>1, <1>3 DEF Chat!Plausible, Chat!States
  <2> QED BY <1>3, <2>1, <2>2 DEF ChatInvariant, BilledAtTheEnd
<1> QED BY <1>1, <1>2, <1>3 DEF Chat!UsageKept

\* However a stream ends, its usage is yielded once, and unmixed.
THEOREM ChatUsageIsKept == ASSUME Chat!ChatAssumption PROVE Chat!Spec => []Chat!UsageKept
<1>1. Chat!Init => ChatInvariant
  BY ChatInitially
<1>2. ChatInvariant /\ [Chat!Next]_(Chat!vars) => ChatInvariant'
  BY ChatStays
<1>3. ChatInvariant => Chat!UsageKept
  BY ChatKept
<1> QED BY <1>1, <1>2, <1>3, PTL DEF Chat!Spec

-----------------------------------------------------------------------------
(* One stream of Messages events.                                          *)

Counts == [Messages!Fields -> Nat \cup {Unstated}]

\* f was last stated by the l-th of the first k snapshots.
LastStated(k, f, l) ==
    /\ l \in 1..k /\ Messages!States(Counters[l], f)
    /\ \A i \in 1..k : Messages!States(Counters[i], f) => i <= l

\* A field that was stated was stated last by some snapshot.
LEMMA SomeLastStated ==
    ASSUME NEW k \in Nat, NEW f, NEW j \in 1..k, Messages!States(Counters[j], f)
    PROVE  \E l \in 1..k : LastStated(k, f, l)
<1> DEFINE B == {n \in Nat : \E i \in 1..k : Messages!States(Counters[i], f) /\ n = k - i}
<1>1. k - j \in B
  OBVIOUS
<1>2. PICK n \in B : \A m \in B : n <= m
  <2>1. B \subseteq Nat /\ B # {}
    BY <1>1
  <2> HIDE DEF B
  <2> QED BY <2>1, LeastNatural
<1>3. PICK l \in 1..k : Messages!States(Counters[l], f) /\ n = k - l
  BY <1>2
<1>4. ASSUME NEW i \in 1..k, Messages!States(Counters[i], f) PROVE i <= l
  <2>1. k - i \in B
    BY <1>4
  <2>2. n <= k - i
    <3> HIDE DEF B
    <3> QED BY <2>1, <1>2
  <2> QED BY <2>2, <1>3
<1> QED BY <1>3, <1>4 DEF LastStated

\* What the counters are as of a snapshot.
LEMMA AsOfAt ==
    ASSUME Messages!MessagesAssumption, NEW k \in 0..Len(Counters), NEW f \in Messages!Fields
    PROVE  /\ Messages!AsOf(k) \in Counts
           /\ (\A j \in 1..k : ~Messages!States(Counters[j], f)) =>
                Messages!AsOf(k)[f] = Unstated
           /\ \A l : LastStated(k, f, l) => Messages!AsOf(k)[f] = Counters[l][f]
<1>0. \A j \in 1..k : j \in DOMAIN Counters /\ Counters[j] \in Counts
  BY DEF Messages!MessagesAssumption, Counts
<1> DEFINE by(d) == {j \in 1..k : Messages!States(Counters[j], d)}
           last(d) == CHOOSE j \in by(d) : \A i \in by(d) : i <= j
<1>1. Messages!AsOf(k) =
        [d \in Messages!Fields |-> IF by(d) = {} THEN Unstated ELSE Counters[last(d)][d]]
  BY DEF Messages!AsOf
<1>2. ASSUME NEW d \in Messages!Fields, NEW l, LastStated(k, d, l)
      PROVE  by(d) # {} /\ last(d) = l
  BY <1>2 DEF LastStated
<1>3. ASSUME NEW d \in Messages!Fields, by(d) # {}
      PROVE  last(d) \in 1..k
  <2>1. PICK j \in 1..k : Messages!States(Counters[j], d)
    BY <1>3
  <2>2. PICK l \in 1..k : LastStated(k, d, l)
    BY <2>1, SomeLastStated
  <2> HIDE DEF last, by
  <2> QED BY <2>2, <1>2
<1>4. Messages!AsOf(k) \in Counts
  <2>1. \A d \in Messages!Fields : by(d) # {} => Counters[last(d)][d] \in Nat \cup {Unstated}
    <3> HIDE DEF last, by
    <3> QED BY <1>0, <1>3 DEF Counts
  <2> HIDE DEF last, by
  <2> QED BY <1>1, <2>1 DEF Counts
<1>5. (\A j \in 1..k : ~Messages!States(Counters[j], f)) => Messages!AsOf(k)[f] = Unstated
  <2> HIDE DEF last
  <2> QED BY <1>1
<1>6. \A l : LastStated(k, f, l) => Messages!AsOf(k)[f] = Counters[l][f]
  <2> HIDE DEF last, by
  <2> QED BY <1>1, <1>2
<1> QED BY <1>4, <1>5, <1>6

\* The counters rise to the next snapshot, and an earlier one leaves them.
LEMMA RisesToTheNext ==
    ASSUME Messages!MessagesAssumption, NEW h \in 0..Len(Counters), NEW k \in DOMAIN Counters,
           k <= h + 1
    PROVE  /\ k = h + 1 => Messages!Raised(Messages!AsOf(h), Counters[k]) = Messages!AsOf(k)
           /\ k <= h => Messages!Raised(Messages!AsOf(h), Counters[k]) = Messages!AsOf(h)
<1>0. /\ k \in 1..Len(Counters) /\ Len(Counters) \in Nat /\ h \in Nat /\ k \in Nat
      /\ \A j \in 1..Len(Counters) : j \in DOMAIN Counters /\ Counters[j] \in Counts
  BY DEF Messages!MessagesAssumption, Counts
<1>1. Messages!AsOf(h) \in Counts /\ Messages!AsOf(k) \in Counts
  BY <1>0, AsOfAt DEF Messages!Fields
<1> DEFINE u == Messages!AsOf(h)
           r == Counters[k]
<1>2. ASSUME NEW f \in Messages!Fields
      PROVE  /\ k = h + 1 =>
                  Messages!AsOf(k)[f] =
                    IF Messages!States(r, f) /\ (~Messages!States(u, f) \/ r[f] > u[f])
                    THEN r[f] ELSE u[f]
             /\ k <= h =>
                  u[f] = IF Messages!States(r, f) /\ (~Messages!States(u, f) \/ r[f] > u[f])
                         THEN r[f] ELSE u[f]
  <2>1. CASE \A j \in 1..h : ~Messages!States(Counters[j], f)
    <3>1. u[f] = Unstated
      BY <2>1, AsOfAt
    <3>2. CASE k <= h
      BY <3>1, <3>2, <2>1, <1>0
    <3>3. CASE k = h + 1 /\ Messages!States(r, f)
      <4>1. LastStated(k, f, k)
        BY <3>3, <2>1, <1>0 DEF LastStated
      <4>2. Messages!AsOf(k)[f] = r[f]
        BY <4>1, <1>0, AsOfAt
      <4> QED BY <4>2, <3>1, <3>3, <1>0 DEF Messages!States
    <3>4. CASE k = h + 1 /\ ~Messages!States(r, f)
      <4>1. \A j \in 1..k : ~Messages!States(Counters[j], f)
        BY <3>4, <2>1, <1>0
      <4>2. Messages!AsOf(k)[f] = Unstated
        BY <4>1, <1>0, AsOfAt
      <4> QED BY <4>2, <3>1, <3>4, <1>0
    <3> QED BY <3>2, <3>3, <3>4, <1>0
  <2>2. CASE \E j \in 1..h : Messages!States(Counters[j], f)
    <3>0. PICK l \in 1..h : LastStated(h, f, l)
      BY <2>2, <1>0, SomeLastStated
    <3>1. /\ u[f] = Counters[l][f] /\ u[f] \in Nat
          /\ Messages!States(Counters[l], f) /\ l \in DOMAIN Counters
      <4>1. l \in DOMAIN Counters /\ Messages!States(Counters[l], f) /\ Counters[l] \in Counts
        BY <3>0, <1>0 DEF LastStated
      <4>2. u[f] = Counters[l][f]
        BY <3>0, AsOfAt
      <4> HIDE DEF u
      <4> QED BY <4>1, <4>2 DEF Counts, Messages!States
    <3>2. Messages!States(r, f) => r[f] \in Nat
      BY <1>0 DEF Counts, Messages!States
    <3>3. CASE k <= h
      <4>1. Messages!States(r, f) => k <= l /\ r[f] <= u[f]
        BY <3>0, <3>1, <3>3, <1>0 DEF LastStated, Messages!MessagesAssumption
      <4> QED BY <4>1, <3>1, <3>2, <3>3, <1>0 DEF Messages!States, Messages!MessagesAssumption
    <3>4. CASE k = h + 1 /\ Messages!States(r, f)
      <4>1. LastStated(k, f, k)
        BY <3>4, <1>0 DEF LastStated
      <4>2. Messages!AsOf(k)[f] = r[f]
        BY <4>1, <1>0, AsOfAt
      <4>3. u[f] <= r[f]
        BY <3>1, <3>4, <1>0 DEF Messages!MessagesAssumption
      <4> QED BY <4>2, <4>3, <3>1, <3>2, <3>4, <1>0
    <3>5. CASE k = h + 1 /\ ~Messages!States(r, f)
      <4>1. LastStated(k, f, l)
        BY <3>0, <3>5, <1>0 DEF LastStated
      <4>2. Messages!AsOf(k)[f] = Counters[l][f]
        BY <4>1, <1>0, AsOfAt
      <4> QED BY <4>2, <3>1, <3>5, <1>0
    <3> QED BY <3>3, <3>4, <3>5, <1>0
  <2> QED BY <2>1, <2>2
<1>3. Messages!Raised(u, r) =
        [f \in Messages!Fields |->
           IF Messages!States(r, f) /\ (~Messages!States(u, f) \/ r[f] > u[f])
           THEN r[f] ELSE u[f]]
  BY DEF Messages!Raised
<1> HIDE DEF u, r
<1>4. k = h + 1 => Messages!Raised(u, r) = Messages!AsOf(k)
  BY <1>1, <1>2, <1>3 DEF Counts
<1>5. k <= h => Messages!Raised(u, r) = u
  BY <1>1, <1>2, <1>3 DEF Counts, u
<1> QED BY <1>4, <1>5 DEF u, r

\* Sequences are joined in any order.
LEMMA Associates ==
    ASSUME NEW S, NEW a \in Seq(S), NEW b \in Seq(S), NEW c \in Seq(S)
    PROVE  a \o (b \o c) = a \o b \o c
OBVIOUS

-----------------------------------------------------------------------------

ToolSets == UNION {[D -> Seq(Nat)] : D \in SUBSET Messages!Calls}

Calling == [kind : {"call"}, call : Messages!Calls, pieces : Seq(Nat)]
Billing == [kind : {"usage"}, usage : {Messages!TokenUsage(u) : u \in Counts}]
Ending == [kind : {"final"}]
MessagesYields == Calling \cup Billing \cup Ending

Machines ==
    [usage : Counts, heard : 0..Len(Counters), tools : ToolSets, events : Seq(MessagesYields),
     end : {"open", "final", "failed"}]

Events ==
    [type : {"usage"}, of : DOMAIN Counters] \cup
    [type : {"open", "piece", "close"}, of : Messages!Calls] \cup [type : {"stop", "error"}]

Frames == [event : Events, intact : BOOLEAN]

LEMMA ToolSet ==
    ASSUME NEW t, NEW D \in SUBSET Messages!Calls, t \in [D -> Seq(Nat)]
    PROVE  t \in ToolSets
BY DEF ToolSets

LEMMA OfToolSet ==
    ASSUME NEW t \in ToolSets
    PROVE  DOMAIN t \in SUBSET Messages!Calls /\ t \in [DOMAIN t -> Seq(Nat)]
BY DEF ToolSets

\* At the end the latest usage is billed, and until then nothing.
Owes(m) ==
    /\ m.end # "open"
    /\ Messages!Billable(Messages!TokenUsage(m.usage))
    /\ Messages!Plausible(Messages!TokenUsage(m.usage))

Bill(m) ==
    /\ ~Owes(m) => Messages!Bills(m) = {}
    /\ Owes(m) => \E i \in DOMAIN m.events :
                     Messages!Bills(m) = {i} /\ m.events[i].usage = Messages!TokenUsage(m.usage)

\* What ends a stream bills it.
LEMMA EndBills ==
    ASSUME NEW m \in Machines, m.end = "open", Bill(m), NEW rest \in Seq(MessagesYields),
           \A i \in DOMAIN rest : rest[i].kind # "usage",
           NEW n \in Machines, n.events = m.events \o Messages!PartialUsage(m) \o rest,
           n.usage = m.usage, n.end # "open"
    PROVE  Bill(n)
<1> DEFINE bill == [kind |-> "usage", usage |-> Messages!TokenUsage(m.usage)]
           old == m.events
<1>0. m.usage \in Counts /\ old \in Seq(MessagesYields)
  BY DEF Machines
<1>1. bill \in MessagesYields /\ bill.kind = "usage" /\ bill.usage = Messages!TokenUsage(m.usage)
  BY <1>0 DEF MessagesYields, Billing
<1>2. \A i \in DOMAIN old : old[i].kind # "usage"
  BY DEF Bill, Owes, Messages!Bills
<1>3. CASE Owes(n)
  <2>1. n.events = old \o <<bill>> \o rest
    BY <1>3 DEF Messages!PartialUsage, Owes
  <2>2. PICK k \in Nat : k = Len(old) + 1
    BY <1>0
  <2> HIDE DEF bill, old
  <2>3. /\ k \in DOMAIN n.events /\ n.events[k] = bill
        /\ \A i \in DOMAIN n.events :
              \/ i = k
              \/ i \in DOMAIN old /\ n.events[i] = old[i]
              \/ i - k \in DOMAIN rest /\ n.events[i] = rest[i - k]
    BY <1>0, <1>1, <2>1, <2>2, OneBetween
  <2>4. Messages!Bills(n) = {k} /\ n.events[k].usage = Messages!TokenUsage(n.usage)
    BY <2>3, <1>1, <1>2 DEF Messages!Bills
  <2> QED BY <2>3, <2>4, <1>3 DEF Bill
<1>4. CASE ~Owes(n)
  <2>1. Messages!PartialUsage(m) = <<>>
    BY <1>4 DEF Messages!PartialUsage, Owes
  <2>2. n.events = old \o rest
    BY <2>1, <1>0
  <2>3. \A i \in DOMAIN n.events :
          \/ i \in DOMAIN old /\ n.events[i] = old[i]
          \/ i - Len(old) \in DOMAIN rest /\ n.events[i] = rest[i - Len(old)]
    <3> HIDE DEF old
    <3> QED BY <2>2, <1>0
  <2>4. Messages!Bills(n) = {}
    BY <2>3, <1>2 DEF Messages!Bills
  <2> QED BY <2>4, <1>4 DEF Bill
<1> QED BY <1>3, <1>4

LEMMA PartialTyped ==
    ASSUME NEW m \in Machines
    PROVE  Messages!PartialUsage(m) \in Seq(MessagesYields)
<1>1. [kind |-> "usage", usage |-> Messages!TokenUsage(m.usage)] \in MessagesYields
  BY DEF Machines, MessagesYields, Billing
<1> QED BY <1>1 DEF Messages!PartialUsage

\* Every abnormal exit bills.
LEMMA FailedBills ==
    ASSUME NEW m \in Machines, m.end = "open", Bill(m)
    PROVE  /\ Messages!Failed(m) \in Machines /\ Bill(Messages!Failed(m))
           /\ Messages!Failed(m).end # "open"
           /\ Messages!Failed(m).heard = m.heard /\ Messages!Failed(m).usage = m.usage
<1>1. Messages!Failed(m) = [m EXCEPT !.events = @ \o Messages!PartialUsage(m), !.end = "failed"]
  BY DEF Messages!Failed, Messages!Yields, Machines
<1>2. Messages!PartialUsage(m) \in Seq(MessagesYields) /\ m.events \in Seq(MessagesYields)
  BY PartialTyped DEF Machines
<1>3. m.events \o Messages!PartialUsage(m) \in Seq(MessagesYields)
  BY <1>2
<1>4. Messages!Failed(m) \in Machines
  BY <1>1, <1>3 DEF Machines
<1>5. /\ Messages!Failed(m).usage = m.usage /\ Messages!Failed(m).heard = m.heard
      /\ Messages!Failed(m).end = "failed"
      /\ Messages!Failed(m).events = m.events \o Messages!PartialUsage(m)
  BY <1>1 DEF Machines
<1>6. Messages!Failed(m).events = m.events \o Messages!PartialUsage(m) \o <<>>
  BY <1>5, <1>3
<1>7. <<>> \in Seq(MessagesYields) /\ \A i \in DOMAIN <<>> : <<>>[i].kind # "usage"
  OBVIOUS
<1>8. Bill(Messages!Failed(m))
  BY <1>4, <1>5, <1>6, <1>7, EndBills
<1> QED BY <1>4, <1>5, <1>8

\* What a handled event makes of a machine that is open.
LEMMA HandleTyped ==
    ASSUME Messages!MessagesAssumption,
           NEW m \in Machines, m.end = "open", Bill(m), NEW e \in Events
    PROVE  /\ Messages!Handle(m, e) \in Machines /\ Bill(Messages!Handle(m, e))
           /\ e.type # "usage" => /\ Messages!Handle(m, e).usage = m.usage
                                  /\ Messages!Handle(m, e).heard = m.heard
           /\ e.type = "usage" =>
                /\ Messages!Handle(m, e).usage = Messages!Raised(m.usage, Counters[e.of])
                /\ Messages!Handle(m, e).heard = IF e.of > m.heard THEN e.of ELSE m.heard
                /\ Messages!Handle(m, e).end = "open"
<1>t. m.tools \in ToolSets /\ m.events \in Seq(MessagesYields) /\ m.usage \in Counts
  BY DEF Machines
<1>1. CASE e.type = "usage"
  <2> DEFINE n == [m EXCEPT !.usage = Messages!Raised(@, Counters[e.of]),
                       !.heard = IF e.of > @ THEN e.of ELSE @]
  <2>1. Messages!Handle(m, e) = n
    BY <1>1 DEF Messages!Handle
  <2>2. e.of \in DOMAIN Counters /\ Counters[e.of] \in Counts
    BY <1>1 DEF Events, Messages!MessagesAssumption, Counts
  <2>3. Messages!Raised(m.usage, Counters[e.of]) \in Counts
    BY <2>2, <1>t DEF Messages!Raised, Counts
  <2>4. (IF e.of > m.heard THEN e.of ELSE m.heard) \in 0..Len(Counters)
    BY <2>2 DEF Machines, Messages!MessagesAssumption
  <2>5. n \in Machines /\ n.events = m.events /\ n.end = m.end
        /\ n.usage = Messages!Raised(m.usage, Counters[e.of])
        /\ n.heard = IF e.of > m.heard THEN e.of ELSE m.heard
    BY <2>3, <2>4 DEF Machines
  <2>6. Bill(n)
    <3> HIDE DEF n
    <3> QED BY <2>5 DEF Bill, Owes, Messages!Bills
  <2> HIDE DEF n
  <2> QED BY <2>1, <2>5, <2>6, <1>1
<1>2. CASE e.type = "open"
  <2>1. Messages!Handle(m, e) = Messages!Opens(m, e.of) /\ e.of \in Messages!Calls
    BY <1>2 DEF Messages!Handle, Events
  <2>2. CASE Messages!Opens(m, e.of) = Messages!Failed(m)
    BY <2>1, <2>2, <1>2, FailedBills
  <2>3. CASE Messages!Opens(m, e.of) # Messages!Failed(m)
    <3> DEFINE t == [d \in DOMAIN m.tools \cup {e.of} |-> IF d = e.of THEN <<>> ELSE m.tools[d]]
               n == [m EXCEPT !.tools = t]
    <3>1. Messages!Handle(m, e) = n
      BY <2>1, <2>3 DEF Messages!Opens
    <3>2. t \in ToolSets
      <4>1. DOMAIN m.tools \cup {e.of} \in SUBSET Messages!Calls
        BY <2>1, <1>t, OfToolSet
      <4>2. t \in [DOMAIN m.tools \cup {e.of} -> Seq(Nat)]
        BY <1>t, OfToolSet
      <4> HIDE DEF t
      <4> QED BY <4>1, <4>2, ToolSet
    <3> HIDE DEF t
    <3>3. n \in Machines /\ n.events = m.events /\ n.end = m.end /\ n.usage = m.usage
          /\ n.heard = m.heard
      BY <3>2 DEF Machines
    <3> HIDE DEF n
    <3>4. Bill(n)
      BY <3>3 DEF Bill, Owes, Messages!Bills
    <3> QED BY <3>1, <3>3, <3>4, <1>2
  <2> QED BY <2>2, <2>3
<1>3. CASE e.type = "piece"
  <2>1. CASE e.of \in DOMAIN m.tools
    <3> DEFINE t == [m.tools EXCEPT ![e.of] = Append(@, Len(@) + 1)]
               n == [m EXCEPT !.tools = t]
    <3>1. Messages!Handle(m, e) = n
      BY <1>3, <2>1 DEF Messages!Handle
    <3>2. t \in ToolSets
      <4>1. m.tools[e.of] \in Seq(Nat)
        BY <2>1, <1>t, OfToolSet
      <4>2. Append(m.tools[e.of], Len(m.tools[e.of]) + 1) \in Seq(Nat)
        BY <4>1
      <4>3. t \in [DOMAIN m.tools -> Seq(Nat)]
        BY <4>2, <1>t, OfToolSet
      <4> HIDE DEF t
      <4> QED BY <4>3, <1>t, OfToolSet, ToolSet
    <3> HIDE DEF t
    <3>3. n \in Machines /\ n.events = m.events /\ n.end = m.end /\ n.usage = m.usage
          /\ n.heard = m.heard
      BY <3>2 DEF Machines
    <3> HIDE DEF n
    <3>4. Bill(n)
      BY <3>3 DEF Bill, Owes, Messages!Bills
    <3> QED BY <3>1, <3>3, <3>4, <1>3
  <2>2. CASE e.of \notin DOMAIN m.tools
    <3>1. Messages!Handle(m, e) = m
      BY <1>3, <2>2 DEF Messages!Handle
    <3> QED BY <3>1, <1>3
  <2> QED BY <2>1, <2>2
<1>4. CASE e.type = "close"
  <2>1. Messages!Handle(m, e) = Messages!Closes(m, e.of) /\ e.of \in Messages!Calls
    BY <1>4 DEF Messages!Handle, Events
  <2>2. CASE e.of \notin DOMAIN m.tools
    <3>1. Messages!Handle(m, e) = m
      BY <2>1, <2>2 DEF Messages!Closes
    <3> QED BY <3>1, <1>4
  <2>3. CASE e.of \in DOMAIN m.tools
    <3> DEFINE call == [kind |-> "call", call |-> e.of, pieces |-> m.tools[e.of]]
               t == [d \in DOMAIN m.tools \ {e.of} |-> m.tools[d]]
               n == [m EXCEPT !.events = @ \o <<call>>, !.tools = t]
    <3>1. Messages!Handle(m, e) = n
      BY <2>1, <2>3 DEF Messages!Closes, Messages!Yields, Machines
    <3>2. t \in ToolSets
      <4>1. DOMAIN m.tools \ {e.of} \in SUBSET Messages!Calls
        BY <1>t, OfToolSet
      <4>2. t \in [DOMAIN m.tools \ {e.of} -> Seq(Nat)]
        BY <1>t, OfToolSet
      <4> HIDE DEF t
      <4> QED BY <4>1, <4>2, ToolSet
    <3>3. call \in MessagesYields /\ call.kind = "call"
      <4>1. m.tools[e.of] \in Seq(Nat)
        BY <2>3, <1>t, OfToolSet
      <4> QED BY <4>1, <2>1 DEF MessagesYields, Calling
    <3> HIDE DEF t, call
    <3>4. m.events \o <<call>> \in Seq(MessagesYields)
      BY <3>3, <1>t
    <3>5. n \in Machines /\ n.events = m.events \o <<call>> /\ n.end = m.end
          /\ n.usage = m.usage /\ n.heard = m.heard
      BY <3>2, <3>4 DEF Machines
    <3> HIDE DEF n
    <3>6. \A i \in DOMAIN n.events :
            n.events[i] = call \/ (i \in DOMAIN m.events /\ n.events[i] = m.events[i])
      BY <3>3, <3>5, <1>t
    <3>7. Messages!Bills(n) = {} /\ ~Owes(n)
      BY <3>3, <3>5, <3>6 DEF Bill, Owes, Messages!Bills
    <3> QED BY <3>1, <3>5, <3>7, <1>4 DEF Bill
  <2> QED BY <2>2, <2>3
<1>5. CASE e.type = "stop"
  <2> DEFINE rest == <<[kind |-> "final"]>>
             n == [m EXCEPT !.events = @ \o (Messages!PartialUsage(m) \o rest), !.end = "final"]
  <2>1. Messages!Handle(m, e) = n
    BY <1>5 DEF Messages!Handle, Messages!Finishes, Messages!Yields, Machines
  <2>2. rest \in Seq(MessagesYields) /\ \A i \in DOMAIN rest : rest[i].kind # "usage"
    BY DEF MessagesYields, Ending
  <2> HIDE DEF rest
  <2>3. Messages!PartialUsage(m) \in Seq(MessagesYields)
    BY PartialTyped
  <2>4. m.events \o (Messages!PartialUsage(m) \o rest) \in Seq(MessagesYields)
    BY <2>2, <2>3, <1>t
  <2>5. m.events \o (Messages!PartialUsage(m) \o rest)
          = m.events \o Messages!PartialUsage(m) \o rest
    <3>1. PICK a \in Seq(MessagesYields), b \in Seq(MessagesYields) :
             a = m.events /\ b = Messages!PartialUsage(m)
      BY <2>3, <1>t
    <3>2. a \o (b \o rest) = a \o b \o rest
      BY <2>2, Associates
    <3> QED BY <3>1, <3>2
  <2>6. n \in Machines /\ n.events = m.events \o Messages!PartialUsage(m) \o rest /\ n.end = "final"
        /\ n.usage = m.usage /\ n.heard = m.heard
    BY <2>4, <2>5 DEF Machines
  <2> HIDE DEF n
  <2>7. Bill(n)
    BY <2>2, <2>6, EndBills
  <2> QED BY <2>1, <2>6, <2>7, <1>5
<1>6. CASE e.type = "error"
  <2>1. Messages!Handle(m, e) = Messages!Failed(m)
    BY <1>6 DEF Messages!Handle
  <2> QED BY <2>1, <1>6, FailedBills
<1> QED BY <1>1, <1>2, <1>3, <1>4, <1>5, <1>6 DEF Events

\* A frame is handled, ends the stream, or comes too late.
LEMMA ReceivedTyped ==
    ASSUME Messages!MessagesAssumption, NEW m \in Machines, Bill(m), NEW frame \in Frames
    PROVE  /\ Messages!Received(m, frame) \in Machines /\ Bill(Messages!Received(m, frame))
           /\ Messages!Received(m, frame).end = "open" =>
                /\ m.end = "open" /\ frame.intact
                /\ Messages!Received(m, frame) = Messages!Handle(m, frame.event)
           /\ m.end # "open" => Messages!Received(m, frame) = m
           /\ m.end = "open" /\ ~frame.intact => Messages!Received(m, frame) = Messages!Failed(m)
           /\ m.end = "open" /\ frame.intact =>
                Messages!Received(m, frame) = Messages!Handle(m, frame.event)
<1>1. CASE m.end # "open"
  BY <1>1 DEF Messages!Received
<1>2. CASE m.end = "open" /\ frame.intact
  <2>1. Messages!Received(m, frame) = Messages!Handle(m, frame.event)
    BY <1>2 DEF Messages!Received
  <2>2. frame.event \in Events
    BY DEF Frames
  <2> QED BY <2>1, <2>2, <1>2, HandleTyped
<1>3. CASE m.end = "open" /\ ~frame.intact
  <2>1. Messages!Received(m, frame) = Messages!Failed(m)
    BY <1>3 DEF Messages!Received
  <2> QED BY <2>1, <1>3, FailedBills
<1> QED BY <1>1, <1>2, <1>3

\* A frame that carries the k-th snapshot.
Carries(frame, k) == frame.event.type = "usage" /\ frame.event.of = k

\* Of the snapshots stated, those after the first h travel in line behind the i-th
\* frame of s, none before the one it follows.
InLine(h, t, s, i) ==
    /\ \A j \in h + 1..t : \E p \in i + 1..Len(s) : Carries(s[p], j)
    /\ \A p \in i + 1..Len(s), k \in DOMAIN Counters : Carries(s[p], k) =>
         /\ k <= t
         /\ \A j \in h + 1..k - 1 : \E q \in i + 1..p - 1 : Carries(s[q], j)

\* The machine stands at the latest snapshot it heard.
UpToDate(m) == m.usage = Messages!AsOf(m.heard)

\* Handling the next frame in line.
LEMMA NextInLine ==
    ASSUME Messages!MessagesAssumption, NEW t \in 0..Len(Counters), NEW s \in Seq(Frames),
           NEW i \in 0..Len(s) - 1,
           NEW m \in Machines, Bill(m), UpToDate(m),
           m.end = "open" => InLine(m.heard, t, s, i),
           NEW n, n = Messages!Received(m, s[i + 1])
    PROVE  /\ n \in Machines /\ Bill(n) /\ UpToDate(n)
           /\ n.end = "open" => InLine(n.heard, t, s, i + 1)
<1>0. /\ i + 1 \in 1..Len(s) /\ s[i + 1] \in Frames /\ s[i + 1].event \in Events
      /\ Len(s) \in Nat /\ i \in Nat /\ Len(Counters) \in Nat /\ t \in Nat
  <2>1. Len(Counters) \in Nat /\ Len(s) \in Nat
    BY DEF Messages!MessagesAssumption
  <2>2. i + 1 \in 1..Len(s) /\ i \in Nat /\ t \in Nat
    BY <2>1
  <2>3. s[i + 1] \in Frames
    BY <2>2
  <2> QED BY <2>1, <2>2, <2>3 DEF Frames
<1>1. n \in Machines /\ Bill(n)
  BY <1>0, ReceivedTyped
<1>2. CASE m.end # "open"
  <2>1. n = m
    BY <1>0, <1>2, ReceivedTyped
  <2> QED BY <2>1, <1>1, <1>2
<1>3. CASE m.end = "open" /\ ~s[i + 1].intact
  <2>1. n = Messages!Failed(m)
    BY <1>0, <1>3, ReceivedTyped
  <2> QED BY <2>1, <1>1, <1>3, FailedBills DEF UpToDate
<1>4. CASE m.end = "open" /\ s[i + 1].intact /\ s[i + 1].event.type # "usage"
  <2>1. n = Messages!Handle(m, s[i + 1].event)
    BY <1>0, <1>4, ReceivedTyped
  <2>2. n.usage = m.usage /\ n.heard = m.heard
    BY <2>1, <1>0, <1>4, HandleTyped
  <2>3. \A k : ~Carries(s[i + 1], k)
    BY <1>4 DEF Carries
  <2>4. InLine(m.heard, t, s, i + 1)
    <3>1. ASSUME NEW j \in m.heard + 1..t PROVE \E p \in i + 2..Len(s) : Carries(s[p], j)
      <4>1. PICK p \in i + 1..Len(s) : Carries(s[p], j)
        BY <1>4 DEF InLine
      <4>2. p # i + 1
        BY <4>1, <2>3
      <4> QED BY <4>1, <4>2, <1>0
    <3>2. ASSUME NEW p \in i + 2..Len(s), NEW k \in DOMAIN Counters, Carries(s[p], k)
          PROVE  /\ k <= t
                 /\ \A j \in m.heard + 1..k - 1 : \E q \in i + 2..p - 1 : Carries(s[q], j)
      <4>1. p \in i + 1..Len(s)
        BY <1>0
      <4>2. /\ k <= t
            /\ \A j \in m.heard + 1..k - 1 : \E q \in i + 1..p - 1 : Carries(s[q], j)
        BY <4>1, <3>2, <1>4 DEF InLine
      <4>3. ASSUME NEW j \in m.heard + 1..k - 1 PROVE \E q \in i + 2..p - 1 : Carries(s[q], j)
        <5>1. PICK q \in i + 1..p - 1 : Carries(s[q], j)
          BY <4>2
        <5>2. q # i + 1
          BY <5>1, <2>3
        <5> QED BY <5>1, <5>2, <1>0
      <4> QED BY <4>2, <4>3
    <3>3. i + 1 + 1 = i + 2
      BY <1>0
    <3> QED BY <3>1, <3>2, <3>3 DEF InLine
  <2> QED BY <2>2, <2>4, <1>1 DEF UpToDate
<1>5. CASE m.end = "open" /\ s[i + 1].intact /\ s[i + 1].event.type = "usage"
  <2>0. PICK k \in DOMAIN Counters : k = s[i + 1].event.of
    BY <1>0, <1>5 DEF Events
  <2>1. n = Messages!Handle(m, s[i + 1].event)
    BY <1>0, <1>5, ReceivedTyped
  <2>2. /\ n.usage = Messages!Raised(m.usage, Counters[k])
        /\ n.heard = IF k > m.heard THEN k ELSE m.heard
    BY <2>0, <2>1, <1>0, <1>5, HandleTyped
  <2>3. Carries(s[i + 1], k) /\ k \in 1..Len(Counters)
    BY <2>0, <1>5 DEF Carries, Messages!MessagesAssumption
  <2>4. m.heard \in 0..Len(Counters)
    BY DEF Machines
  <2>5. k <= m.heard + 1
    <3> SUFFICES ASSUME k > m.heard + 1 PROVE FALSE
      BY <2>3, <2>4
    <3>1. k - 1 \in m.heard + 1..k - 1
      BY <2>3, <2>4
    <3>2. \A j \in m.heard + 1..k - 1 : \E q \in i + 1..i + 1 - 1 : Carries(s[q], j)
      BY <2>3, <1>0, <1>5 DEF InLine
    <3>3. PICK q \in i + 1..i + 1 - 1 : Carries(s[q], k - 1)
      BY <3>1, <3>2
    <3> QED BY <3>3, <1>0
  <2>6. UpToDate(n)
    <3>1. CASE k = m.heard + 1
      BY <3>1, <2>2, <2>3, <2>4, RisesToTheNext DEF UpToDate
    <3>2. CASE k <= m.heard
      BY <3>2, <2>2, <2>3, <2>4, <2>5, RisesToTheNext DEF UpToDate
    <3> QED BY <3>1, <3>2, <2>3, <2>4, <2>5
  <2>7. n.heard \in Nat /\ n.heard >= m.heard /\ n.heard >= k
    BY <2>2, <2>3, <2>4
  <2>8. \A j : j > n.heard => ~Carries(s[i + 1], j)
    BY <2>0, <2>3, <2>7 DEF Carries
  <2>9. InLine(n.heard, t, s, i + 1)
    <3>1. ASSUME NEW j \in n.heard + 1..t PROVE \E p \in i + 2..Len(s) : Carries(s[p], j)
      <4>0. j \in m.heard + 1..t /\ j > n.heard
        BY <2>4, <2>7
      <4>1. PICK p \in i + 1..Len(s) : Carries(s[p], j)
        BY <4>0, <1>5 DEF InLine
      <4>2. p # i + 1
        BY <4>0, <4>1, <2>8
      <4> QED BY <4>1, <4>2, <1>0
    <3>2. ASSUME NEW p \in i + 2..Len(s), NEW l \in DOMAIN Counters, Carries(s[p], l)
          PROVE  /\ l <= t
                 /\ \A j \in n.heard + 1..l - 1 : \E q \in i + 2..p - 1 : Carries(s[q], j)
      <4>1. p \in i + 1..Len(s) /\ l \in Nat
        BY <1>0 DEF Messages!MessagesAssumption
      <4>2. /\ l <= t
            /\ \A j \in m.heard + 1..l - 1 : \E q \in i + 1..p - 1 : Carries(s[q], j)
        BY <4>1, <3>2, <1>5 DEF InLine
      <4>3. ASSUME NEW j \in n.heard + 1..l - 1 PROVE \E q \in i + 2..p - 1 : Carries(s[q], j)
        <5>0. j \in m.heard + 1..l - 1 /\ j > n.heard
          BY <4>1, <2>4, <2>7
        <5>1. PICK q \in i + 1..p - 1 : Carries(s[q], j)
          BY <5>0, <4>2
        <5>2. q # i + 1
          BY <5>0, <5>1, <2>8
        <5> QED BY <5>1, <5>2, <1>0
      <4> QED BY <4>2, <4>3
    <3>3. i + 1 + 1 = i + 2
      BY <1>0
    <3> QED BY <3>1, <3>2, <3>3 DEF InLine
  <2> QED BY <2>6, <2>9, <1>1
<1> QED BY <1>2, <1>3, <1>4, <1>5

\* What g makes of a machine, frame by frame.
Receives(g, m, s, n) ==
    g = [i \in 0..n |-> IF i = 0 THEN m ELSE Messages!Received(g[i - 1], s[i])]

\* The recursion of ReceivedFirst has a solution.
LEMMA ReceivesSolvable ==
    ASSUME Messages!MessagesAssumption, NEW s \in Seq(Frames), NEW n \in 0..Len(s),
           NEW m \in Machines, Bill(m)
    PROVE  \E g : Receives(g, m, s, n)
<1> DEFINE V == {x \in Machines : Bill(x)}
           step == [i \in 1..n |-> [x \in V |-> Messages!Received(x, s[i])]]
<1>0. n \in Nat /\ m \in V /\ \A i \in 1..n : s[i] \in Frames
  OBVIOUS
<1>1. ASSUME NEW x \in V, NEW i \in 1..n
      PROVE  step[i][x] = Messages!Received(x, s[i]) /\ step[i][x] \in V
  <2>1. step[i][x] = Messages!Received(x, s[i])
    <3> HIDE DEF V
    <3> QED OBVIOUS
  <2>2. Messages!Received(x, s[i]) \in V
    <3>1. x \in Machines /\ Bill(x) /\ s[i] \in Frames
      BY <1>0
    <3>2. Messages!Received(x, s[i]) \in Machines /\ Bill(Messages!Received(x, s[i]))
      BY <3>1, ReceivedTyped
    <3> QED BY <3>2
  <2> QED BY <2>1, <2>2
<1>2. step \in [1..n -> [V -> V]]
  <2> HIDE DEF V
  <2> QED BY <1>1 DEF step
<1> HIDE DEF step, V
<1>3. PICK g : Steps(g, n, V, m, step)
  BY <1>0, <1>2, StepsSolvable
<1>4. ASSUME NEW i \in 0..n
      PROVE  g[i] = IF i = 0 THEN m ELSE Messages!Received(g[i - 1], s[i])
  <2>1. CASE i = 0
    BY <2>1, <1>3 DEF Steps
  <2>2. CASE i # 0
    <3>1. i \in 1..n /\ i - 1 \in 0..n
      BY <2>2, <1>0
    <3>2. g[i - 1] \in V
      BY <3>1, <1>3 DEF Steps
    <3> QED BY <3>1, <3>2, <1>1, <1>3, <2>2 DEF Steps
  <2> QED BY <2>1, <2>2
<1>5. g = [i \in 0..n |-> IF i = 0 THEN m ELSE Messages!Received(g[i - 1], s[i])]
  BY <1>3, <1>4 DEF Steps
<1> QED BY <1>5 DEF Receives

MessagesTypes ==
    /\ told \in 0..Len(Counters)
    /\ pipe \in Seq(Frames)
    /\ machine \in Machines

MessagesInvariant ==
    /\ MessagesTypes
    /\ Bill(machine) /\ UpToDate(machine)
    /\ Messages!Open => InLine(machine.heard, told, pipe, 0)

\* The frames of one read.
LEMMA ReadsInLine ==
    ASSUME Messages!MessagesAssumption, MessagesInvariant, Messages!Open, NEW n \in 0..Len(pipe)
    PROVE  /\ Messages!ReceivedFirst(n) \in Machines
           /\ Bill(Messages!ReceivedFirst(n)) /\ UpToDate(Messages!ReceivedFirst(n))
           /\ Messages!ReceivedFirst(n).end = "open" =>
                InLine(Messages!ReceivedFirst(n).heard, told, pipe, n)
<1>0. PICK m \in Machines, s \in Seq(Frames), t \in 0..Len(Counters) :
         m = machine /\ s = pipe /\ t = told
  BY DEF MessagesInvariant, MessagesTypes
<1>00. n \in 0..Len(s) /\ n \in Nat /\ Len(s) \in Nat
  BY <1>0
<1> DEFINE g == CHOOSE f : Receives(f, m, s, n)
           Good(x, i) ==
             /\ x \in Machines /\ Bill(x) /\ UpToDate(x)
             /\ x.end = "open" => InLine(x.heard, t, s, i)
           G == {i \in Nat : i <= n => Good(g[i], i)}
<1>1. Receives(g, m, s, n)
  <2>1. Bill(m)
    BY <1>0 DEF MessagesInvariant
  <2> QED BY <2>1, <1>00, ReceivesSolvable
<1>2. Messages!ReceivedFirst(n) = g[n]
  BY <1>0 DEF Messages!ReceivedFirst, Receives
<1> HIDE DEF g
<1>3. \A i \in 0..n : g[i] = IF i = 0 THEN m ELSE Messages!Received(g[i - 1], s[i])
  BY <1>1 DEF Receives
<1>4. 0 \in G
  <2>1. g[0] = m
    BY <1>3, <1>00
  <2>2. Good(m, 0)
    BY <1>0 DEF MessagesInvariant, Messages!Open
  <2> HIDE DEF Good
  <2> QED BY <2>1, <2>2
<1>5. \A i \in Nat : i \in G => i + 1 \in G
  <2> SUFFICES ASSUME NEW i \in Nat, i \in G, i + 1 <= n PROVE Good(g[i + 1], i + 1)
    <3> HIDE DEF Good
    <3> QED OBVIOUS
  <2>1. i + 1 \in 0..n /\ i + 1 # 0 /\ i + 1 - 1 = i /\ i <= n /\ i \in 0..Len(s) - 1
    BY <1>00
  <2>2. Good(g[i], i)
    <3> HIDE DEF Good
    <3> QED BY <2>1
  <2>3. g[i + 1] = Messages!Received(g[i], s[i + 1])
    <3>1. g[i + 1] = Messages!Received(g[i + 1 - 1], s[i + 1])
      BY <2>1, <1>3
    <3> QED BY <3>1, <2>1
  <2>4. PICK x \in Machines : x = g[i]
    BY <2>2
  <2>5. PICK y : y = g[i + 1]
    OBVIOUS
  <2>6. y = Messages!Received(x, s[i + 1]) /\ Bill(x) /\ UpToDate(x)
        /\ (x.end = "open" => InLine(x.heard, t, s, i))
    BY <2>2, <2>3, <2>4, <2>5
  <2>7. Good(y, i + 1)
    BY <2>1, <2>6, NextInLine
  <2> HIDE DEF Good
  <2> QED BY <2>5, <2>7
<1>6. n \in G
  <2> HIDE DEF G
  <2> QED BY <1>00, <1>4, <1>5, Induction
<1> QED BY <1>0, <1>00, <1>2, <1>6

\* What was handled leaves the line.
LEMMA LineAdvances ==
    ASSUME Messages!MessagesAssumption, NEW h \in Nat, NEW t \in 0..Len(Counters),
           NEW s \in Seq(Frames), NEW n \in 0..Len(s), InLine(h, t, s, n)
    PROVE  InLine(h, t, SubSeq(s, n + 1, Len(s)), 0)
<1>0. PICK r : r = SubSeq(s, n + 1, Len(s))
  OBVIOUS
<1>1. /\ Len(r) = Len(s) - n /\ Len(s) \in Nat /\ n \in Nat
      /\ \A p \in 1..Len(r) : r[p] = s[p + n]
  BY <1>0
<1>2. ASSUME NEW j \in h + 1..t PROVE \E p \in 0 + 1..Len(r) : Carries(r[p], j)
  <2>1. PICK p \in n + 1..Len(s) : Carries(s[p], j)
    BY DEF InLine
  <2>2. p - n \in 0 + 1..Len(r) /\ r[p - n] = s[p]
    BY <1>1
  <2> QED BY <2>1, <2>2
<1>3. ASSUME NEW p \in 0 + 1..Len(r), NEW k \in DOMAIN Counters, Carries(r[p], k)
      PROVE  /\ k <= t
             /\ \A j \in h + 1..k - 1 : \E q \in 0 + 1..p - 1 : Carries(r[q], j)
  <2>1. p + n \in n + 1..Len(s) /\ r[p] = s[p + n]
    BY <1>1
  <2>2. /\ k <= t
        /\ \A j \in h + 1..k - 1 : \E q \in n + 1..p + n - 1 : Carries(s[q], j)
    BY <2>1, <1>3 DEF InLine
  <2>3. ASSUME NEW j \in h + 1..k - 1 PROVE \E q \in 0 + 1..p - 1 : Carries(r[q], j)
    <3>1. PICK q \in n + 1..p + n - 1 : Carries(s[q], j)
      BY <2>2
    <3>2. q - n \in 0 + 1..p - 1 /\ r[q - n] = s[q]
      BY <1>1
    <3> QED BY <3>1, <3>2
  <2> QED BY <2>2, <2>3
<1>4. InLine(h, t, r, 0)
  BY <1>2, <1>3 DEF InLine
<1> QED BY <1>0, <1>4

\* What is sent joins it at its end.
LEMMA LineGrows ==
    ASSUME Messages!MessagesAssumption, NEW h \in Nat, NEW t \in 0..Len(Counters),
           NEW u \in 0..Len(Counters), NEW s \in Seq(Frames), InLine(h, t, s, 0),
           NEW frame \in Frames,
           \/ u = t /\ \A k : Carries(frame, k) => k <= t
           \/ u = t + 1 /\ \A k : Carries(frame, k) <=> k = u
    PROVE  InLine(h, u, Append(s, frame), 0)
<1>0. PICK r : r = Append(s, frame)
  OBVIOUS
<1>1. /\ Len(r) = Len(s) + 1 /\ Len(s) \in Nat /\ r[Len(r)] = frame
      /\ \A p \in 1..Len(s) : r[p] = s[p]
      /\ t \in Nat /\ u \in Nat /\ DOMAIN Counters = 1..Len(Counters) /\ Len(Counters) \in Nat
  BY <1>0 DEF Messages!MessagesAssumption
<1>2. ASSUME NEW j \in h + 1..t PROVE \E p \in 0 + 1..Len(r) - 1 : Carries(r[p], j)
  <2>1. PICK p \in 0 + 1..Len(s) : Carries(s[p], j)
    BY DEF InLine
  <2> QED BY <2>1, <1>1
<1>3. ASSUME NEW j \in h + 1..u PROVE \E p \in 0 + 1..Len(r) : Carries(r[p], j)
  <2>1. CASE j \in h + 1..t
    <3>1. PICK p \in 0 + 1..Len(r) - 1 : Carries(r[p], j)
      BY <2>1, <1>2
    <3> QED BY <3>1, <1>1
  <2>2. CASE j \notin h + 1..t
    <3>1. j = u /\ u = t + 1
      BY <2>2, <1>1
    <3>2. Carries(r[Len(r)], j) /\ Len(r) \in 0 + 1..Len(r)
      BY <3>1, <1>1
    <3> QED BY <3>2
  <2> QED BY <2>1, <2>2
<1>4. ASSUME NEW p \in 0 + 1..Len(r), NEW k \in DOMAIN Counters, Carries(r[p], k)
      PROVE  /\ k <= u
             /\ \A j \in h + 1..k - 1 : \E q \in 0 + 1..p - 1 : Carries(r[q], j)
  <2>1. CASE p \in 0 + 1..Len(s)
    <3>1. r[p] = s[p]
      BY <2>1, <1>1
    <3>2. /\ k <= t
          /\ \A j \in h + 1..k - 1 : \E q \in 0 + 1..p - 1 : Carries(s[q], j)
      BY <2>1, <3>1, <1>4 DEF InLine
    <3>3. \A q \in 0 + 1..p - 1 : r[q] = s[q]
      BY <2>1, <1>1
    <3> QED BY <3>2, <3>3, <1>1
  <2>2. CASE p = Len(r)
    <3>1. k <= u /\ k - 1 <= t
      BY <2>2, <1>1, <1>4
    <3>2. \A j \in h + 1..k - 1 : j \in h + 1..t
      BY <3>1, <1>1
    <3> QED BY <3>1, <3>2, <2>2, <1>2
  <2> QED BY <2>1, <2>2, <1>1
<1>5. InLine(h, u, r, 0)
  BY <1>3, <1>4 DEF InLine
<1> QED BY <1>0, <1>5

\* Nothing was sent, nothing is heard.
LEMMA MessagesInitially ==
    ASSUME Messages!MessagesAssumption, Messages!Init
    PROVE  MessagesInvariant
<1>0. Len(Counters) \in Nat
  BY DEF Messages!MessagesAssumption
<1>1. Messages!Silent \in Counts /\ Messages!Silent = Messages!AsOf(0)
  <2>1. \A f \in Messages!Fields : Messages!AsOf(0)[f] = Unstated
    BY <1>0, AsOfAt
  <2>2. Messages!AsOf(0) \in Counts
    BY <1>0, AsOfAt DEF Messages!Fields
  <2> QED BY <2>1, <2>2 DEF Messages!Silent, Counts
<1>2. [c \in {} |-> <<>>] \in ToolSets
  <2>1. [c \in {} |-> <<>>] \in [{} -> Seq(Nat)] /\ {} \in SUBSET Messages!Calls
    OBVIOUS
  <2> QED BY <2>1, ToolSet
<1>3. MessagesTypes
  BY <1>0, <1>1, <1>2 DEF Messages!Init, MessagesTypes, Machines
<1>4. Bill(machine) /\ UpToDate(machine)
  BY <1>1 DEF Messages!Init, Bill, Owes, Messages!Bills, UpToDate
<1>5. InLine(machine.heard, told, pipe, 0)
  BY DEF Messages!Init, InLine
<1> QED BY <1>3, <1>4, <1>5 DEF MessagesInvariant

\* What the upstream sends joins the line.
LEMMA SendsInLine ==
    ASSUME Messages!MessagesAssumption, MessagesInvariant, NEW e \in Events, Messages!Sends(e),
           \/ UNCHANGED told /\ \A k : e.type = "usage" /\ e.of = k => k <= told
           \/ told' = told + 1 /\ told' <= Len(Counters)
              /\ \A k : e.type = "usage" /\ e.of = k <=> k = told'
    PROVE  MessagesInvariant'
<1>0. PICK intact \in BOOLEAN : pipe' = Append(pipe, [event |-> e, intact |-> intact])
  BY DEF Messages!Sends
<1>1. PICK frame \in Frames : frame = [event |-> e, intact |-> intact]
  BY DEF Frames
<1>2. pipe' = Append(pipe, frame) /\ Messages!Open /\ machine' = machine /\ pipe \in Seq(Frames)
  BY <1>0, <1>1 DEF Messages!Sends, MessagesInvariant, MessagesTypes
<1>3. pipe' \in Seq(Frames)
  BY <1>2
<1>4. told' \in 0..Len(Counters) /\ told \in 0..Len(Counters) /\ Len(Counters) \in Nat
  BY DEF MessagesInvariant, MessagesTypes, Messages!MessagesAssumption
<1>5. MessagesTypes'
  BY <1>2, <1>3, <1>4 DEF MessagesInvariant, MessagesTypes
<1>6. (Bill(machine) /\ UpToDate(machine))'
  BY <1>2 DEF MessagesInvariant, Bill, Owes, Messages!Bills, UpToDate
<1>7. InLine(machine.heard, told, pipe, 0) /\ machine.heard \in Nat
  BY <1>2, <1>4 DEF MessagesInvariant, MessagesTypes, Machines
<1>8. PICK h \in Nat, t \in 0..Len(Counters), u \in 0..Len(Counters), s \in Seq(Frames) :
         h = machine.heard /\ t = told /\ u = told' /\ s = pipe
  BY <1>2, <1>4, <1>7
<1>9. InLine(h, u, Append(s, frame), 0)
  <2>1. InLine(h, t, s, 0)
    BY <1>7, <1>8
  <2>2. \/ u = t /\ \A k : Carries(frame, k) => k <= t
        \/ u = t + 1 /\ \A k : Carries(frame, k) <=> k = u
    BY <1>1, <1>8 DEF Carries
  <2> QED BY <2>1, <2>2, LineGrows
<1>10. InLine(machine.heard, told, pipe, 0)'
  BY <1>2, <1>8, <1>9
<1> QED BY <1>5, <1>6, <1>10 DEF MessagesInvariant

\* Every event, read and cut keeps the line.
LEMMA MessagesStays ==
    ASSUME Messages!MessagesAssumption, MessagesInvariant, [Messages!Next]_(Messages!vars)
    PROVE  MessagesInvariant'
<1>0. /\ told \in 0..Len(Counters) /\ Len(Counters) \in Nat
      /\ DOMAIN Counters = 1..Len(Counters)
  BY DEF MessagesInvariant, MessagesTypes, Messages!MessagesAssumption
<1>1. CASE Messages!StatesUsage
  <2> DEFINE e == [type |-> "usage", of |-> told + 1]
  <2>1. e \in Events /\ e.type = "usage" /\ e.of = told + 1
    BY <1>0, <1>1 DEF Events, Messages!StatesUsage
  <2>2. Messages!Sends(e) /\ told' = told + 1 /\ told' <= Len(Counters)
    BY <1>0, <1>1 DEF Messages!StatesUsage
  <2> HIDE DEF e
  <2> QED BY <2>1, <2>2, <1>0, SendsInLine
<1>2. ASSUME NEW k \in DOMAIN Counters, Messages!Replays(k) PROVE MessagesInvariant'
  <2> DEFINE e == [type |-> "usage", of |-> k]
  <2>1. e \in Events /\ e.type = "usage" /\ e.of = k
    BY DEF Events
  <2>2. Messages!Sends(e) /\ told' = told /\ k <= told
    BY <1>2 DEF Messages!Replays
  <2> HIDE DEF e
  <2> QED BY <2>1, <2>2, <1>0, SendsInLine
<1>3. ASSUME NEW c \in Messages!Calls,
             Messages!OpensBlock(c) \/ Messages!SendsPiece(c) \/ Messages!ClosesBlock(c)
      PROVE  MessagesInvariant'
  <2>1. PICK type \in {"open", "piece", "close"} : Messages!Sends([type |-> type, of |-> c])
    BY <1>3 DEF Messages!OpensBlock, Messages!SendsPiece, Messages!ClosesBlock
  <2> DEFINE e == [type |-> type, of |-> c]
  <2>2. e \in Events /\ e.type # "usage"
    BY DEF Events
  <2>3. Messages!Sends(e) /\ told' = told
    BY <1>3, <2>1 DEF Messages!OpensBlock, Messages!SendsPiece, Messages!ClosesBlock
  <2> HIDE DEF e
  <2> QED BY <2>2, <2>3, SendsInLine
<1>4. ASSUME NEW type \in {"stop", "error"}, Messages!Sends([type |-> type]),
             UNCHANGED told
      PROVE  MessagesInvariant'
  <2> DEFINE e == [type |-> type]
  <2>1. e \in Events /\ e.type # "usage"
    BY DEF Events
  <2> HIDE DEF e
  <2>2. Messages!Sends(e)
    BY <1>4 DEF e
  <2> QED BY <2>1, <2>2, <1>0, <1>4, SendsInLine
<1>5. CASE Messages!SendsStop
  BY <1>5, <1>4 DEF Messages!SendsStop
<1>6. CASE Messages!SendsError
  BY <1>6, <1>4 DEF Messages!SendsError
<1>7. CASE Messages!Cut
  <2>1. /\ machine \in Machines /\ machine.end = "open" /\ machine' = Messages!Failed(machine)
        /\ UNCHANGED <<told, pipe>> /\ Bill(machine) /\ UpToDate(machine)
    BY <1>7 DEF Messages!Cut, Messages!Open, MessagesInvariant, MessagesTypes
  <2>2. PICK m \in Machines : m = machine
    BY <2>1
  <2>3. /\ machine' \in Machines /\ Bill(machine') /\ machine'.end # "open"
        /\ UpToDate(machine')
    BY <2>1, <2>2, FailedBills DEF UpToDate
  <2> QED BY <2>1, <2>3 DEF MessagesInvariant, MessagesTypes, Messages!Open, Bill, Owes,
                            Messages!Bills, UpToDate
<1>8. ASSUME NEW halves \in 1..(2 * MaxInFlight), Messages!Read(halves) PROVE MessagesInvariant'
  <2>0. PICK s \in Seq(Frames) : s = pipe
    BY DEF MessagesInvariant, MessagesTypes
  <2>1. PICK n \in 0..Len(s) :
           machine' = Messages!ReceivedFirst(n) /\ pipe' = SubSeq(s, n + 1, Len(s))
    <3> DEFINE n == halves + (IF half THEN 1 ELSE 0)
    <3>1. /\ n <= 2 * Len(pipe) /\ machine' = Messages!ReceivedFirst(n \div 2)
          /\ pipe' = SubSeq(pipe, n \div 2 + 1, Len(pipe))
      BY <1>8 DEF Messages!Read
    <3>2. n \in Nat
      OBVIOUS
    <3> HIDE DEF n
    <3>3. n \div 2 \in 0..Len(s)
      BY <2>0, <3>1, <3>2
    <3> QED BY <2>0, <3>1, <3>3
  <2>2. UNCHANGED told /\ Messages!Open
    BY <1>8 DEF Messages!Read
  <2>3. /\ machine' \in Machines /\ Bill(machine') /\ UpToDate(machine')
        /\ machine'.end = "open" => InLine(machine'.heard, told, s, n)
    BY <2>0, <2>1, <2>2, ReadsInLine
  <2>4. pipe' \in Seq(Frames)
    BY <2>1
  <2>5. machine'.end = "open" => InLine(machine'.heard, told', pipe', 0)
    <3>1. PICK h \in Nat, t \in 0..Len(Counters) : h = machine'.heard /\ t = told
      BY <2>3, <1>0 DEF Machines
    <3> QED BY <3>1, <2>1, <2>2, <2>3, LineAdvances
  <2> QED BY <1>0, <2>2, <2>3, <2>4, <2>5
        DEF MessagesInvariant, MessagesTypes, Messages!Open, Bill, Owes, Messages!Bills,
            UpToDate
<1>9. CASE UNCHANGED Messages!vars
  BY <1>9 DEF Messages!vars, MessagesInvariant, MessagesTypes, Messages!Open, Bill, Owes,
              Messages!Bills, UpToDate
<1> QED BY <1>1, <1>2, <1>3, <1>5, <1>6, <1>7, <1>8, <1>9 DEF Messages!Next

LEMMA MessagesKept ==
    ASSUME MessagesInvariant
    PROVE  Messages!UsageKept
<1>1. Bill(machine) /\ machine.usage = Messages!AsOf(machine.heard)
  BY DEF MessagesInvariant, UpToDate
<1>2. PICK latest : latest = Messages!TokenUsage(Messages!AsOf(machine.heard))
  OBVIOUS
<1>3. Owes(machine) <=> (~Messages!Open /\ Messages!Billable(latest) /\ Messages!Plausible(latest))
  BY <1>1, <1>2 DEF Owes, Messages!Open
<1>4. Owes(machine) =>
         \E i \in DOMAIN machine.events :
            Messages!Bills(machine) = {i} /\ machine.events[i].usage = latest
  BY <1>1, <1>2 DEF Bill
<1> QED BY <1>1, <1>2, <1>3, <1>4 DEF Bill, Messages!UsageKept

\* However a stream of Messages events ends, the latest usage received is
\* yielded, once (absorb_usage, partial_usage, message_stop).
THEOREM MessagesUsageIsKept ==
    ASSUME Messages!MessagesAssumption PROVE Messages!Spec => []Messages!UsageKept
<1>1. Messages!Init => MessagesInvariant
  BY MessagesInitially
<1>2. MessagesInvariant /\ [Messages!Next]_(Messages!vars) => MessagesInvariant'
  BY MessagesStays
<1>3. MessagesInvariant => Messages!UsageKept
  BY MessagesKept
<1> QED BY <1>1, <1>2, <1>3, PTL DEF Messages!Spec

\* In either dialect the usage an upstream reported outlives the end of its stream
\* (absorb_usage and partial_usage of both machines).
THEOREM UsageStaysKept ==
    ASSUME Chat!ChatAssumption, Messages!MessagesAssumption
    PROVE  Chat!Spec /\ Messages!Spec => []UsageKept
<1>1. Chat!Spec => []Chat!UsageKept
  BY ChatUsageIsKept
<1>2. Messages!Spec => []Messages!UsageKept
  BY MessagesUsageIsKept
<1>3. Chat!UsageKept /\ Messages!UsageKept => UsageKept
  BY DEF UsageKept
<1> QED BY <1>1, <1>2, <1>3, PTL
=============================================================================
