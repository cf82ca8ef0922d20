----------------------------- MODULE WalkProofs -----------------------------
(***************************************************************************)
(* Proofs about Walk for every catalog, route and number of rungs, any mix *)
(* of failures and any number of other requests: the walk stays within its *)
(* route, whom it dispatches to, what it reports of a failed attestation,  *)
(* that it comes nearer to its end, and what it promises its reservation.  *)
(***************************************************************************)
EXTENDS Walk, RouteProofs

-----------------------------------------------------------------------------
(* Where a walk can be.                                                    *)

\* The walk is over what was built; while it is ordered, over what was looked at.
Fitted ==
    /\ Positions = 1..Len(Built)
    /\ pc = "ordering" => Ranking
    /\ pc # "ordering" => route \in Seq(Rungs) /\ Len(route) = Len(Built)

\* No rung ahead of the walk was called; the one it is at was, if a call is
\* under way, and has a call left, if it is to be called again.
Placed ==
    /\ pc = "ordering" => \A i \in Positions : calls[i] = 0
    /\ pc = "arriving" => \A i \in Positions : i >= at => calls[i] = 0
    /\ pc \in {"retrying", "inflight", "backoff"} =>
         at \in Positions /\ \A i \in Positions : i > at => calls[i] = 0
    /\ pc \in {"retrying", "backoff"} => calls[at] <= CandidateRetries
    /\ pc \in {"retrying", "inflight", "backoff"} => calls[at] > 0

Typed == TypeOK /\ Fitted /\ Placed

\* There is a position per rung built.
LEMMA Measured ==
    ASSUME TypeOK, Positions = 1..Len(Built)
    PROVE  Len(Built) \in Nat /\ Len(calls) = Len(Built)
<1>1. Len(Built) \in Nat
  BY BuiltTyped
<1>2. calls \in [1..Len(Built) -> 0..CandidateRetries + 1]
  BY DEF TypeOK
<1>3. calls \in Seq(0..CandidateRetries + 1)
  <2> DEFINE T == 0..CandidateRetries + 1
  <2>1. calls \in [1..Len(Built) -> T]
    BY <1>2
  <2> HIDE DEF T
  <2>2. calls \in Seq(T)
    BY <1>1, <2>1
  <2> QED BY <2>2 DEF T
<1>4. DOMAIN calls = 1..Len(calls) /\ Len(calls) \in Nat
  BY <1>3
<1> QED BY <1>1, <1>4 DEF Positions

LEMMA InitTyped == Init => Typed
<1> SUFFICES ASSUME Init PROVE Typed
  OBVIOUS
<1>1. Len(Built) \in Nat
  BY BuiltTyped
<1>2. Ranking
  BY RankingStarts DEF Init
<1>3. Positions = 1..Len(Built) /\ calls \in [Positions -> 0..3]
      /\ \A i \in Positions : calls[i] = 0
  BY DEF Init, Positions
<1>4. calls \in Seq(0..3)
  BY <1>1, <1>3
<1>5. Len(calls) \in Nat
  BY <1>4
<1>6. at \in 1..Len(calls) + 1
  BY <1>5 DEF Init, RouteInit
<1>7. HealthTypeOK
  BY HealthStarts DEF Init, RouteInit
<1>8. TypeOK
  <2>1. calls \in [Positions -> 0..CandidateRetries + 1]
    BY <1>3 DEF CandidateRetries
  <2>2. answers \in [Positions -> SUBSET Answers]
    <3>1. answers = [i \in Positions |-> {}]
      BY <1>3 DEF Init
    <3> QED BY <3>1
  <2> QED BY <1>6, <1>7, <2>1, <2>2 DEF Init, RouteInit, TypeOK
<1> QED BY <1>2, <1>3, <1>8 DEF Typed, Fitted, Placed, Init

\* No step changes the customer's keys, nor how many rungs there are.
LEMMA KeysStay ==
    ASSUME Typed, [Next]_vars
    PROVE  /\ UNCHANGED attached /\ Built' = Built /\ Rungs' = Rungs
           /\ DOMAIN calls' = DOMAIN calls
<1>1. UNCHANGED attached
  BY DEF Next, WalkNext, Order, RankOne, StartWalk, Skip, NextRung, Dispatch,
         EndsBeforeCall, Terminal, CallCutShort, Serve, Blank, Fail,
         AfterFailure, Wait, WaitCutShort, Exhaust, Drain, vars, routeVars
<1>2. DOMAIN calls' = DOMAIN calls
  <2>1. calls' = calls \/ calls' = [calls EXCEPT ![at] = @ + 1]
    BY DEF Next, WalkNext, Order, Skip, Dispatch, EndsBeforeCall, Terminal,
           CallCutShort, Serve, Blank, Fail, Wait, WaitCutShort, Exhaust,
           Drain, vars, walkVars
  <2> QED BY <2>1 DEF Typed, TypeOK
<1> QED BY <1>1, <1>2, BuiltStays

\* A walk under way that keeps its route stays fitted to it.
LEMMA StaysFitted ==
    ASSUME Typed, [Next]_vars, pc # "ordering", pc' # "ordering",
           UNCHANGED route
    PROVE  Fitted'
<1>1. Built' = Built /\ Rungs' = Rungs /\ DOMAIN calls' = DOMAIN calls
  BY KeysStay
<1> QED BY <1>1 DEF Typed, Fitted, Positions

\* A step that calls nobody.
LEMMA QuietTyped ==
    ASSUME Typed, [Next]_vars, pc # "ordering", pc # "done",
           UNCHANGED <<route, calls>>, 
           /\ HealthTypeOK'
           /\ answers' \in [Positions -> SUBSET Answers]
           /\ armed' \subseteq attached
           /\ {truncated, unattested, parameter, draining, billed}' \subseteq BOOLEAN
           /\ served' \subseteq Positions
           /\ result' \in {"none", "served", "unmetered", "exhausted",
                           "retention", "parameter", "timeout", "shutdown"},
           \/ pc' = "arriving" /\ at' = at + 1 /\ at <= Len(route)
           \/ pc' = "arriving" /\ at' = Len(route) + 1
           \/ pc' = "done" /\ at' = at
           \/ /\ pc' \in {"retrying", "backoff"} /\ at' = at
              /\ pc \in {"retrying", "inflight", "backoff"}
              /\ calls[at] <= CandidateRetries
    PROVE  Typed'
<1>1. Len(Built) \in Nat /\ Len(calls) = Len(Built) /\ Len(route) = Len(Built)
      /\ Positions = 1..Len(Built)
  BY Measured DEF Typed, Fitted
<1>2. Fitted'
  BY StaysFitted
<1>3. UNCHANGED attached
  BY KeysStay
<1>4. at \in 1..Len(calls) + 1
  BY DEF Typed, TypeOK
<1>5. at' \in 1..Len(calls) + 1
  BY <1>1, <1>4
<1>6. pc' \in {"arriving", "retrying", "backoff", "done"}
  OBVIOUS
<1>7. TypeOK'
  BY <1>3, <1>5, <1>6 DEF Typed, TypeOK, Positions
<1>8. Placed'
  <2>1. CASE pc' = "arriving" /\ at' = at + 1 /\ at <= Len(route)
    BY <1>1, <1>4, <2>1 DEF Typed, Placed, Positions, TypeOK
  <2>2. CASE pc' = "arriving" /\ at' = Len(route) + 1
    BY <1>1, <2>2 DEF Placed, Positions
  <2>3. CASE pc' = "done"
    BY <2>3 DEF Placed
  <2>4. CASE /\ pc' \in {"retrying", "backoff"} /\ at' = at
             /\ pc \in {"retrying", "inflight", "backoff"}
             /\ calls[at] <= CandidateRetries
    BY <2>4 DEF Typed, Placed, Positions
  <2> QED BY <2>1, <2>2, <2>3, <2>4
<1> QED BY <1>2, <1>7, <1>8 DEF Typed


\* The rung a walk under way is at is one that was built.
LEMMA HereTyped ==
    ASSUME Typed, pc \notin {"ordering", "done"}, at <= Len(route)
    PROVE  /\ at \in Positions /\ at \in 1..Len(route)
           /\ Here \in Rungs /\ Here.key \in Keys
<1>1. Len(Built) \in Nat /\ Len(calls) = Len(Built) /\ Len(route) = Len(Built)
      /\ Positions = 1..Len(Built) /\ route \in Seq(Rungs)
  BY Measured DEF Typed, Fitted
<1>2. at \in 1..Len(calls) + 1
  BY DEF Typed, TypeOK
<1>3. at \in 1..Len(route)
  BY <1>1, <1>2
<1>4. Here \in Rungs
  BY <1>1, <1>3 DEF Here
<1> QED BY <1>1, <1>3, <1>4 DEF Rungs

\* So is the rung of a call under way.
LEMMA CallTyped ==
    ASSUME Typed, pc \in {"retrying", "inflight", "backoff"}
    PROVE  at <= Len(route) /\ at \in Positions /\ Here \in Rungs
           /\ Here.key \in Keys
<1>1. Len(Built) \in Nat /\ Len(route) = Len(Built) /\ Positions = 1..Len(Built)
  BY Measured DEF Typed, Fitted
<1>2. at \in Positions
  BY DEF Typed, Placed
<1>3. at <= Len(route)
  BY <1>1, <1>2
<1> QED BY <1>3, HereTyped

\* What a call came to is folded into a well-formed registry.
LEMMA ObservedTyped ==
    ASSUME Typed, pc = "inflight", NEW outcome, Observe(Here.key, outcome),
           UNCHANGED others
    PROVE  HealthTypeOK'
<1>1. PICK k \in Keys : k = Here.key
  BY CallTyped
<1>2. Observe(k, outcome)
  BY <1>1 DEF Observe
<1>3. errorEwma' \in [Keys -> 0..1000] /\ cooling' \subseteq Keys
  BY <1>2, ObserveTyped DEF Typed, TypeOK
<1> QED BY <1>3 DEF Typed, TypeOK, HealthTypeOK

\* Where a failure takes the walk.
LEMMA FailureMoves ==
    ASSUME NEW class \in Classes, AfterFailure(class)
    PROVE  /\ UNCHANGED <<attached, route, sunk>>
           /\ truncated' \in {truncated, TRUE}
           /\ \/ pc' = "arriving" /\ at' = at + 1
              \/ pc' = "arriving" /\ at' = Len(route) + 1
              \/ pc' \in {"retrying", "backoff"} /\ at' = at /\ CallsLeft
<1>1. CASE class \in {"tooLong", "tooLongLimited"}
  BY <1>1 DEF AfterFailure, NextRung, routeVars
<1>2. CASE /\ class \notin {"tooLong", "tooLongLimited"}
           /\ \/ NonRetryable(class)
              \/ RateLimited(class) /\ Len(route) > 1
              \/ class \in {"limited", "retryable"} /\ ~CallsLeft
  BY <1>2 DEF AfterFailure, NextRung
<1>3. CASE /\ class \notin {"tooLong", "tooLongLimited"}
           /\ ~NonRetryable(class)
           /\ ~(RateLimited(class) /\ Len(route) > 1)
           /\ ~(class \in {"limited", "retryable"} /\ ~CallsLeft)
  <2>1. class \in {"limited", "retryable"} /\ CallsLeft
    BY <1>3 DEF Classes, NonRetryable
  <2> QED BY <1>3, <2>1 DEF AfterFailure, routeVars
<1> QED BY <1>1, <1>2, <1>3

\* A failed call keeps the walk well-formed.
LEMMA FailTyped ==
    ASSUME Typed, NEW class \in Classes, Fail(class)
    PROVE  Typed'
<1>1. pc = "inflight" /\ AfterFailure(class) /\ Possible(class)
  BY DEF Fail, Answered
<1>2. at <= Len(route) /\ at \in Positions /\ Here \in Rungs
  BY <1>1, CallTyped
<1>3. HealthTypeOK'
  BY <1>1, ObservedTyped DEF Fail
<1>4. answers' \in [Positions -> SUBSET Answers]
  BY <1>1, <1>2 DEF Fail, Possible, Typed, TypeOK
<1>5. armed' \subseteq attached
  BY <1>2 DEF Fail, Rungs, Typed, TypeOK
<1>6. /\ truncated' \in {truncated, TRUE} /\ UNCHANGED <<attached, route>>
      /\ \/ pc' = "arriving" /\ at' = at + 1
         \/ pc' = "arriving" /\ at' = Len(route) + 1
         \/ pc' \in {"retrying", "backoff"} /\ at' = at /\ CallsLeft
  BY <1>1, FailureMoves
<1>7. {truncated, unattested, parameter, draining, billed}' \subseteq BOOLEAN
  <2>1. {truncated, unattested, parameter, draining, billed} \subseteq BOOLEAN
    BY DEF Typed, TypeOK
  <2>2. /\ unattested' \in BOOLEAN /\ parameter' \in BOOLEAN
        /\ UNCHANGED <<draining, billed>>
    BY DEF Fail
  <2> QED BY <1>6, <2>1, <2>2
<1>8. UNCHANGED <<calls, served, result>> /\ [Next]_vars
  BY DEF Fail, Next, WalkNext
<1>9. /\ served' \subseteq Positions
      /\ result' \in {"none", "served", "unmetered", "exhausted",
                      "retention", "parameter", "timeout", "shutdown"}
  BY <1>8 DEF Typed, TypeOK
<1> QED BY <1>1, <1>2, <1>3, <1>4, <1>5, <1>6, <1>7, <1>8, <1>9, QuietTyped
        DEF CallsLeft

\* An ordering step keeps what has been ranked, or starts the walk.
LEMMA OrderTyped == ASSUME Typed, Order PROVE Typed'
<1>1. /\ pc = "ordering" /\ Ranking
      /\ UNCHANGED <<healthVars, calls, answers, armed, truncated, unattested,
                     parameter, draining, result, served, billed>>
  BY DEF Order, Typed, Fitted
<1>2. Len(Built) \in Nat /\ Len(calls) = Len(Built) /\ Positions = 1..Len(Built)
  BY Measured DEF Typed, Fitted
<1>3. \A i \in Positions : calls[i] = 0
  BY <1>1 DEF Typed, Placed
<1>4. attached' = attached /\ Built' = Built /\ Rungs' = Rungs
  BY BuiltStays DEF Order, RankOne, StartWalk
<1>5. CASE RankOne /\ UNCHANGED pc
  <2>1. Ranking'
    BY <1>1, <1>5, RankOneRanks
  <2>2. Fitted'
    BY <1>1, <1>4, <1>5, <2>1 DEF Typed, Fitted, Positions
  <2>3. at' \in 1..Len(calls) + 1
    BY <1>2, <1>4, <2>1 DEF Ranking
  <2>4. TypeOK'
    BY <1>1, <1>4, <1>5, <2>3 DEF Typed, TypeOK, HealthTypeOK, healthVars, Positions
  <2>5. Placed'
    BY <1>1, <1>3, <1>5 DEF Placed, Positions
  <2> QED BY <2>2, <2>4, <2>5 DEF Typed
<1>6. CASE StartWalk /\ pc' = "arriving"
  <2>1. /\ route' \in Seq(Rungs) /\ Len(route') = Len(Built) /\ at' = 1
    BY <1>1, <1>6, WalkStarts
  <2>2. Fitted'
    BY <1>1, <1>4, <1>6, <2>1 DEF Typed, Fitted, Positions
  <2>3. at' \in 1..Len(calls) + 1
    BY <1>2, <2>1
  <2>4. TypeOK'
    BY <1>1, <1>4, <1>6, <2>3 DEF Typed, TypeOK, HealthTypeOK, healthVars, Positions
  <2>5. Placed'
    BY <1>1, <1>3, <1>6 DEF Placed, Positions
  <2> QED BY <2>2, <2>4, <2>5 DEF Typed
<1> QED BY <1>5, <1>6 DEF Order


\* A walk about to call a rung is at one, with a call of it left.
LEMMA ReadyTyped ==
    ASSUME Typed, Ready
    PROVE  /\ pc \in {"arriving", "retrying"}
           /\ at \in Positions /\ at <= Len(route) /\ Here \in Rungs
           /\ calls[at] \in 0..CandidateRetries
           /\ \A i \in Positions : i > at => calls[i] = 0
<1>1. CASE pc = "retrying"
  <2>1. calls[at] \in 0..3 /\ calls[at] <= 2
    BY <1>1, CallTyped DEF Typed, TypeOK, Placed, CandidateRetries
  <2> QED BY <1>1, <2>1, CallTyped DEF Typed, Placed, CandidateRetries
<1>2. CASE pc = "arriving" /\ at <= Len(route)
  <2>1. at \in Positions /\ at \in 1..Len(route) /\ Here \in Rungs
    BY <1>2, HereTyped
  <2>2. \A i \in Positions : i >= at => calls[i] = 0
    BY <1>2 DEF Typed, Placed
  <2>3. Positions \subseteq Int
    BY DEF Typed, Fitted
  <2>4. calls[at] = 0 /\ \A i \in Positions : i > at => calls[i] = 0
    BY <2>1, <2>2, <2>3
  <2> QED BY <1>2, <2>1, <2>4 DEF CandidateRetries
<1> QED BY <1>1, <1>2 DEF Ready

LEMMA DispatchTyped == ASSUME Typed, Dispatch PROVE Typed'
<1>1. /\ pc' = "inflight" /\ calls' = [calls EXCEPT ![at] = @ + 1]
      /\ UNCHANGED <<healthVars, routeVars, answers, armed, truncated,
                     unattested, parameter, draining, result, served, billed>>
  BY DEF Dispatch
<1>2. [Next]_vars
  BY DEF Next, WalkNext
<1>3. /\ pc \in {"arriving", "retrying"} /\ at \in Positions
      /\ calls[at] \in 0..CandidateRetries
      /\ \A i \in Positions : i > at => calls[i] = 0
  BY ReadyTyped DEF Dispatch
<1>4. calls \in [Positions -> 0..CandidateRetries + 1] /\ Positions \subseteq Int
  BY DEF Typed, TypeOK, Fitted
<1>5. calls' \in [Positions -> 0..CandidateRetries + 1] /\ Positions' = Positions
  BY <1>1, <1>3, <1>4 DEF Positions, CandidateRetries
<1>6. Fitted'
  BY <1>1, <1>2, <1>3, StaysFitted DEF routeVars
<1>7. Built' = Built
  BY <1>2, KeysStay
<1>8. Len(calls') = Len(calls)
  <2>1. calls \in Seq(0..3) /\ calls' \in Seq(0..3)
    <3>1. Len(Built) \in Nat /\ Positions = 1..Len(Built)
      BY Measured DEF Typed, Fitted
    <3> QED BY <1>4, <1>5, <3>1 DEF CandidateRetries
  <2>2. Positions = 1..Len(calls) /\ Positions = 1..Len(calls')
    BY <1>5, <2>1 DEF Positions
  <2>3. Len(calls) \in Nat /\ Len(calls') \in Nat
    BY <2>1
  <2> QED BY <2>2, <2>3
<1>9. TypeOK'
  BY <1>1, <1>5, <1>8 DEF Typed, TypeOK, HealthTypeOK, healthVars, routeVars
<1>10. Placed'
  BY <1>1, <1>3, <1>4, <1>5 DEF Placed, routeVars, CandidateRetries
<1> QED BY <1>6, <1>9, <1>10 DEF Typed

\* A terminal keeps the walk well-formed.
LEMMA TerminalTyped ==
    ASSUME Typed, [Next]_vars, pc \notin {"ordering", "done"}, HealthTypeOK',
           NEW how \in {"exhausted", "retention", "parameter", "timeout",
                        "shutdown"}, Terminal(how)
    PROVE  Typed'
  BY QuietTyped DEF Terminal, Typed, TypeOK, routeVars

LEMMA NextTyped == Typed /\ [Next]_vars => Typed'
<1> SUFFICES ASSUME Typed, [Next]_vars PROVE Typed'
  OBVIOUS
<1>0. /\ HealthTypeOK /\ UNCHANGED healthVars => HealthTypeOK'
      /\ {truncated, unattested, parameter, draining, billed} \subseteq BOOLEAN
  <2>1. HealthTypeOK /\ UNCHANGED healthVars => HealthTypeOK'
    BY DEF HealthTypeOK, healthVars
  <2>2. {truncated, unattested, parameter, draining, billed} \subseteq BOOLEAN
    BY DEF Typed, TypeOK
  <2> QED BY <2>1, <2>2
<1>1. CASE Order
  BY <1>1, OrderTyped
<1>2. CASE Skip
  BY <1>0, <1>2, QuietTyped DEF Skip, NextRung, Typed, TypeOK
<1>3. CASE Dispatch
  BY <1>3, DispatchTyped
<1>4. CASE EndsBeforeCall
  <2>1. pc \in {"arriving", "retrying"} /\ HealthTypeOK'
    BY <1>0, <1>4 DEF EndsBeforeCall, Ready, Typed, TypeOK
  <2>2. Terminal("timeout") \/ Terminal("shutdown")
    BY <1>4 DEF EndsBeforeCall
  <2> QED BY <2>1, <2>2, TerminalTyped
<1>5. CASE CallCutShort
  <2>1. pc = "inflight"
    BY <1>5 DEF CallCutShort
  <2>2. CASE Terminal("timeout") /\ Observe(Here.key, "timeout")
    <3>1. HealthTypeOK'
      BY <1>5, <2>1, <2>2, ObservedTyped DEF CallCutShort
    <3> QED BY <2>1, <2>2, <3>1, TerminalTyped
  <2>3. CASE Terminal("shutdown") /\ UNCHANGED <<errorEwma, cooling>>
    <3>1. HealthTypeOK'
      BY <1>0, <1>5, <2>3 DEF CallCutShort, Typed, TypeOK, healthVars
    <3> QED BY <2>1, <2>3, <3>1, TerminalTyped
  <2> QED BY <1>5, <2>2, <2>3 DEF CallCutShort
<1>6. CASE Serve
  <2>1. pc = "inflight" /\ pc' = "done" /\ UNCHANGED <<others, routeVars, calls,
                   answers, armed, truncated, unattested, parameter, draining>>
    BY <1>6 DEF Serve, Answered
  <2>2. HealthTypeOK'
    BY <1>6, <2>1, ObservedTyped DEF Serve
  <2>3. at \in Positions
    BY <2>1, CallTyped
  <2>4. /\ result' \in {"served", "unmetered"}
        /\ billed' \in {billed, TRUE} /\ served' \subseteq served \cup {at}
    BY <1>6 DEF Serve
  <2> QED BY <1>0, <2>1, <2>2, <2>3, <2>4, QuietTyped
          DEF Typed, TypeOK, routeVars
<1>7. CASE Blank
  BY <1>0, <1>7, QuietTyped DEF Blank, Answered, CallsLeft, routeVars, Typed, TypeOK
<1>8. ASSUME NEW class \in Classes, Fail(class) PROVE Typed'
  BY <1>8, FailTyped
<1>9. CASE Wait
  <2>1. calls[at] <= CandidateRetries
    BY <1>9 DEF Wait, Typed, Placed
  <2> QED BY <1>0, <1>9, <2>1, QuietTyped DEF Wait, routeVars, Typed, TypeOK
<1>10. CASE WaitCutShort
  BY <1>0, <1>10, TerminalTyped DEF WaitCutShort, Typed, TypeOK
<1>11. CASE Exhaust
  <2>1. ExhaustedWith \in {"exhausted", "retention", "parameter"}
    BY DEF ExhaustedWith
  <2>2. PICK how \in {"exhausted", "retention", "parameter"} : Terminal(how)
    BY <1>11, <2>1 DEF Exhaust, Terminal
  <2> QED BY <1>0, <1>11, <2>2, TerminalTyped DEF Exhaust, Typed, TypeOK
<1>12. CASE \/ Drain \/ UNCHANGED vars
            \/ (OthersObserve \/ CooldownEnds) /\ UNCHANGED <<routeVars, walkVars>>
  <2>1. UNCHANGED <<route, sunk, at, attached, pc, calls, answers, armed, truncated,
                    unattested, parameter, result, served, billed>>
    BY <1>12 DEF Drain, vars, routeVars, walkVars
  <2>2. HealthTypeOK'
    BY <1>0, <1>12, OthersTyped DEF Drain, vars, Typed, TypeOK
  <2>3. draining' \in BOOLEAN
    BY <1>0, <1>12 DEF Drain, vars, walkVars
  <2>4. TypeOK'
    BY <2>1, <2>2, <2>3 DEF Typed, TypeOK, Positions
  <2>5. Built' = Built /\ Rungs' = Rungs
    BY KeysStay
  <2>6. Fitted' /\ Placed'
    BY <2>1, <2>5 DEF Typed, Fitted, Placed, Positions, Ranking
  <2> QED BY <2>4, <2>6 DEF Typed
<1> QED BY <1>1, <1>2, <1>3, <1>4, <1>5, <1>6, <1>7, <1>8, <1>9, <1>10, <1>11,
           <1>12 DEF Next, WalkNext

\* The invariants below are stated over a walk that is well-formed.
THEOREM TypeCorrect == Spec => []TypeOK
<1>1. Spec => []Typed
  BY InitTyped, NextTyped, PTL DEF Spec
<1>2. Typed => TypeOK
  BY DEF Typed
<1> QED BY <1>1, <1>2, PTL


-----------------------------------------------------------------------------
(* Whom a walk may dispatch to.                                            *)

Covered == Classes \ {"accountRefused"}

\* On a routed id the walk's zero-retention rungs precede the others.
Sorted ==
    pc # "ordering" /\ Routed =>
        \A i, j \in DOMAIN route : i < j /\ route[j].zero => route[i].zero

\* A provider's fallback is armed by one of its own-key rungs, and every twin
\* that was called is of an armed provider.
Armed ==
    /\ pc = "ordering" => armed = {}
    /\ \A p \in armed : \E j \in DOMAIN route :
         /\ route[j].byok /\ route[j].provider = p
         /\ answers[j] \cap Covered # {}
    /\ pc # "ordering" =>
         \A i \in DOMAIN route :
            route[i].twin /\ calls[i] > 0 => route[i].provider \in armed

\* A step that neither calls nor hears anyone.
LEMMA QuietArmed ==
    ASSUME Sorted, Armed, pc # "ordering", pc' # "ordering",
           UNCHANGED <<route, calls, answers, armed>>
    PROVE  Sorted' /\ Armed'
  BY DEF Sorted, Armed

LEMMA OrderArmed ==
    ASSUME Typed, Armed, Order
    PROVE  Sorted' /\ Armed'
<1>1. /\ pc = "ordering" /\ Ranking /\ armed = {}
      /\ UNCHANGED <<calls, answers, armed>>
      /\ \A i \in Positions : calls[i] = 0
  BY DEF Order, Typed, Fitted, Placed, Armed
<1>2. CASE RankOne /\ UNCHANGED pc
  BY <1>1, <1>2 DEF Sorted, Armed
<1>3. CASE StartWalk /\ pc' = "arriving"
  <2>1. /\ route' \in Seq(Rungs) /\ Len(route') = Len(Built)
        /\ Routed => \A i, j \in 1..Len(route') :
                        i < j /\ route'[j].zero => route'[i].zero
    BY <1>1, <1>3, WalkStarts
  <2>2. DOMAIN route' = 1..Len(route') /\ Positions = DOMAIN route'
    BY <2>1 DEF Typed, Fitted
  <2>3. Sorted'
    BY <2>1, <2>2 DEF Sorted
  <2>4. \A i \in DOMAIN route' : calls'[i] = 0
    BY <1>1, <2>2
  <2>5. Armed'
    BY <1>1, <2>4 DEF Armed
  <2> QED BY <2>3, <2>5
<1> QED BY <1>2, <1>3 DEF Order

\* A rung is called when it is open, or was called before.
LEMMA DispatchArmed ==
    ASSUME Typed, Sorted, Armed, Dispatch
    PROVE  Sorted' /\ Armed'
<1>1. /\ pc \in {"arriving", "retrying"} /\ at \in Positions
  BY ReadyTyped DEF Dispatch
<1>2. /\ pc' = "inflight" /\ calls' = [calls EXCEPT ![at] = @ + 1]
      /\ UNCHANGED <<route, answers, armed>>
  BY DEF Dispatch, routeVars
<1>3. route[at].twin => route[at].provider \in armed
  <2>1. CASE pc = "retrying"
    <3>1. calls[at] > 0
      BY <2>1 DEF Typed, Placed
    <3>2. DOMAIN route = Positions
      BY <2>1 DEF Typed, Fitted
    <3> QED BY <1>1, <2>1, <3>1, <3>2 DEF Armed
  <2>2. CASE pc = "arriving"
    BY <2>2 DEF Dispatch, Ready, Closed, Here
  <2> QED BY <1>1, <2>1, <2>2
<1>4. \A i \in Positions : i # at => calls'[i] = calls[i]
  BY <1>2 DEF Positions
<1>5. DOMAIN route = Positions
  BY <1>1 DEF Typed, Fitted
<1>6. Sorted'
  BY <1>1, <1>2 DEF Sorted
<1>7. \A i \in DOMAIN route :
         route[i].twin /\ calls'[i] > 0 => route[i].provider \in armed
  BY <1>1, <1>3, <1>4, <1>5 DEF Armed
<1> QED BY <1>1, <1>2, <1>6, <1>7 DEF Armed

\* A failure arms the provider of the own key that failed.
LEMMA FailArmed ==
    ASSUME Typed, Sorted, Armed, NEW class \in Classes, Fail(class)
    PROVE  Sorted' /\ Armed'
<1>1. pc = "inflight" /\ AfterFailure(class) /\ UNCHANGED calls
  BY DEF Fail, Answered
<1>2. UNCHANGED route /\ pc' # "ordering"
  BY <1>1, FailureMoves
<1>3. at \in Positions /\ DOMAIN route = Positions /\ DOMAIN answers = Positions
  BY <1>1, CallTyped DEF Typed, Fitted, TypeOK
<1>4. /\ answers' = [answers EXCEPT ![at] = @ \cup {class}]
      /\ armed' = IF Here.byok /\ PermitsFallback(class)
                  THEN armed \cup {Here.provider} ELSE armed
  BY DEF Fail
<1>5. \A i \in Positions : answers[i] \subseteq answers'[i]
  BY <1>3, <1>4
<1>6. class \in answers'[at]
  BY <1>3, <1>4
<1>7. \A p \in armed' : \E j \in DOMAIN route :
         /\ route[j].byok /\ route[j].provider = p
         /\ answers'[j] \cap Covered # {}
  <2> SUFFICES ASSUME NEW p \in armed'
               PROVE  \E j \in DOMAIN route :
                         /\ route[j].byok /\ route[j].provider = p
                         /\ answers'[j] \cap Covered # {}
    OBVIOUS
  <2>1. CASE p \in armed
    <3>1. PICK j \in DOMAIN route :
             /\ route[j].byok /\ route[j].provider = p
             /\ answers[j] \cap Covered # {}
      BY <2>1 DEF Armed
    <3>2. answers'[j] \cap Covered # {}
      BY <1>3, <1>5, <3>1
    <3> QED BY <3>1, <3>2
  <2>2. CASE p \notin armed
    <3>1. Here.byok /\ PermitsFallback(class) /\ p = Here.provider
      BY <1>4, <2>2
    <3>2. class \in Covered
      BY <3>1 DEF PermitsFallback, Covered
    <3> QED BY <1>3, <1>6, <3>1, <3>2 DEF Here
  <2> QED BY <2>1, <2>2
<1>8. armed \subseteq armed'
  BY <1>4
<1>9. Sorted'
  BY <1>1, <1>2 DEF Sorted
<1>10. Armed'
  BY <1>1, <1>2, <1>7, <1>8 DEF Armed
<1> QED BY <1>9, <1>10

LEMMA NextArmed ==
    Typed /\ Sorted /\ Armed /\ [Next]_vars => Sorted' /\ Armed'
<1> SUFFICES ASSUME Typed, Sorted, Armed, [Next]_vars PROVE Sorted' /\ Armed'
  OBVIOUS
<1>1. CASE Order
  BY <1>1, OrderArmed
<1>2. CASE Dispatch
  BY <1>2, DispatchArmed
<1>3. ASSUME NEW class \in Classes, Fail(class) PROVE Sorted' /\ Armed'
  BY <1>3, FailArmed
<1>4. CASE \/ Skip \/ EndsBeforeCall \/ CallCutShort \/ Serve \/ Blank
           \/ Wait \/ WaitCutShort \/ Exhaust
  <2>1. pc # "ordering" /\ pc' # "ordering"
    BY <1>4 DEF Skip, NextRung, EndsBeforeCall, Ready, Terminal, CallCutShort,
                Serve, Answered, Blank, Wait, WaitCutShort, Exhaust
  <2>2. UNCHANGED <<route, calls, answers, armed>>
    BY <1>4 DEF Skip, NextRung, EndsBeforeCall, Terminal, CallCutShort, Serve,
                Blank, Wait, WaitCutShort, Exhaust, routeVars
  <2> QED BY <2>1, <2>2, QuietArmed
<1>5. CASE \/ Drain \/ UNCHANGED vars
           \/ (OthersObserve \/ CooldownEnds) /\ UNCHANGED <<routeVars, walkVars>>
  <2>1. UNCHANGED <<route, pc, calls, answers, armed>>
    BY <1>5 DEF Drain, vars, routeVars, walkVars
  <2> QED BY <2>1 DEF Sorted, Armed
<1> QED BY <1>1, <1>2, <1>3, <1>4, <1>5 DEF Next, WalkNext

LEMMA InitArmed == Init => Sorted /\ Armed
  BY DEF Init, Sorted, Armed

\* While the route is being ordered nobody was called.
LEMMA OrderingCallsNobody ==
    ASSUME Typed, pc = "ordering"
    PROVE  \A i \in DOMAIN route : calls[i] = 0
<1>1. /\ Positions = 1..Len(Built) /\ Ranking
      /\ \A i \in Positions : calls[i] = 0
  BY DEF Typed, Fitted, Placed
<1>2. /\ Len(Built) \in Nat /\ route \in Seq(Rungs) /\ sunk \in Seq(Rungs)
      /\ at \in 1..Len(Built) + 1 /\ Len(route) + Len(sunk) = at - 1
  BY <1>1, BuiltTyped DEF Ranking
<1>3. Len(route) \in Nat /\ Len(sunk) \in Nat /\ DOMAIN route = 1..Len(route)
  BY <1>2
<1>4. Len(route) <= Len(Built)
  BY <1>2, <1>3
<1> QED BY <1>1, <1>2, <1>3, <1>4


LEMMA SortedAllows == Typed /\ Sorted => ZeroRetentionFirst
<1> SUFFICES ASSUME Typed, Sorted, NEW i \in DOMAIN route, NEW j \in DOMAIN route,
                    Routed, calls[i] > 0, ~route[i].zero, route[j].zero
             PROVE  j < i
  BY DEF ZeroRetentionFirst
<1>1. pc # "ordering"
  BY OrderingCallsNobody
<1>2. route \in Seq(Rungs)
  BY <1>1 DEF Typed, Fitted
<1>3. i \in Int /\ j \in Int
  BY <1>2
<1>4. ~(i < j) /\ i # j
  BY <1>1 DEF Sorted
<1> QED BY <1>3, <1>4

LEMMA ArmedAllows == Typed /\ Armed => FallbackEarned
<1> SUFFICES ASSUME Typed, Armed, NEW i \in DOMAIN route,
                    route[i].twin, calls[i] > 0
             PROVE  \E j \in DOMAIN route :
                       /\ route[j].byok /\ route[j].provider = route[i].provider
                       /\ answers[j] \cap (Classes \ {"accountRefused"}) # {}
  BY DEF FallbackEarned
<1>1. pc # "ordering"
  BY OrderingCallsNobody
<1> QED BY <1>1 DEF Armed, Covered

\* On a routed id no standard-retention rung sees the prompt while a
\* zero-retention rung is still to come, for every tier, every set of attached
\* keys, and whatever health did while the route was ordered.
THEOREM RetentionOrderHolds == Spec => []ZeroRetentionFirst
<1>1. Spec => [](Typed /\ Sorted /\ Armed)
  BY InitTyped, NextTyped, InitArmed, NextArmed, PTL DEF Spec
<1>2. Typed /\ Sorted /\ Armed => ZeroRetentionFirst
  BY SortedAllows
<1> QED BY <1>1, <1>2, PTL

\* Each dispatch is one the customer's terms allow: it keeps to the retention
\* order, and at the full price it follows a covered failure of the customer's own
\* key for its provider (byok_fallback_armed), whatever models of that provider and
\* of others a tier holds.
THEOREM OnlyAllowedDispatches == Spec => []DispatchesAllowed
<1>1. Spec => [](Typed /\ Sorted /\ Armed)
  BY InitTyped, NextTyped, InitArmed, NextArmed, PTL DEF Spec
<1>2. Typed /\ Sorted /\ Armed => DispatchesAllowed
  BY SortedAllows, ArmedAllows DEF DispatchesAllowed
<1> QED BY <1>1, <1>2, PTL

-----------------------------------------------------------------------------
(* How far a walk is from its end.                                         *)


Stage(p) == CASE p = "inflight" -> 2 [] p = "backoff" -> 1 [] OTHER -> 0

\* What is left of a walk at a rung, past its last one, and while it is ordered.
LeftKnown ==
    /\ pc \notin {"ordering", "done"} =>
         /\ Len(route) \in Nat /\ at \in 1..Len(route) + 1
         /\ at <= Len(route) =>
              /\ calls[at] \in 0..3
              /\ Left = 10 * (Len(route) + 1 - at) + 3 * (3 - calls[at])
                        + Stage(pc)
         /\ at > Len(route) =>
              pc = "arriving" /\ at = Len(route) + 1 /\ Left = 0
    /\ pc = "arriving" /\ at <= Len(route) => calls[at] = 0
    /\ pc \in {"retrying", "inflight", "backoff"} =>
         at <= Len(route) /\ calls[at] > 0
    /\ pc = "ordering" =>
         /\ Len(Built) \in Nat /\ at \in 1..Len(Built) + 1
         /\ Left = 10 * (2 * Len(Built) + 4 - at)
    /\ pc = "done" => Left = -1

LEMMA LeftFollows == Typed => LeftKnown
<1> SUFFICES ASSUME Typed PROVE LeftKnown
  OBVIOUS
<1>1. /\ Len(Built) \in Nat /\ Len(calls) = Len(Built)
      /\ Positions = 1..Len(Built) /\ calls \in [Positions -> 0..3]
      /\ at \in 1..Len(Built) + 1
  BY Measured DEF Typed, Fitted, TypeOK, CandidateRetries
<1>2. CASE pc = "ordering"
  BY <1>1, <1>2 DEF LeftKnown, Left
<1>3. CASE pc = "done"
  BY <1>3 DEF LeftKnown, Left
<1>4. CASE pc \in {"retrying", "inflight", "backoff", "arriving"}
  <2>1. Len(route) = Len(Built)
    BY <1>4 DEF Typed, Fitted
  <2>2. CASE at <= Len(route)
    <3>1. at \in Positions /\ calls[at] \in 0..3
      BY <1>1, <2>1, <2>2
    <3>2. Left = 10 * (Len(route) + 1 - at) + 3 * (3 - calls[at]) + Stage(pc)
      BY <1>1, <1>4, <2>1, <2>2 DEF Left, Stage, CandidateRetries
    <3>3. pc = "arriving" => calls[at] = 0
      BY <1>1, <3>1 DEF Typed, Placed
    <3>4. pc \in {"retrying", "inflight", "backoff"} => calls[at] > 0
      BY DEF Typed, Placed
    <3> QED BY <1>1, <1>4, <2>1, <2>2, <3>1, <3>2, <3>3, <3>4 DEF LeftKnown
  <2>3. CASE at > Len(route)
    <3>1. at = Len(route) + 1
      BY <1>1, <2>1, <2>3
    <3>2. pc = "arriving"
      BY <1>1, <1>4, <2>1, <2>3 DEF Typed, Placed
    <3>3. Left = 0
      BY <1>1, <2>1, <2>3, <3>1, <3>2 DEF Left
    <3> QED BY <1>1, <1>4, <2>1, <2>3, <3>1, <3>2, <3>3 DEF LeftKnown
  <2> QED BY <1>1, <2>1, <2>2, <2>3
<1> QED BY <1>2, <1>3, <1>4 DEF Typed, TypeOK

LEMMA LeftFollowsNext == Typed' => LeftKnown'
  BY LeftFollows, PTL

\* A walk that is not over has something left.
LEMMA SomethingLeft ==
    ASSUME LeftKnown, Typed, pc # "done"
    PROVE  Left \in Nat
<1>1. CASE pc = "ordering"
  BY <1>1 DEF LeftKnown
<1>2. CASE pc # "ordering" /\ at <= Len(route)
  <2>1. Stage(pc) \in Nat
    BY DEF Stage
  <2> QED BY <1>2, <2>1 DEF LeftKnown
<1>3. CASE pc # "ordering" /\ at > Len(route)
  BY <1>3 DEF LeftKnown
<1>4. pc # "ordering" => at <= Len(route) \/ at > Len(route)
  BY DEF LeftKnown
<1> QED BY <1>1, <1>2, <1>3, <1>4

\* The steps of a walk at a rung, by what they do to what is left.
LEMMA Nearer ==
    ASSUME LeftKnown, LeftKnown', Typed, UNCHANGED route,
           pc \notin {"ordering", "done"},
           \/ pc' = "done"
           \/ /\ pc' = "arriving" /\ UNCHANGED calls
              /\ at' \in {at + 1, Len(route) + 1} /\ at <= Len(route)
           \/ /\ UNCHANGED <<at, calls>>
              /\ \/ pc = "inflight" /\ pc' \in {"retrying", "backoff"}
                 \/ pc = "backoff" /\ pc' = "retrying"
           \/ /\ pc \in {"arriving", "retrying"} /\ pc' = "inflight"
              /\ at' = at /\ at <= Len(route) /\ calls'[at] = calls[at] + 1
    PROVE  Left' < Left
<1>1. CASE pc' = "done"
  <2>1. Left' = -1 /\ Left \in Nat
    BY <1>1, SomethingLeft DEF LeftKnown
  <2> QED BY <2>1
<1> DEFINE n == Len(route)
           c == calls[at]
<1>2. /\ n \in Nat /\ at \in 1..n + 1
      /\ at <= n => c \in 0..3 /\ Left = 10 * (n + 1 - at) + 3 * (3 - c) + Stage(pc)
  BY DEF LeftKnown
<1>3. CASE /\ pc' = "arriving" /\ UNCHANGED calls
           /\ at' \in {at + 1, Len(route) + 1} /\ at <= Len(route)
  <2> DEFINE l == Left  l1 == Left'  k == 10 * (n + 1 - at)
  <2>1. k \in Int /\ k >= 10 /\ l \in Int /\ l >= k
    <3>1. Stage(pc) \in Nat
      BY DEF Stage
    <3> HIDE DEF n, c
    <3> QED BY <1>2, <1>3, <3>1 DEF n
  <2>2. CASE at' = n + 1
    <3>1. Left' = 0
      BY <1>2, <1>3, <2>2 DEF LeftKnown
    <3> HIDE DEF k, n
    <3> QED BY <2>1, <3>1
  <2>3. CASE at' = at + 1 /\ at + 1 <= n
    <3>1. calls'[at'] = 0 /\ Stage(pc') = 0
      BY <1>2, <1>3, <2>3 DEF LeftKnown, Stage
    <3>2. Left' = 10 * (n + 1 - (at + 1)) + 9
      BY <1>2, <1>3, <2>3, <3>1 DEF LeftKnown
    <3>3. l1 = k - 1
      <4> HIDE DEF n
      <4> QED BY <1>2, <3>2
    <3> HIDE DEF l, l1, k
    <3>4. l1 < l
      BY <2>1, <3>3
    <3> QED BY <3>4 DEF l, l1
  <2> QED BY <1>2, <1>3, <2>2, <2>3
<1>4. CASE /\ UNCHANGED <<at, calls>>
           /\ \/ pc = "inflight" /\ pc' \in {"retrying", "backoff"}
              \/ pc = "backoff" /\ pc' = "retrying"
  <2>1. Stage(pc') < Stage(pc) /\ Stage(pc) \in Nat /\ Stage(pc') \in Nat
    BY <1>4 DEF Stage
  <2>2. at <= n
    BY <1>4 DEF LeftKnown
  <2>3. Left' = 10 * (n + 1 - at) + 3 * (3 - c) + Stage(pc')
    BY <1>4, <2>2 DEF LeftKnown
  <2> HIDE DEF n, c
  <2> QED BY <1>2, <2>1, <2>2, <2>3
<1>5. CASE /\ pc \in {"arriving", "retrying"} /\ pc' = "inflight"
           /\ at' = at /\ at <= Len(route) /\ calls'[at] = calls[at] + 1
  <2>1. Stage(pc) = 0 /\ Stage(pc') = 2
    BY <1>5 DEF Stage
  <2>2. Left' = 10 * (n + 1 - at) + 3 * (3 - (c + 1)) + 2
    BY <1>5, <2>1 DEF LeftKnown
  <2> HIDE DEF c
  <2>3. Left = 10 * (n + 1 - at) + 3 * (3 - c)
    BY <1>2, <1>5, <2>1
  <2> HIDE DEF n
  <2> QED BY <1>2, <1>5, <2>2, <2>3 DEF n
<1> QED BY <1>1, <1>3, <1>4, <1>5


\* A step that moves the walk brings it nearer to its end.
LEMMA StepNearer ==
    ASSUME Typed, [Next]_vars,
           ~UNCHANGED <<routeVars, pc, calls, answers, result>>
    PROVE  Left' < Left
<1>1. Typed' /\ LeftKnown /\ LeftKnown'
  BY NextTyped, LeftFollows, LeftFollowsNext
<1>2. CASE Order
  <2>1. pc = "ordering" /\ Ranking /\ Len(Built) \in Nat
    BY <1>1, <1>2 DEF Order, Typed, Fitted, LeftKnown
  <2>2. CASE RankOne /\ UNCHANGED pc
    <3>1. at' = at + 1 /\ Built' = Built
      BY <2>1, <2>2, RankOneRanks
    <3> DEFINE n == Len(Built)
    <3>2. /\ n \in Nat /\ at \in Int
          /\ Left = 10 * (2 * n + 4 - at) /\ Left' = 10 * (2 * n + 4 - (at + 1))
      BY <1>1, <2>1, <2>2, <3>1 DEF LeftKnown
    <3> HIDE DEF n
    <3> QED BY <3>2
  <2>3. CASE StartWalk /\ pc' = "arriving"
    <3>1. /\ Len(route') = Len(Built) /\ at' = 1 /\ at > Len(Built)
          /\ Len(Built) \in Nat \ {0}
      BY <2>1, <2>3, WalkStarts DEF StartWalk
    <3> DEFINE n == Len(Built)
    <3>2. /\ n \in Nat \ {0} /\ at = n + 1 /\ Left = 10 * (2 * n + 4 - at)
      BY <1>1, <2>1, <3>1 DEF LeftKnown
    <3>3. calls'[at'] = 0 /\ Stage(pc') = 0
      BY <1>1, <2>3, <3>1 DEF LeftKnown, Stage
    <3>4. Left' = 10 * (n + 1 - 1) + 9
      BY <1>1, <2>3, <3>1, <3>3 DEF LeftKnown
    <3> HIDE DEF n
    <3> QED BY <3>2, <3>4
  <2> QED BY <1>2, <2>2, <2>3 DEF Order
<1>3. CASE Skip
  BY <1>1, <1>3, Nearer DEF Skip, NextRung
<1>4. CASE Dispatch
  <2>1. /\ pc \in {"arriving", "retrying"} /\ at <= Len(route)
        /\ at \in Positions
    BY <1>4, ReadyTyped DEF Dispatch
  <2>2. /\ pc' = "inflight" /\ at' = at /\ route' = route
        /\ calls'[at] = calls[at] + 1
    BY <1>4, <2>1 DEF Dispatch, routeVars, Typed, TypeOK
  <2> QED BY <1>1, <2>1, <2>2, Nearer
<1>5. CASE EndsBeforeCall \/ CallCutShort \/ Serve \/ WaitCutShort \/ Exhaust
  <2>1. pc \notin {"ordering", "done"} /\ pc' = "done" /\ route' = route
    BY <1>5 DEF EndsBeforeCall, Ready, CallCutShort, Serve, Answered,
                WaitCutShort, Exhaust, Terminal, routeVars
  <2> QED BY <1>1, <2>1, Nearer
<1>6. CASE Blank \/ Wait
  <2>1. /\ \/ pc = "inflight" /\ pc' = "backoff"
           \/ pc = "backoff" /\ pc' = "retrying"
        /\ UNCHANGED <<at, calls, route>>
    BY <1>6 DEF Blank, Answered, Wait, routeVars
  <2> QED BY <1>1, <2>1, Nearer
<1>7. ASSUME NEW class \in Classes, Fail(class) PROVE Left' < Left
  <2>1. /\ pc = "inflight" /\ AfterFailure(class) /\ UNCHANGED calls
    BY <1>7 DEF Fail, Answered
  <2>2. at <= Len(route)
    BY <2>1, CallTyped
  <2>3. /\ UNCHANGED route
        /\ \/ pc' = "arriving" /\ at' = at + 1
           \/ pc' = "arriving" /\ at' = Len(route) + 1
           \/ pc' \in {"retrying", "backoff"} /\ at' = at
    BY <2>1, FailureMoves
  <2> QED BY <1>1, <2>1, <2>2, <2>3, Nearer
<1>8. CASE \/ Drain \/ UNCHANGED vars
           \/ (OthersObserve \/ CooldownEnds) /\ UNCHANGED <<routeVars, walkVars>>
  BY <1>8 DEF Drain, vars, walkVars
<1> QED BY <1>2, <1>3, <1>4, <1>5, <1>6, <1>7, <1>8 DEF Next, WalkNext

\* However upstreams answer, empty turns, repairs and retries included, every
\* step of a walk brings it nearer to its end: over any number of rungs no walk
\* goes on for ever.
THEOREM EveryStepNearer == Spec => NearerToItsEnd
<1>1. Typed /\ [Next]_vars
        => [Left' < Left]_<<routeVars, pc, calls, answers, result>>
  BY StepNearer
<1>2. Spec => []Typed
  BY InitTyped, NextTyped, PTL DEF Spec
<1> QED BY <1>1, <1>2, PTL DEF Spec, NearerToItsEnd

-----------------------------------------------------------------------------
(* What the walk promises.                                                 *)

\* Nothing is billed before the walk is over.
Unbilled == pc # "done" => ~billed

LEMMA NextUnbilled == Typed /\ Unbilled /\ [Next]_vars => Unbilled'
  BY DEF Unbilled, Next, WalkNext, Order, Skip, NextRung, Dispatch,
         EndsBeforeCall, Terminal, CallCutShort, Serve, Blank, Fail, Wait,
         WaitCutShort, Exhaust, Drain, vars, walkVars, Answered, Ready

\* A walk in flight was dispatched.
LEMMA InFlightDispatched == ASSUME Typed, pc = "inflight" PROVE Dispatched
  BY CallTyped DEF Typed, Placed, Dispatched

\* Every step is one the promise allows.
LEMMA StepPromised ==
    ASSUME Typed, Unbilled, [Next]_vars
    PROVE  [Promise!Next]_Promise!meteredVars
<1>0. billed \in BOOLEAN /\ Dispatched \in BOOLEAN
  BY DEF Typed, TypeOK, Dispatched
<1>1. CASE UNCHANGED <<calls, billed>> /\ (pc' = "done" <=> pc = "done")
  <2>1. Dispatched' = Dispatched
    BY <1>1 DEF Dispatched, Positions
  <2> QED BY <1>1, <2>1 DEF Promise!meteredVars
<1>2. CASE Dispatch
  <2>1. /\ pc \in {"arriving", "retrying"} /\ at \in Positions
        /\ calls[at] \in 0..CandidateRetries
    BY <1>2, ReadyTyped DEF Dispatch
  <2>2. /\ pc' = "inflight" /\ calls' = [calls EXCEPT ![at] = @ + 1]
        /\ UNCHANGED billed
    BY <1>2 DEF Dispatch
  <2>3. at \in Positions' /\ calls'[at] > 0
    BY <2>1, <2>2 DEF Positions, CandidateRetries
  <2>4. Dispatched' = TRUE
    BY <2>3 DEF Dispatched
  <2> QED BY <2>1, <2>2, <2>4 DEF Promise!Next, Promise!Dispatch
<1>3. CASE /\ pc # "done" /\ pc' = "done" /\ UNCHANGED calls
           /\ billed' = billed \/ (pc = "inflight" /\ billed' = TRUE)
  <2>1. Dispatched' = Dispatched
    BY <1>3 DEF Dispatched, Positions
  <2>2. billed = FALSE
    BY <1>0, <1>3 DEF Unbilled
  <2>3. billed' \in {FALSE, Dispatched}
    BY <1>0, <1>3, <2>2, InFlightDispatched
  <2> QED BY <1>3, <2>1, <2>3 DEF Promise!Next, Promise!Settle
<1>4. CASE Order \/ Skip \/ Blank \/ Wait
  BY <1>1, <1>4 DEF Order, Skip, NextRung, Blank, Answered, Wait
<1>5. CASE EndsBeforeCall \/ CallCutShort \/ Serve \/ WaitCutShort \/ Exhaust
  BY <1>3, <1>5 DEF EndsBeforeCall, Ready, CallCutShort, Serve, Answered,
                    WaitCutShort, Exhaust, Terminal
<1>6. ASSUME NEW class \in Classes, Fail(class)
      PROVE  [Promise!Next]_Promise!meteredVars
  <2>1. pc = "inflight" /\ AfterFailure(class) /\ UNCHANGED <<calls, billed>>
    BY <1>6 DEF Fail, Answered
  <2> QED BY <1>1, <2>1, FailureMoves
<1>7. CASE \/ Drain \/ UNCHANGED vars
           \/ (OthersObserve \/ CooldownEnds) /\ UNCHANGED <<routeVars, walkVars>>
  BY <1>1, <1>7 DEF Drain, vars, walkVars
<1> QED BY <1>2, <1>4, <1>5, <1>6, <1>7 DEF Next, WalkNext

\* The walk keeps the promise its reservation relies on: it settles once and
\* for good, and bills only after something was sent upstream.
THEOREM PromiseKept == Spec => KeepsPromise
<1>1. Init => Unbilled /\ Promise!Init
  BY DEF Init, Unbilled, Promise!Init, Dispatched, Positions
<1>2. Spec => [](Typed /\ Unbilled)
  BY <1>1, InitTyped, NextTyped, NextUnbilled, PTL DEF Spec
<1>3. Typed /\ Unbilled /\ [Next]_vars => [Promise!Next]_Promise!meteredVars
  BY StepPromised
<1> QED BY <1>1, <1>2, <1>3, PTL DEF Spec, KeepsPromise, Promise!Spec


-----------------------------------------------------------------------------
(* What the customer is told.                                              *)

\* No position has answered unattested without the latch being set; a walk
\* that reported another reason had not latched.
Latched ==
    /\ \A i \in DOMAIN answers : "unattested" \in answers[i] => unattested
    /\ pc # "done" => result = "none"
    /\ result \in {"exhausted", "parameter"} => ~unattested

\* A step that hears no answer keeps the latch; a terminal adds a reason that
\* fits it.
LEMMA QuietLatched ==
    ASSUME Latched, UNCHANGED <<answers, unattested>>,
           \/ pc # "done" /\ UNCHANGED result
           \/ UNCHANGED <<pc, result>>
           \/ pc' = "done" /\ result' \notin {"exhausted", "parameter"}
           \/ pc' = "done" /\ result' \in {"exhausted", "parameter"} /\ ~unattested
    PROVE  Latched'
  BY DEF Latched

\* Every step keeps the latch: what was latched outlives every later answer.
LEMMA NextLatched == Typed /\ Latched /\ [Next]_vars => Latched'
<1> SUFFICES ASSUME Typed, Latched, [Next]_vars PROVE Latched'
  OBVIOUS
<1>1. CASE Order \/ Skip \/ Blank \/ Wait \/ Dispatch
  BY <1>1, QuietLatched
     DEF Order, Skip, Blank, Wait, Answered, Dispatch, Ready
<1>2. CASE EndsBeforeCall \/ CallCutShort \/ WaitCutShort
  BY <1>2, QuietLatched DEF EndsBeforeCall, CallCutShort, WaitCutShort, Terminal
<1>3. CASE Serve
  BY <1>3, QuietLatched DEF Serve
<1>4. ASSUME NEW class \in Classes, Fail(class) PROVE Latched'
  <2>1. /\ answers' = [answers EXCEPT ![at] = @ \cup {class}]
        /\ unattested' = (unattested \/ class = "unattested")
        /\ UNCHANGED result /\ pc = "inflight"
    BY <1>4 DEF Fail, Answered
  <2>2. result = "none" /\ unattested \in BOOLEAN
    BY <2>1 DEF Latched, Typed, TypeOK
  <2>3. answers \in [Positions -> SUBSET Answers]
    BY DEF Typed, TypeOK
  <2>4. ASSUME NEW i \in DOMAIN answers', "unattested" \in answers'[i]
        PROVE  unattested'
    <3>1. "unattested" \in answers[i] \/ class = "unattested"
      BY <2>1, <2>3, <2>4
    <3> QED BY <2>1, <2>2, <2>3, <3>1 DEF Latched
  <2> QED BY <2>1, <2>2, <2>4 DEF Latched
<1>5. CASE Exhaust
  <2>1. /\ pc' = "done" /\ result' = ExhaustedWith
        /\ UNCHANGED <<answers, unattested>>
    BY <1>5 DEF Exhaust, Terminal
  <2> QED BY <2>1, QuietLatched DEF ExhaustedWith
<1>6. CASE Drain \/ UNCHANGED walkVars \/ UNCHANGED vars
  BY <1>6, QuietLatched DEF Drain, walkVars, vars
<1> QED BY <1>1, <1>2, <1>3, <1>4, <1>5, <1>6 DEF Next, WalkNext

\* A rung that would not attest its retention is what a walk that failed
\* reports, whatever other rungs failed with before or after.
THEOREM RetentionFailureTold == Spec => []RetentionFailureReported
<1>1. Init => Latched
  BY DEF Init, Latched
<1>2. Spec => [](Typed /\ Latched)
  BY <1>1, InitTyped, NextTyped, NextLatched, PTL DEF Spec
<1>3. Typed /\ Latched => RetentionFailureReported
  BY DEF Typed, TypeOK, Latched, RetentionFailureReported
<1> QED BY <1>2, <1>3, PTL
=============================================================================
